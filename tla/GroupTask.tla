----------------------------- MODULE GroupTask -----------------------------
(***************************************************************************)
(* How the server drives ONE multicast group through the tasks an operator *)
(* types: it looks for a moderator with echo probes, tells the group who   *)
(* it is, hands the task out when the moderator has reported, monitors the *)
(* moderator, replaces it when it falls silent, and takes the result.      *)
(*                                                                         *)
(* The state is that of mcast_group_node_t.  One action is one handler run *)
(* to its end: a datagram (RcvXxx) or a timer signal (SelTimeout, ...).    *)
(* The CLI command, which - unlike a datagram - runs with the timer        *)
(* signals enabled, is taken in steps between which a timer's handler may  *)
(* run (AssignXxx).  Datagrams may be lost, duplicated, delayed and        *)
(* reordered: an answer may arrive whenever its cause was ever sent.       *)
(* A NULL dereference ends the server; where the code touches freed or     *)
(* uninitialised memory both outcomes, survival and the end of the server, *)
(* are possible.  Which files a client works on is left to other modules.  *)
(***************************************************************************)
EXTENDS Integers, Sequences, FiniteSets

CONSTANTS
  Client,      \* the clients that may be members of the group
  NULL,        \* the null pointer
  NumTasks,    \* how many tasks the operator types (a bound)
  MaxMisses,   \* MAX_ALLOWED_KA_MISSES, 5 in the code
  Reachable,   \* GROUP_REACHABLE, 2 in the code
  MaxTried,    \* MAX_CLIENTS_TRIED_PER_ATTEMPT, 3 in the code
  MaxChurn,    \* how many join and leave requests arrive (a bound)
  Mortal,      \* the clients whose process may die
  Max8,        \* the largest uint8_t, 255 in the code
  HeapByte     \* what a uint8_t read from fresh malloc memory may be

ASSUME ClientAssumption == NULL \notin Client
ASSUME NumTasksAssumption == NumTasks \in Nat \ {0}
ASSUME LimitsAssumption ==
  /\ Max8 \in Nat
  /\ MaxMisses \in 1 .. Max8
  /\ Reachable \in 2 .. Max8
  /\ MaxTried \in Nat \ {0}
  /\ MaxChurn \in Nat
ASSUME EnvironmentAssumption ==
  /\ Mortal \subseteq Client
  /\ HeapByte \subseteq 0 .. Max8 /\ HeapByte # {}

Tasks == 1 .. NumTasks

States == {"MODERATOR_SELECTION_PENDING", "MODERATOR_SELECTED",
           "GROUP_TASK_IN_PROGRESS", "TASK_IN_PROGRESS_MOD_SEL_PEND",
           "STATE_NONE"}

(* Where the CLI command is: past its checks, past fsm_state, past the     *)
(* index, about to scan, past its scan, with the cursor stored, with the   *)
(* index read, with it written, about to give up, about to create the      *)
(* timer, about to set it.                                                 *)
CommandSteps == {"assigning", "pending", "reset", "looked", "scanned",
                 "stored", "read", "written", "giving up", "starting", "setting"}

VARIABLES
  members,                  \* client_info: the list of clients, head first
  status,                   \* av_status of each client's node
  registered,               \* how often the client's RBT node lists the group
  fsm_state,
  moderator_client,         \* a client (its node), or NULL
  moderator_node,           \* what it points to: "allocated" or "freed"
  timer_id,                 \* "0", or the signal the timer was created with
  timer_armed,              \* the timer will expire: "no", "once" or "repeat"
  heartbeat_remaining,      \* uint8_t
  group_reachability_index, \* uint8_t
  server,                   \* the process: "running" or "crashed"
  cli,                      \* "prompt", or how far the CLI command is
  client_node,              \* the command's own: where its scan stopped,
  passes                    \* and the index as it was read (until used)

list == <<members, status, registered>>
moderator == <<moderator_client, moderator_node>>
timer == <<timer_id, timer_armed>>
locals == <<client_node, passes>>

VARIABLES
  task,        \* number of the task accepted last; the CLI numbers them
  phase,       \* what has become of each task (see TaskLifecycle)
  distributed, \* the tasks for which perform_task was multicast
  probed,      \* the clients an echo probe was ever sent to
  asked,       \* the clients probed since the selection under way began
  role,        \* <<c, t>>: c was announced as moderator while t was the task
  alive,       \* the clients whose process runs
  churn,       \* join and leave requests so far
  silence,     \* expiries of the monitoring timer since the last sign of life
  overlapped   \* a timer ended a pass while the task was being assigned

command == <<cli, locals, overlapped>>
environment == <<alive, churn>>

vars == <<members, status, registered, fsm_state, moderator_client,
          moderator_node, timer_id, timer_armed, heartbeat_remaining,
          group_reachability_index, server, cli, client_node, passes, task,
          phase, distributed, probed, asked, role, alive, churn, silence,
          overlapped>>

TypeOK ==
  /\ members \in Seq(Client)
  /\ status \in [Client -> {"CLFREE", "CLBUSY"}]
  /\ registered \in [Client -> Nat]
  /\ fsm_state \in States
  /\ moderator_client \in Client \cup {NULL}
  /\ moderator_node \in {"allocated", "freed"}
  /\ timer_id \in {"0", "MOD_SEL_TIMEOUT", "MOD_RSP_TIMEOUT"}
  /\ timer_armed \in {"no", "once", "repeat"}
  /\ heartbeat_remaining \in 0 .. Max8
  /\ group_reachability_index \in 0 .. Max8
  /\ server \in {"running", "crashed"}
  /\ cli \in {"prompt"} \cup CommandSteps
  /\ client_node \in Client \cup {NULL}
  /\ passes \in 0 .. Max8
  /\ task \in 0 .. NumTasks
  /\ phase \in [Tasks -> {"new", "selecting", "running",
                          "done", "unreachable", "overtaken"}]
  /\ distributed \subseteq Tasks
  /\ probed \subseteq Client
  /\ asked \subseteq Client
  /\ role \subseteq Client \X Tasks
  /\ alive \subseteq Client
  /\ churn \in 0 .. MaxChurn
  /\ silence \in Nat
  /\ overlapped \in BOOLEAN

Init ==
  /\ \E n \in 0 .. Cardinality(Client) :
       members \in {s \in [1 .. n -> Client] :
                      \A i, j \in 1 .. n : s[i] = s[j] => i = j}
  /\ status = [c \in Client |-> "CLFREE"]
  /\ registered = [c \in Client |-> IF \E i \in DOMAIN members : members[i] = c
                                    THEN 1 ELSE 0]
  /\ fsm_state = "STATE_NONE"
  /\ moderator_client = NULL
  /\ moderator_node = "allocated"
  /\ timer_id = "0"
  /\ timer_armed = "no"
  /\ heartbeat_remaining \in HeapByte
  /\ group_reachability_index = Reachable
  /\ server = "running"
  /\ cli = "prompt"
  /\ client_node = NULL
  /\ passes = 0
  /\ task = 0
  /\ phase = [t \in Tasks |-> "new"]
  /\ distributed = {}
  /\ probed = {}
  /\ asked = {}
  /\ role = {}
  /\ alive = Client
  /\ churn = 0
  /\ silence = 0
  /\ overlapped = FALSE

----------------------------------------------------------------------------
(* The list of members.                                                    *)

Members == {members[i] : i \in DOMAIN members}

(* The list without c, in which c occurs at most once.                     *)
Without(c) ==
  IF c \notin Members THEN members
  ELSE LET i == CHOOSE j \in DOMAIN members : members[j] = c
       IN  SubSeq(members, 1, i - 1) \o SubSeq(members, i + 1, Len(members))

(* The main loop waits in epoll_wait.                                      *)
AtEpoll == server = "running" /\ cli = "prompt"

(* The process is gone.  Undefined behaviour offers Crash as one outcome   *)
(* and the plain effect of the code as the other.                          *)
Crash ==
  /\ server' = "crashed"
  /\ UNCHANGED <<list, fsm_state, moderator, timer, heartbeat_remaining,
                 group_reachability_index, command, task, phase,
                 distributed, probed, asked, role, environment, silence>>

(* A client behaves as moderator for task t when it was announced for it,  *)
(* and also when it was still busy with an earlier task when somebody else *)
(* was announced: the client then takes the branch of the moderator.       *)
ActsAsModerator(c, t) ==
  /\ c \in alive
  /\ \/ <<c, t>> \in role
     \/ /\ \E d \in Client : <<d, t>> \in role
        /\ \E u \in distributed : u < t

(* Timers.  A timer is created only when the id is zero: an existing one   *)
(* is set anew and keeps the signal it was created with.                   *)
StartTimer(id, signal, how) ==
  /\ timer_id' = IF id = "0" THEN signal ELSE id
  /\ timer_armed' = how

(* A slip: the timer is stopped, as stop_timer does, and not deleted.      *)
DeleteTimer_Stops == timer_id' = timer_id /\ timer_armed' = "no"

DeleteTimer ==
  /\ timer_id' = "0"
  /\ timer_armed' = "no"

(* The recurring timer that counts the heartbeats the moderator misses.    *)
(* A slip: it is started as a one-shot.                                    *)
StartMonitoring_Once(id) == StartTimer(id, "MOD_RSP_TIMEOUT", "once")

StartMonitoring(id) == StartTimer(id, "MOD_RSP_TIMEOUT", "repeat")

Dangling == moderator_node = "freed"

(* The command has accepted its task and is not done with it.              *)
Accepted == cli \notin {"prompt", "assigning"}

PointModerator(c) ==
  /\ moderator_client' = c
  /\ moderator_node' = "allocated"

set_group_available ==
  /\ DeleteTimer
  /\ fsm_state' = "STATE_NONE"
  /\ PointModerator(NULL)

----------------------------------------------------------------------------
(* moderator_selection.  It scans the list from moderator_client, or from  *)
(* the head, over at most MaxTried nodes, probes the free ones and keeps   *)
(* the node after them.  The node of a freed client has no successor.      *)

(* uint8_t arithmetic.  A slip: an int.                                    *)
Dec8_Int(n) == n - 1

Dec8(n) == IF n = 0 THEN Max8 ELSE n - 1

ScanStart ==
  IF moderator_client = NULL THEN 1
  ELSE CHOOSE i \in DOMAIN members : members[i] = moderator_client

Scanned ==
  IF Dangling THEN {moderator_client}
  ELSE {members[i] : i \in {j \in DOMAIN members :
                               j \in ScanStart .. ScanStart + MaxTried - 1}}

(* A slip: every scan begins at the head again.                            *)
AfterScan_Head == NULL

AfterScan ==
  IF Dangling \/ ScanStart + MaxTried \notin DOMAIN members THEN NULL
  ELSE members[ScanStart + MaxTried]

(* Reaching the end of the list uses up one pass.  A slip: it does not.    *)
PassesLeft_Kept(reach) == reach

PassesLeft(reach) == IF AfterScan = NULL THEN Dec8(reach) ELSE reach

(* A slip: the index is tested before it is decremented.                   *)
GivesUp_Late(reach) == AfterScan = NULL /\ reach = 0

GivesUp(reach) == AfterScan = NULL /\ PassesLeft(reach) = 0

(* client_info is NULL without members; moderator_client may be freed; and *)
(* giving up frees what only the distribution of the task allocates, or    *)
(* what the command under way has just allocated.                          *)
SelectionUndefined ==
  \/ members = <<>>
  \/ Dangling
  \/ /\ GivesUp(group_reachability_index)
     /\ phase[task] # "running" \/ cli # "prompt"

(* Probes go to the free nodes; what a freed node says is arbitrary.       *)
Probes ==
  IF Dangling THEN {{}, {moderator_client}}
  ELSE {{c \in Scanned : status[c] = "CLFREE"}}

(* As a timer's handler runs it, entered in state st, with the timer id    *)
(* and when the clients in already have been asked.  The last pass gives   *)
(* the group up without waiting.                                           *)
moderator_selection(st, id, already) ==
  /\ members # <<>>
  /\ \E P \in Probes : /\ probed' = probed \cup P
                        /\ asked' = already \cup P
  /\ group_reachability_index' = PassesLeft(group_reachability_index)
  /\ \/ /\ GivesUp(group_reachability_index)
        /\ set_group_available
        /\ phase' = [phase EXCEPT ![task] = "unreachable"]
     \/ /\ ~GivesUp(group_reachability_index)
        /\ fsm_state' = st
        /\ PointModerator(AfterScan)
        /\ StartTimer(id, "MOD_SEL_TIMEOUT", "once")
        /\ UNCHANGED phase
  /\ overlapped' = (overlapped \/ (Accepted /\ AfterScan = NULL))
  /\ UNCHANGED <<list, server, cli, locals, task, distributed, role,
                 environment>>

----------------------------------------------------------------------------
(* The CLI command "assign task".                                          *)

(* The checks of assign_task: a group with a moderator is busy.            *)
AssignCheck ==
  /\ AtEpoll
  /\ task < NumTasks
  /\ moderator_client = NULL
  /\ members # <<>>
  /\ cli' = "assigning"
  /\ UNCHANGED <<list, fsm_state, moderator, timer, heartbeat_remaining,
                 group_reachability_index, server, locals, task, phase,
                 distributed, probed, asked, role, environment, silence,
                 overlapped>>

(* A task that was still open when the next one is accepted is lost.       *)
PhaseAfterAccept ==
  [t \in Tasks |->
     IF t = task + 1 THEN "selecting"
     ELSE IF t = task /\ phase[t] \in {"selecting", "running"} THEN "overtaken"
     ELSE phase[t]]

(* The task is entered and the state of the group set, after whatever the  *)
(* timers did since the checks.                                            *)
AssignPending ==
  /\ server = "running" /\ cli = "assigning"
  /\ cli' = "pending"
  /\ task' = task + 1
  /\ phase' = PhaseAfterAccept
  /\ fsm_state' = "MODERATOR_SELECTION_PENDING"
  /\ asked' = {}
  /\ overlapped' = FALSE
  /\ UNCHANGED <<list, moderator, timer, heartbeat_remaining,
                 group_reachability_index, server, locals, distributed,
                 probed, role, environment, silence>>

(* The group counts as reachable again.                                    *)
AssignReset ==
  /\ server = "running" /\ cli = "pending"
  /\ cli' = "reset"
  /\ group_reachability_index' = Reachable
  /\ UNCHANGED <<list, fsm_state, moderator, timer, heartbeat_remaining,
                 server, locals, task, phase, distributed, probed, asked,
                 role, environment, silence, overlapped>>

(* moderator_selection as the command runs it.  It tests moderator_client  *)
(* before it reads it: a timer's handler may set it to NULL in between,    *)
(* and then the scan is over before it begins.                             *)
AssignLook ==
  /\ server = "running" /\ cli = "reset"
  /\ moderator_client # NULL
  /\ cli' = "looked"
  /\ UNCHANGED <<list, fsm_state, moderator, timer, heartbeat_remaining,
                 group_reachability_index, server, locals, task, phase,
                 distributed, probed, asked, role, environment, silence,
                 overlapped>>

ScanMissed == cli = "looked" /\ moderator_client = NULL

(* The scan moves a cursor of its own,                                     *)
AssignScan ==
  /\ server = "running"
  /\ cli = "looked" \/ (cli = "reset" /\ moderator_client = NULL)
  /\ cli' = "scanned"
  /\ \/ /\ ScanMissed
        /\ client_node' = NULL
        /\ UNCHANGED <<probed, asked>>
     \/ /\ ~ScanMissed
        /\ client_node' = AfterScan
        /\ \E P \in Probes : probed' = probed \cup P /\ asked' = asked \cup P
  /\ UNCHANGED <<list, fsm_state, moderator, timer, heartbeat_remaining,
                 group_reachability_index, server, passes, task, phase,
                 distributed, role, environment, silence, overlapped>>

(* stores it, whatever a timer's handler has stored meanwhile,             *)
AssignStore ==
  /\ server = "running" /\ cli = "scanned"
  /\ cli' = IF client_node = NULL THEN "stored" ELSE "starting"
  /\ PointModerator(client_node)
  /\ client_node' = NULL
  /\ UNCHANGED <<list, fsm_state, timer, heartbeat_remaining,
                 group_reachability_index, server, passes, task, phase,
                 distributed, probed, asked, role, environment, silence,
                 overlapped>>

(* takes a pass off the index, which it reads and writes,                  *)
AssignRead ==
  /\ server = "running" /\ cli = "stored"
  /\ cli' = "read"
  /\ passes' = group_reachability_index
  /\ UNCHANGED <<list, fsm_state, moderator, timer, heartbeat_remaining,
                 group_reachability_index, server, client_node, task, phase,
                 distributed, probed, asked, role, environment, silence,
                 overlapped>>

AssignWrite ==
  /\ server = "running" /\ cli = "read"
  /\ cli' = "written"
  /\ group_reachability_index' = Dec8(passes)
  /\ passes' = 0
  /\ UNCHANGED <<list, fsm_state, moderator, timer, heartbeat_remaining,
                 server, client_node, task, phase, distributed, probed, asked,
                 role, environment, silence, overlapped>>

(* reads it once more,                                                     *)
AssignTest ==
  /\ server = "running" /\ cli = "written"
  /\ cli' = IF group_reachability_index = 0 THEN "giving up" ELSE "starting"
  /\ UNCHANGED <<list, fsm_state, moderator, timer, heartbeat_remaining,
                 group_reachability_index, server, locals, task, phase,
                 distributed, probed, asked, role, environment, silence,
                 overlapped>>

(* and gives the group up, freeing what may be freed already,              *)
AssignGiveUp ==
  /\ server = "running" /\ cli = "giving up"
  /\ \/ Crash
     \/ /\ cli' = "prompt"
        /\ set_group_available
        /\ phase' = [phase EXCEPT ![task] = "unreachable"]
        /\ UNCHANGED <<list, heartbeat_remaining, group_reachability_index,
                       server, locals, task, distributed, probed, asked,
                       role, environment, silence, overlapped>>

(* or creates a timer, if there is none, and sets it.  A timer that its    *)
(* handler has deleted in between ends the server, unless another group's  *)
(* timer has the number zero.                                              *)
AssignTimer ==
  /\ server = "running" /\ cli = "starting"
  /\ cli' = "setting"
  /\ StartTimer(timer_id, "MOD_SEL_TIMEOUT", timer_armed)
  /\ UNCHANGED <<list, fsm_state, moderator, heartbeat_remaining,
                 group_reachability_index, server, locals, task, phase,
                 distributed, probed, asked, role, environment, silence,
                 overlapped>>

AssignSet ==
  /\ server = "running" /\ cli = "setting"
  /\ \/ timer_id = "0" /\ Crash
     \/ /\ cli' = "prompt"
        /\ timer_armed' = IF timer_id = "0" THEN timer_armed ELSE "once"
        /\ UNCHANGED <<list, fsm_state, moderator, timer_id,
                       heartbeat_remaining, group_reachability_index,
                       server, locals, task, phase, distributed, probed,
                       asked, role, environment, silence, overlapped>>

(* The command from its checks on.                                         *)
AssignGoesOn ==
  \/ AssignPending
  \/ AssignReset
  \/ AssignLook
  \/ AssignScan
  \/ AssignStore
  \/ AssignRead
  \/ AssignWrite
  \/ AssignTest
  \/ AssignGiveUp
  \/ AssignTimer
  \/ AssignSet

----------------------------------------------------------------------------
(* Timers.  They interrupt epoll_wait and the CLI command, not a datagram. *)

(* MOD_SEL_TIMEOUT: nobody has answered the probes; assert(0) if somebody  *)
(* has.                                                                    *)
SelTimeout ==
  /\ server = "running"
  /\ timer_id = "MOD_SEL_TIMEOUT" /\ timer_armed # "no"
  /\ \/ /\ \/ fsm_state = "MODERATOR_SELECTED"
           \/ SelectionUndefined
        /\ Crash
     \/ /\ fsm_state # "MODERATOR_SELECTED"
        /\ moderator_selection(fsm_state, timer_id, asked)
        /\ UNCHANGED <<heartbeat_remaining, silence>>

(* A one-shot that expires while a datagram is handled is discarded: the   *)
(* signals are ignored, not blocked, and nobody arms the timer again.      *)
TimeoutIgnored ==
  /\ AtEpoll
  /\ timer_armed = "once"
  /\ timer_armed' = "no"
  /\ UNCHANGED <<list, fsm_state, moderator, timer_id, heartbeat_remaining,
                 group_reachability_index, server, command, task, phase,
                 distributed, probed, asked, role, environment, silence>>

(* MOD_RSP_TIMEOUT tests the count and then decrements it.  A slip: the    *)
(* other way round.                                                        *)
HeartbeatLeft_Pre == heartbeat_remaining > 1

HeartbeatLeft == heartbeat_remaining > 0

(* MOD_RSP_TIMEOUT while heartbeats are left: one is used up.              *)
HeartbeatMissed ==
  /\ server = "running"
  /\ timer_id = "MOD_RSP_TIMEOUT" /\ timer_armed # "no"
  /\ HeartbeatLeft
  /\ heartbeat_remaining' = Dec8(heartbeat_remaining)
  /\ silence' = silence + 1
  /\ timer_armed' = IF timer_armed = "once" THEN "no" ELSE timer_armed
  /\ UNCHANGED <<list, fsm_state, moderator, timer_id,
                 group_reachability_index, server, command, task, phase,
                 distributed, probed, asked, role, environment>>

(* The state in which a silent moderator leaves the group.  A slip: the    *)
(* task is begun again.                                                    *)
StateAfterSilence_Again == "MODERATOR_SELECTION_PENDING"

StateAfterSilence ==
  IF fsm_state = "GROUP_TASK_IN_PROGRESS" THEN "TASK_IN_PROGRESS_MOD_SEL_PEND"
  ELSE fsm_state

(* MOD_RSP_TIMEOUT with no heartbeat left: the moderator is given up and   *)
(* another one is looked for, from its node on.  moderator_client may be   *)
(* NULL, its RBT node gone, or its files looked up past the end of the     *)
(* distribution map, which this module leaves out.  In any other state:    *)
(* assert(0).                                                              *)
ModeratorSilent ==
  /\ server = "running"
  /\ timer_id = "MOD_RSP_TIMEOUT" /\ timer_armed # "no"
  /\ ~HeartbeatLeft
  /\ \/ /\ \/ fsm_state # "MODERATOR_SELECTED"
           \/ SelectionUndefined
        /\ Crash
     \/ /\ fsm_state \in {"MODERATOR_SELECTED", "GROUP_TASK_IN_PROGRESS"}
        /\ fsm_state = "GROUP_TASK_IN_PROGRESS" => moderator_client # NULL
        /\ heartbeat_remaining' = Dec8(heartbeat_remaining)
        /\ silence' = silence + 1
        /\ moderator_selection(StateAfterSilence, "0", {})

----------------------------------------------------------------------------
(* Datagrams.                                                              *)

(* update_moderator_info: the client that answered becomes the moderator   *)
(* if it is in the list.                                                   *)
(* A slip: the node is not marked.                                         *)
update_moderator_info_Free(c) ==
  /\ PointModerator(c)
  /\ heartbeat_remaining' = MaxMisses
  /\ silence' = 0
  /\ role' = role \cup {<<c, task>>}
  /\ UNCHANGED list

update_moderator_info(c) ==
  /\ PointModerator(c)
  /\ status' = [status EXCEPT ![c] = "CLBUSY"]
  /\ heartbeat_remaining' = MaxMisses
  /\ silence' = 0
  /\ role' = role \cup {<<c, task>>}
  /\ UNCHANGED <<members, registered>>

(* The answer of a client that is no member: the timer is gone all the     *)
(* same.                                                                   *)
NoSuchMember ==
  UNCHANGED <<list, moderator, heartbeat_remaining, silence, role>>

(* An echo response in MODERATOR_SELECTION_PENDING                         *)
(* (mcast_send_chk_alive_msg).                                             *)
RcvEchoRsp(c) ==
  /\ AtEpoll
  /\ c \in probed \cap alive
  /\ fsm_state = "MODERATOR_SELECTION_PENDING"
  /\ \/ timer_id = "0" /\ Crash
     \/ /\ DeleteTimer
        /\ group_reachability_index' = Reachable
        /\ \/ /\ c \in Members
              /\ update_moderator_info(c)
              /\ fsm_state' = "MODERATOR_SELECTED"
           \/ /\ c \notin Members
              /\ NoSuchMember
              /\ UNCHANGED fsm_state
        /\ UNCHANGED <<server, command, task, phase, distributed, probed,
                       asked, environment>>

(* An echo response in TASK_IN_PROGRESS_MOD_SEL_PEND                       *)
(* (send_new_moderator_info).  The files of the old moderator are handed   *)
(* to entries of the distribution map that need not exist.                 *)
RcvEchoRspFailover(c) ==
  /\ AtEpoll
  /\ c \in probed \cap alive
  /\ fsm_state = "TASK_IN_PROGRESS_MOD_SEL_PEND"
  /\ \/ c \in Members /\ Crash
     \/ /\ fsm_state' = "GROUP_TASK_IN_PROGRESS"
        /\ \/ /\ c \in Members
              /\ update_moderator_info(c)
              /\ StartMonitoring("0")
           \/ /\ c \notin Members
              /\ NoSuchMember
              /\ DeleteTimer
        /\ UNCHANGED <<group_reachability_index, server, command, task, phase,
                       distributed, probed, asked, environment>>

(* A moderator notify response in MODERATOR_SELECTED: the task is handed   *)
(* out (mcast_start_task_distribution).  A client it lists may have left,  *)
(* and the distribution map be shorter than the list.                      *)
RcvNotifyRsp(c) ==
  /\ AtEpoll
  /\ \E t \in Tasks : ActsAsModerator(c, t)
  /\ registered[c] > 0
  /\ fsm_state = "MODERATOR_SELECTED"
  /\ \/ Crash
     \/ /\ fsm_state' = "GROUP_TASK_IN_PROGRESS"
        /\ distributed' = distributed \cup {task}
        /\ phase' = [phase EXCEPT ![task] = "running"]
        /\ StartMonitoring(timer_id)
        /\ UNCHANGED <<list, moderator, heartbeat_remaining,
                       group_reachability_index, server, command, task, probed,
                       asked, role, environment, silence>>

(* Only a task in progress can be over.  A slip: any task can.             *)
TaskEnds_AnyState == fsm_state # "STATE_NONE"

TaskEnds == fsm_state = "GROUP_TASK_IN_PROGRESS"

(* The task response of a client for task t.  Whoever sends it, and        *)
(* whatever task it is for, the moderator is set free and, while a task is *)
(* in progress, that task is over.                                         *)
RcvTaskRsp(c, t) ==
  LET freed == IF moderator_client # NULL THEN moderator_client ELSE c
  IN  /\ AtEpoll
      /\ ActsAsModerator(c, t) /\ t \in distributed
      /\ registered[c] > 0
      /\ \/ /\ \/ Dangling
               \/ moderator_client = NULL /\ c \notin Members
               \/ TaskEnds /\ timer_id = "0"
            /\ Crash
         \/ /\ status' = IF Dangling \/ freed \notin Members THEN status
                         ELSE [status EXCEPT ![freed] = "CLFREE"]
            /\ \/ /\ TaskEnds
                  /\ set_group_available
                  /\ phase' = [phase EXCEPT ![task] = "done"]
               \/ /\ ~TaskEnds
                  /\ PointModerator(NULL)
                  /\ UNCHANGED <<timer, fsm_state, phase>>
            /\ UNCHANGED <<members, registered, heartbeat_remaining,
                           group_reachability_index, server, command,
                           task, distributed, probed, asked, role, environment,
                           silence>>

(* The moderator's echo request, its heartbeat                             *)
(* (server_echo_req_task_in_progress_state).  It may report as dead a      *)
(* client that has left or that has no files: neither is checked.          *)
RcvEchoReq(c) ==
  /\ AtEpoll
  /\ \E t \in Tasks : ActsAsModerator(c, t)
  /\ fsm_state = "GROUP_TASK_IN_PROGRESS"
  /\ \/ /\ moderator_client \in {NULL, c} \/ Dangling
        /\ Crash
     \/ /\ moderator_client = c
        /\ heartbeat_remaining' = MaxMisses
        /\ silence' = 0
        /\ UNCHANGED <<list, fsm_state, moderator, timer,
                       group_reachability_index, server, command, task,
                       phase, distributed, probed, asked, role, environment>>

----------------------------------------------------------------------------
(* Clients come, leave and die.                                            *)

(* A join request: an old entry of the client is purged, a new free node   *)
(* goes to the head of the list and the RBT node lists the group once      *)
(* more.  A moderator_client that was or becomes dangling may find the new *)
(* node in the memory it points to.                                        *)
Join(c) ==
  LET freed == Dangling \/ (moderator_client = c /\ c \in Members)
  IN  /\ AtEpoll
      /\ churn < MaxChurn
      /\ churn' = churn + 1
      /\ alive' = alive \cup {c}
      /\ members' = <<c>> \o Without(c)
      /\ status' = [status EXCEPT ![c] = "CLFREE"]
      /\ registered' = [registered EXCEPT ![c] = @ + 1]
      /\ \/ /\ moderator_node' = IF freed THEN "freed" ELSE moderator_node
            /\ UNCHANGED moderator_client
         \/ freed /\ PointModerator(c)
      /\ UNCHANGED <<fsm_state, timer, heartbeat_remaining,
                     group_reachability_index, server, command, task,
                     phase, distributed, probed, asked, role, silence>>

(* A leave request: one listing of the group is taken off the RBT node and *)
(* the node of the client off the list, whatever moderator_client says.    *)
Leave(c) ==
  /\ AtEpoll
  /\ churn < MaxChurn
  /\ c \in alive
  /\ registered[c] > 0
  /\ churn' = churn + 1
  /\ registered' = [registered EXCEPT ![c] = @ - 1]
  /\ members' = Without(c)
  /\ moderator_node' = IF moderator_client = c /\ c \in Members THEN "freed"
                       ELSE moderator_node
  /\ UNCHANGED <<status, fsm_state, moderator_client, timer,
                 heartbeat_remaining, group_reachability_index, server,
                 command, task, phase, distributed, probed, asked, role,
                 alive, silence>>

(* The process of a client dies, and nobody is told.                       *)
Die(c) ==
  /\ c \in Mortal \cap alive
  /\ alive' = alive \ {c}
  /\ UNCHANGED <<list, fsm_state, moderator, timer, heartbeat_remaining,
                 group_reachability_index, server, command, task, phase,
                 distributed, probed, asked, role, churn, silence>>

----------------------------------------------------------------------------
Next ==
  \/ AssignCheck
  \/ AssignGoesOn
  \/ SelTimeout
  \/ TimeoutIgnored
  \/ HeartbeatMissed
  \/ ModeratorSilent
  \/ \E c \in Client : RcvEchoRsp(c)
  \/ \E c \in Client : RcvEchoRspFailover(c)
  \/ \E c \in Client : RcvNotifyRsp(c)
  \/ \E c \in Client, t \in Tasks : RcvTaskRsp(c, t)
  \/ \E c \in Client : RcvEchoReq(c)
  \/ \E c \in Client : Join(c)
  \/ \E c \in Client : Leave(c)
  \/ \E c \in Client : Die(c)

Spec == Init /\ [][Next]_vars

(* The kernel delivers an expired timer and the command loop goes on; no   *)
(* datagram need ever arrive.                                              *)
Fairness ==
  /\ WF_vars(AssignGoesOn)
  /\ WF_vars(SelTimeout)
  /\ WF_vars(HeartbeatMissed)
  /\ WF_vars(ModeratorSilent)

LiveSpec == Spec /\ Fairness
----------------------------------------------------------------------------
(* Safety properties.  Crash leaves every variable but server alone, so *)
(* they speak of the server as it is or as it was when it died.            *)

Selecting == {"MODERATOR_SELECTION_PENDING", "TASK_IN_PROGRESS_MOD_SEL_PEND"}

(* A timer created for MOD_SEL_TIMEOUT exists only while probes are out,   *)
(* so that its handler never meets MODERATOR_SELECTED (assert, server.c    *)
(* 845-851), and an idle group has no timer and no moderator: the next     *)
(* task finds it assignable and starts a timer of its own.  There is one   *)
(* exception: assign_task runs with the signals enabled, and when a        *)
(* timer's handler ends a pass in the midst of it and gives the group up,  *)
(* it goes on to start a timer for a group that is idle.  Even that timer  *)
(* never meets MODERATOR_SELECTED.                                         *)
TimerEndsWithItsState ==
  /\ timer_id = "MOD_SEL_TIMEOUT"
       => fsm_state \in Selecting \/ (overlapped /\ fsm_state = "STATE_NONE")
  /\ fsm_state = "STATE_NONE"
       => (timer_id = "0" /\ moderator_client = NULL) \/ overlapped

(* A selection always has a pass left to use up: the uint8_t index is only *)
(* decremented above zero, never wraps to 255, and stops the selection the *)
(* moment it reaches zero (moderator_selection, server.c 1935-1948),       *)
(* unless a timer's handler ends a pass inside assign_task.  Every new     *)
(* task sets it right, whatever it has become before.                      *)
SelectionBudget ==
  fsm_state # "STATE_NONE" /\ ~overlapped /\ cli # "pending"
    => group_reachability_index \in 1 .. Reachable

(* What the state machine of the group says and what has become of the     *)
(* task agree, whatever late, duplicated or foreign datagrams the handlers *)
(* have let in.                                                            *)
PhaseMatchesFsm ==
  task > 0 =>
    /\ phase[task] = "selecting"
         <=> fsm_state \in {"MODERATOR_SELECTION_PENDING",
                            "MODERATOR_SELECTED"}
    /\ phase[task] = "running"
         <=> fsm_state \in {"GROUP_TASK_IN_PROGRESS",
                            "TASK_IN_PROGRESS_MOD_SEL_PEND"}

(* The client whose heartbeats the server counts while the task is in      *)
(* progress is in the group, marked busy, and was told that it is the      *)
(* moderator of this very task.  While the membership is stable, that is:  *)
(* see Join for what reused memory does.                                   *)
MonitoredModeratorIsTold ==
  fsm_state = "GROUP_TASK_IN_PROGRESS" /\ moderator_client # NULL =>
    /\ <<moderator_client, task>> \in role
    /\ moderator_client \in Members
    /\ status[moderator_client] = "CLBUSY"

(* A running task changes its moderator only after MaxMisses + 1 expiries  *)
(* in a row without a sign of life of the one it has: no step takes the    *)
(* group from GROUP_TASK_IN_PROGRESS into a new selection earlier.         *)
DeposedOnlyAfterSilence ==
  [][(/\ fsm_state = "GROUP_TASK_IN_PROGRESS"
      /\ fsm_state' = "TASK_IN_PROGRESS_MOD_SEL_PEND")
     => silence = MaxMisses /\ silence' = MaxMisses + 1]_vars

FreeMembers == {c \in Members : status[c] = "CLFREE"}

(* A group that has not begun its task is found unreachable only when      *)
(* every free member was asked since the task was accepted, although a     *)
(* pass may start anywhere in the list and stops after MaxTried nodes; a   *)
(* pass that a timer ends inside assign_task is the exception.             *)
UnreachableOnlyIfAllAsked ==
  [][\A t \in Tasks :
       phase[t] = "selecting" /\ phase'[t] = "unreachable"
         => FreeMembers \subseteq asked' \/ overlapped']_vars

(* The group goes through its tasks as TaskLifecycle says.                 *)
Lifecycle == INSTANCE TaskLifecycle WITH last <- task
ImplementsLifecycle == Lifecycle!Spec

----------------------------------------------------------------------------
(* Liveness, under LiveSpec.                                               *)

(* Probing ends: while its timer is armed, a selection is answered, gives  *)
(* up after finitely many passes, or has lost its one-shot - unless task   *)
(* responses keep arriving for ever: each one sends the scan back to the   *)
(* head of the list, and it need not reach the end any more.               *)
SelectionEnds ==
  <>[][~ \E c \in Client, t \in Tasks : RcvTaskRsp(c, t)]_vars
    => ((fsm_state \in Selecting /\ timer_armed # "no")
          ~> (fsm_state \notin Selecting \/ timer_armed = "no"
              \/ server = "crashed"))

(* A moderator that dies while it is monitored is replaced, or the task    *)
(* ends, without any datagram.                                             *)
DeadModeratorReplaced ==
  \A c \in Client :
    (/\ fsm_state = "GROUP_TASK_IN_PROGRESS" /\ timer_id = "MOD_RSP_TIMEOUT"
     /\ moderator_client = c /\ c \notin alive)
      ~> (fsm_state # "GROUP_TASK_IN_PROGRESS" \/ moderator_client # c
          \/ c \in alive \/ server = "crashed")

----------------------------------------------------------------------------
(* What comments of the code say, and what it does not do.                 *)

(* "This timer is not expected to hit in any other state" (server.c 934):  *)
(* when the monitoring timer is set to expire and no heartbeat is left to  *)
(* use up, the group is in one of the states its handler knows.            *)
MonitorTimerExpected ==
  server = "running" /\ timer_id = "MOD_RSP_TIMEOUT"
    /\ timer_armed # "no" /\ ~HeartbeatLeft
    => fsm_state \in {"MODERATOR_SELECTED", "GROUP_TASK_IN_PROGRESS"}

(* "moderator node went down in between.  In this case we should           *)
(* re-trigger moderator selection" (server.c 864-867).                     *)
SelectedModeratorReplaced ==
  \A c \in Client :
    (/\ fsm_state = "MODERATOR_SELECTED"
     /\ moderator_client = c /\ c \notin alive)
      ~> (fsm_state # "MODERATOR_SELECTED" \/ c \in alive
          \/ server = "crashed")
============================================================================
