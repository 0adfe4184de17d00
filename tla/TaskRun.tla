------------------------------ MODULE TaskRun ------------------------------
(***************************************************************************)
(* One task while a group works on it: the server with its distribution    *)
(* map, the clients with their worker threads, and the client that acts as *)
(* moderator with its list of pending clients.  The task file is cut into  *)
(* one part for each client that answers in time, and a part is named      *)
(* after the client it was cut for, as its file is.                        *)
(*                                                                         *)
(* Datagrams to the group reach each client in the order in which they     *)
(* were sent (inbox); datagrams between two processes come in any order    *)
(* (net).  A worker thread is cut at its accesses to shared state.         *)
(* Periodic heartbeats are not datagrams here: a timer gives up a peer     *)
(* whose heartbeats have stopped.  Giving up one that is only late, a      *)
(* death, a lost datagram and the like are faults, of the kinds in Mishap  *)
(* and at most MaxFaults of them.                                          *)
(***************************************************************************)
EXTENDS Integers, Sequences, FiniteSets, BagsExt, SequencesExt

CONSTANTS
  Client,     \* the clients of the group
  NULL,       \* no client, the id 0 of a dead one
  MaxBeats,   \* MAX_ALLOWED_KA_MISSES
  TypeFile,   \* TRUE when results are files, FALSE when they are sums
  Mishap,     \* the kinds of faults that may happen (a bound)
  MaxFaults   \* how many faults happen (a bound)

ASSUME ClientAssumption ==
  Client # {} /\ IsFiniteSet(Client) /\ NULL \notin Client
ASSUME BoundsAssumption ==
  /\ MaxBeats \in Nat /\ MaxFaults \in Nat /\ TypeFile \in BOOLEAN
  /\ Mishap \subseteq {"death", "loss", "deletion", "signal", "cleanup", "fetch",
                      "count", "late hello", "late client", "late request",
                      "late moderator"}

VARIABLES
  fsm_state,         \* of the group at the server
  moderator_client,  \* the moderator, as the server sees it
  map,               \* distribution_map
  working,           \* number_of_working_clients
  expected,          \* num_of_responses_expected
  dead_files,        \* dead_clients_file
  result,            \* the parts in the response the server took
  alive,             \* the clients whose process runs
  role,              \* moderator_info of each client
  moderator,         \* where each client sends its results
  pending_task_count,
  timer_id,          \* of each client's group: "none", "armed", or "deleted",
                     \* when its timer is gone and the id not yet zero
  stray,             \* the clients with a timer whose id was overwritten
  executing,         \* those whose state is TASK_EXECUTION_IN_PROGRESS
  disturbed,         \* history: the clients whose count or timer may be wrong
  cached,            \* last_task_result_path of each client
  workers,           \* the worker threads
  inbox,             \* datagrams to the group that a client has yet to take
  net,               \* datagrams between two processes
  clbusy,            \* the clients the server's list marks as moderator
  faults,            \* faults so far
  forced,            \* "yes" once an operator has typed "force cleanup"
  missed             \* the clients to or from which a datagram was lost

server == <<fsm_state, moderator_client, map, working, expected, dead_files,
            result, clbusy>>
heartbeats == <<pending_task_count, timer_id, stray, executing, disturbed>>
clients == <<role, moderator, heartbeats, cached, workers>>
environment == <<alive, faults, forced, missed>>
vars == <<server, clients, inbox, net, environment>>

Part == Client

(* moderator_info: its FSM state, its timer ("expired" is a one-shot that  *)
(* is over and whose id is still set), clnt_notify_alive_list, the pending *)
(* list (head first) and the response that is being collected.             *)
Node == [id : Client \cup {NULL}, beats : 0 .. MaxBeats, refs : Nat]
Role == [fsm : {"notify", "notified", "task"},
         timer : {"none", "oneshot", "expired", "monitor", "single"},
         active : Nat, expected : Nat, heard : Seq(Client),
         pending : Seq(Node), resp : Seq(Part)]
ASSUME NullAssumption == NULL \notin Role

(* A worker thread: computing, then pending_task_count taken down, then    *)
(* the group timer looked after in three steps (timer_delete, timer_id,    *)
(* state), then the result handed over.                                    *)
Worker == [by : Client, part : Part, no : Nat,
           pc : {"working", "counted", "stopping", "deleted", "zeroed",
                 "checked", "reported"}]

TypeOK ==
  /\ fsm_state \in {"selected", "running", "searching", "done", "ended"}
  /\ moderator_client \in Client \cup {NULL} /\ clbusy \subseteq Client
  /\ map \in Seq([who : Client \cup {NULL}, files : Seq(Part)])
  /\ working \in Int /\ expected \in Nat
  /\ dead_files \in Seq(Part) /\ result \in Seq(Part)
  /\ alive \subseteq Client
  /\ pending_task_count \in [Client -> Nat]
  /\ timer_id \in [Client -> {"none", "armed", "deleted"}]
  /\ stray \subseteq Client /\ executing \subseteq Client
  /\ disturbed \subseteq Client
  /\ role \in [Client -> Role \cup {NULL}]
  /\ moderator \in [Client -> Client \cup {NULL}]
  /\ cached \in [Client -> Seq(Part)]
  /\ \A w \in workers : w \in Worker
  /\ faults \in 0 .. MaxFaults /\ forced \in {"no", "yes"}
  /\ missed \subseteq Client

(* ---------------------------- helpers --------------------------------- *)

Sent(type, from, to, data) ==
  [type |-> type, from |-> from, to |-> to, data |-> data]

(* Nobody takes a datagram to a process that has ended.                    *)
Posted(datagrams, d) ==
  IF d.to \in alive THEN BagAdd(datagrams, d) ELSE datagrams

Reaching(datagrams, living) ==
  [d \in {e \in BagToSet(datagrams) : e.to \in living \cup {NULL}} |->
     datagrams[d]]

Multicast(ms) ==
  inbox' = [c \in Client |-> IF c \in alive THEN inbox[c] \o ms ELSE <<>>]

HasMail(c) == inbox[c] # <<>>
Took(c) == [inbox EXCEPT ![c] = Tail(@)]

IsModerator(c) == role[c] # NULL

(* Bug: a thread counts itself among those that still work.                *)
Busy_Counted(c) ==
  pending_task_count[c] # 0 \/ \E w \in workers : w.by = c /\ w.pc = "counted"

Busy(c) == pending_task_count[c] # 0

(* Threads that are between taking the count down and the last write to    *)
(* what they share with the main loop.                                     *)
Leaving(c) ==
  \E w \in workers : w.by = c /\ w.pc \in {"counted", "stopping", "deleted", "zeroed"}

NewRole == [fsm |-> "notify", timer |-> "none", active |-> 0, expected |-> 0,
            heard |-> <<>>, pending |-> <<>>, resp |-> <<>>]
NewNode(c) == [id |-> c, beats |-> MaxBeats, refs |-> 1]

(* get_client_from_moderator_pending_list; 0 when there is none.           *)
Found(pending, c) == SelectInSeq(pending, LAMBDA n : n.id = c)

(* ------------------------ the server's map ---------------------------- *)

WorkingIds(m, n) == [i \in 1 .. n |-> m[i].who]

(* The loop that looks for a client in the map ends behind the last        *)
(* working client when it does not find it.                                *)
Entry(m, n, c) ==
  IF \E i \in 1 .. n : m[i].who = c
  THEN CHOOSE i \in 1 .. n : m[i].who = c
  ELSE n + 1

(* The entry of a dead client is emptied and trades places with the last   *)
(* working one.                                                            *)
mark_dead_clients_in_group(m, n, c) ==
  IF Entry(m, n, c) > n THEN m
  ELSE LET i == Entry(m, n, c)
           z == [m EXCEPT ![i].who = NULL]
           j == CHOOSE k \in i .. n :
                  /\ k = i \/ z[k].who # NULL
                  /\ \A l \in k + 1 .. n : z[l].who = NULL
       IN [z EXCEPT ![i] = z[j], ![j] = z[i]]

(* The first working client that is not the moderator gets all the parts.  *)
Heir(m, n, md) ==
  IF \E i \in 1 .. n : m[i].who # md
  THEN m[CHOOSE i \in 1 .. n :
           m[i].who # md /\ \A k \in 1 .. i - 1 : m[k].who = md].who
  ELSE m[1].who

(* The parts are entered in the map by their own index.                    *)
Recorded(m, parts) ==
  [i \in DOMAIN m |-> IF i \in DOMAIN parts
                      THEN [m[i] EXCEPT !.files = Append(@, parts[i])]
                      ELSE m[i]]

(* A remainder by zero, a count below zero or an index past the map.       *)
RetransmitFails(m, n, md, parts) ==
  \/ n < 0
  \/ n = 0 /\ m[1].who = md
  \/ Len(parts) > Len(m)

TaskRequest(ids, parts, again) ==
  [type |-> "task", ids |-> ids, parts |-> parts, again |-> again]

(* retransmit_task_req_for_client                                          *)
Retransmission(m, n, md, parts) ==
  TaskRequest([i \in DOMAIN parts |-> Heir(m, n, md)], parts, TRUE)

(* --------------------------- moderator -------------------------------- *)

(* send_moderator_notify_response; t is what is left of the timer.         *)
Reports(m, r, t, datagrams) ==
  /\ role' = [role EXCEPT ![m] = [r EXCEPT !.fsm = "notified", !.timer = t,
                                           !.heard = <<>>]]
  /\ net' = BagAdd(datagrams, Sent("report", m, NULL, r.heard))

(* Bugs: the client stays in the list; every result is entered.            *)
Collected_Kept(r, c, p) ==
  [r EXCEPT !.pending[Found(r.pending, c)].refs = @ - 1,
            !.resp = IF TypeFile /\ Contains(@, p) THEN @ ELSE Append(@, p)]

Collected_Twice(r, c, p) ==
  LET i == Found(r.pending, c)
      left == r.pending[i].refs - 1
  IN [r EXCEPT
        !.pending = IF left = 0 THEN RemoveAt(@, i)
                    ELSE [@ EXCEPT ![i].refs = left],
        !.resp = Append(@, p)]

(* The result of c for part p enters the list and the response.  A file    *)
(* that is there already is not entered again; a sum is.                   *)
Collected(r, c, p) ==
  LET i == Found(r.pending, c)
      left == r.pending[i].refs - 1
  IN [r EXCEPT
        !.pending = IF left = 0 THEN RemoveAt(@, i)
                    ELSE [@ EXCEPT ![i].refs = left],
        !.resp = IF TypeFile /\ Contains(@, p) THEN @ ELSE Append(@, p)]

(* Bug: the role ends without an answer.                                   *)
Answers_Nothing(m, r, datagrams) ==
  role' = [role EXCEPT ![m] = NULL] /\ net' = datagrams

(* moderator_send_task_response_to_server, with which the role ends.       *)
Answers(m, r, datagrams) ==
  /\ role' = [role EXCEPT ![m] = NULL]
  /\ net' = BagAdd(datagrams, Sent("answer", m, NULL, r.resp))

(* update_moderator_info_with_task_response                                *)
CollectsFrom(m, c, p, datagrams) ==
  IF ~IsModerator(m) \/ Found(role[m].pending, c) = 0
  THEN net' = datagrams /\ UNCHANGED role
  ELSE LET r == Collected(role[m], c, p)
       IN IF Len(r.resp) = r.expected
          THEN Answers(m, r, datagrams)
          ELSE role' = [role EXCEPT ![m] = r] /\ net' = datagrams

(* moderator_echo_req_task_rsp_pending_state                               *)
Heard(r, c) ==
  IF Found(r.pending, c) = 0 THEN r
  ELSE [r EXCEPT !.pending[Found(r.pending, c)].beats = MaxBeats]

(* One more task of client c to wait for.                                  *)
Awaiting(pending, c) ==
  IF Found(pending, c) = 0 THEN <<NewNode(c)>> \o pending
  ELSE [pending EXCEPT ![Found(pending, c)].refs = @ + 1]

(* What a task request makes of the role of a moderator; included: it is   *)
(* among those that work.                                                  *)
Tracking(r, d, included) ==
  LET count == IF d.again THEN r.active ELSE Len(d.ids)
  IN [r EXCEPT
        !.fsm = "task",
        !.active = count,
        !.expected = IF d.again THEN @ ELSE count,
        !.pending = FoldLeft(Awaiting, @, d.ids),
        !.timer = IF @ # "none" THEN @
                  ELSE IF count = 1 /\ included THEN "single" ELSE "monitor"]

(* ---------------------------- faults ---------------------------------- *)

Fault(kind) ==
  kind \in Mishap /\ faults < MaxFaults /\ faults' = faults + 1

(* A timer that gives up somebody who is only late is a fault, and so is a *)
(* result that overtakes the request it belongs to.                        *)
FaultIf(kind, late) == IF late THEN Fault(kind) ELSE UNCHANGED faults

Beating(c) == timer_id[c] = "armed" \/ c \in stray
Beats(c, m) == c \in alive /\ Beating(c) /\ ~IsModerator(c) /\ moderator[c] = m

(* Something from c that would do instead of a heartbeat is on its way.    *)
Late(c, m) ==
  /\ c \in alive
  /\ \/ Beats(c, m)
     \/ HasMail(c)
     \/ Leaving(c) \/ \E w \in workers : w.by = c /\ w.pc = "checked"
     \/ \E d \in BagToSet(net) : d.type = "result" /\ d.from = c /\ d.to = m

ModeratorLate ==
  /\ moderator_client \in alive
  /\ \/ /\ IsModerator(moderator_client)
        /\ role[moderator_client].timer \in {"monitor", "single"}
     \/ HasMail(moderator_client)
     \/ \E d \in BagToSet(net) :
           d.type \in {"answer", "report"} /\ d.from = moderator_client

(* ---------------------------- clients --------------------------------- *)

Init ==
  /\ fsm_state = "selected"
  /\ moderator_client \in Client
  /\ clbusy = {moderator_client}
  /\ map = <<>> /\ working = 0 /\ expected = 0
  /\ dead_files = <<>> /\ result = <<>>
  /\ alive = Client
  /\ role = [c \in Client |-> NULL]
  /\ moderator = [c \in Client |-> NULL]
  /\ pending_task_count = [c \in Client |-> 0]
  /\ timer_id = [c \in Client |-> "none"] /\ stray = {}
  /\ executing = {} /\ disturbed = {}
  /\ cached = [c \in Client |-> <<>>]
  /\ workers = {}
  /\ inbox = [c \in Client |->
                <<[type |-> "notify", mod |-> moderator_client]>>]
  /\ net = EmptyBag
  /\ faults = 0 /\ forced = "no" /\ missed = {}

Takes(c, type) ==
  /\ c \in alive /\ HasMail(c) /\ Head(inbox[c]).type = type
  /\ inbox' = Took(c)

(* handle_mod_notification                                                 *)
RcvNotify(c) ==
  LET m == Head(inbox[c]).mod
      n == Cardinality(Client)
      r == [NewRole EXCEPT !.active = n, !.expected = n, !.heard = <<c>>]
  IN /\ Takes(c, "notify")
     /\ moderator' = [moderator EXCEPT ![c] = m]
     /\ \/ /\ c # m /\ ~Busy(c)
           /\ net' = Posted(net, Sent("hello", c, m, <<>>))
           /\ UNCHANGED role
        \/ /\ c = m \/ Busy(c)
           /\ n = 1
           /\ Reports(c, r, "none", net)
        \/ /\ c = m \/ Busy(c)
           /\ n # 1
           /\ role' = [role EXCEPT ![c] = [r EXCEPT !.timer = "oneshot"]]
           /\ UNCHANGED net
     /\ executing' = executing \ {c}
     /\ UNCHANGED <<server, pending_task_count, timer_id, stray, disturbed,
                    cached, workers, environment>>

(* handle_echo_req of the answer to a notification.  A moderator enables   *)
(* the signals in the middle of it; a handler that runs there runs before  *)
(* the echo request is taken, as far as the group can tell.                *)
RcvHello(m) ==
  /\ m \in alive
  /\ \E d \in BagToSet(net) :
       /\ d.type = "hello" /\ d.to = m
       /\ LET rest == BagRemove(net, d)
              r == [role[m] EXCEPT !.heard = Append(@, d.from)]
          IN IF ~IsModerator(m) \/ role[m].fsm = "notified"
             THEN net' = rest /\ UNCHANGED role
             ELSE IF role[m].fsm = "task"
             THEN net' = rest /\ role' = [role EXCEPT ![m] = Heard(@, d.from)]
             ELSE IF Len(r.heard) = r.active
                  THEN Reports(m, r, "none", rest)
                  ELSE role' = [role EXCEPT ![m] = r] /\ net' = rest
  /\ UNCHANGED <<server, moderator, heartbeats, cached, workers, inbox,
                 environment>>

(* MODERATOR_TIMEOUT of the one-shot; the id of the timer stays.           *)
NotifyTimeout(m) ==
  /\ m \in alive /\ IsModerator(m) /\ role[m].timer = "oneshot"
  /\ Reports(m, role[m], "expired", net)
  /\ FaultIf("late hello",
             \/ \E d \in BagToSet(net) : d.type = "hello" /\ d.to = m
             \/ \E c \in alive : HasMail(c))
  /\ UNCHANGED <<server, moderator, heartbeats, cached, workers, inbox, alive,
                 forced, missed>>

(* The one-shot expires while a handler ignores the signals.               *)
NotifyTimeoutIgnored(m) ==
  /\ m \in alive /\ IsModerator(m) /\ role[m].timer = "oneshot"
  /\ role' = [role EXCEPT ![m].timer = "expired"]
  /\ Fault("signal")
  /\ UNCHANGED <<server, moderator, heartbeats, cached, workers, inbox, net, alive,
                 forced, missed>>

(* A number for one more thread of c on part p.                            *)
Fresh(c, p) ==
  CHOOSE k \in 0 .. Cardinality(workers) :
    /\ \A w \in workers : w.by = c /\ w.part = p => w.no # k
    /\ \A i \in 0 .. k - 1 :
         \E w \in workers : w.by = c /\ w.part = p /\ w.no = i

(* The threads that client c is to start; a part that is named twice is    *)
(* one thread.                                                             *)
Hired(c, d) ==
  {[by |-> c, part |-> d.parts[i], no |-> Fresh(c, d.parts[i]), pc |-> "working"] :
     i \in {j \in DOMAIN d.ids : d.ids[j] = c}}

(* The group timer is started before the count goes up from zero.          *)
Starts(c, d) == Hired(c, d) # {} /\ ~IsModerator(c) /\ ~Busy(c)

(* All threads of the request are started and counted.                     *)
Counts(c, hired) ==
  /\ workers' = workers \cup hired
  /\ pending_task_count' = [pending_task_count EXCEPT ![c] = @ + Cardinality(hired)]
  /\ UNCHANGED disturbed

(* The main loop counts up without the mutex: of its update and of that of *)
(* a thread which counts itself down meanwhile one is lost.                *)
LosesCount(c, w, hired) ==
  /\ hired # {} /\ Busy(c) /\ w.by = c /\ w.pc = "working"
  /\ workers' = (workers \ {w}) \cup {[w EXCEPT !.pc = "counted"]} \cup hired
  /\ \E slip \in {0, 2} :
       pending_task_count' =
         [pending_task_count EXCEPT ![c] = @ + Cardinality(hired) - slip]
  /\ disturbed' = disturbed \cup {c}

(* handle_perform_task_req                                                 *)
RcvTask(c) ==
  LET d == Head(inbox[c])
      hired == Hired(c, d)
  IN /\ Takes(c, "task") /\ (Starts(c, d) => timer_id[c] # "deleted")
     /\ cached' = IF d.again THEN cached ELSE [cached EXCEPT ![c] = <<>>]
     /\ role' = IF IsModerator(c)
                THEN [role EXCEPT ![c] = Tracking(@, d, hired # {})] ELSE role
     /\ timer_id' = IF Starts(c, d) THEN [timer_id EXCEPT ![c] = "armed"]
                    ELSE timer_id
     /\ executing' = IF hired # {} THEN executing \cup {c}
                     ELSE IF ~d.again \/ ~Busy(c) THEN executing \ {c}
                     ELSE executing
     /\ \/ Counts(c, hired) /\ UNCHANGED faults
        \/ (\E w \in workers : LosesCount(c, w, hired)) /\ Fault("count")
     /\ UNCHANGED <<server, moderator, stray, net, alive, forced, missed>>

(* All that c has done is sent to a new moderator.                         *)
Resent(c, m) ==
  LET Resend(sent, p) == Posted(sent, Sent("result", c, m, p))
  IN FoldLeft(Resend, net, cached[c])

(* handle_moderator_update.  A client that is moderator already only drops *)
(* its role; the others send what they have done to the new moderator,     *)
(* which stops its group timer if its state says that it is at work.       *)
RcvUpdate(c) ==
  LET d == Head(inbox[c])
      r == [NewRole EXCEPT
              !.fsm = "task", !.active = Len(d.ids), !.expected = d.expected,
              !.pending = Reverse([i \in DOMAIN d.ids |-> NewNode(d.ids[i])])]
  IN /\ Takes(c, "update")
     /\ IF IsModerator(c)
        THEN /\ role' = [role EXCEPT ![c] = NULL]
             /\ UNCHANGED <<moderator, timer_id, disturbed, net>>
        ELSE /\ moderator' = [moderator EXCEPT ![c] = d.mod]
             /\ net' = Resent(c, d.mod)
             /\ role' = IF c = d.mod THEN [role EXCEPT ![c] = r] ELSE role
             /\ timer_id' = IF c = d.mod /\ c \in executing
                            THEN [timer_id EXCEPT ![c] = "none"] ELSE timer_id
             /\ disturbed' = IF c = d.mod /\ timer_id'[c] = "armed"
                             THEN disturbed \cup {c} ELSE disturbed
     /\ UNCHANGED <<server, pending_task_count, stray, executing, cached,
                    workers, environment>>

(* CLIENT_TIMEOUT of a working client, and the echo request it sends.      *)
Heartbeat(c, m) ==
  /\ Beats(c, m)
  /\ m \in alive /\ IsModerator(m) /\ role[m].fsm = "task"
  /\ role' = [role EXCEPT ![m] = Heard(@, c)]
  /\ UNCHANGED <<server, moderator, heartbeats, cached, workers, inbox, net,
                 environment>>

(* MODERATOR_TIMEOUT while a task runs.  The walk over the pending list    *)
(* ends with the first client that is given up.                            *)
Monitor(m) ==
  /\ m \in alive /\ IsModerator(m)
  /\ role[m].timer = "monitor" /\ role[m].fsm = "task"
  /\ LET pending == role[m].pending
         i == SelectInSeq(pending, LAMBDA n : n.id # m /\ n.beats = 0)
         Missed(n) == IF n.id = m THEN n ELSE [n EXCEPT !.beats = @ - 1]
     IN \/ /\ i = 0
           /\ role' = [role EXCEPT ![m].pending =
                         [k \in DOMAIN pending |-> Missed(pending[k])]]
           /\ UNCHANGED <<net, faults>>
        \/ /\ i # 0
           /\ role' = [role EXCEPT ![m].pending = RemoveAt(
                         [k \in DOMAIN pending |->
                            IF k < i THEN Missed(pending[k])
                            ELSE pending[k]], i)]
           /\ net' = BagAdd(net, Sent("dead", m, NULL, pending[i].id))
           /\ FaultIf("late client", Late(pending[i].id, m))
  /\ UNCHANGED <<server, moderator, heartbeats, cached, workers, inbox, alive,
                 forced, missed>>

(* handle_task_response at a client                                        *)
RcvResult(m) ==
  /\ m \in alive
  /\ \E d \in BagToSet(net) :
       /\ d.type = "result" /\ d.to = m
       /\ CollectsFrom(m, d.from, d.data, BagRemove(net, d))
  /\ FaultIf("late request", HasMail(m) /\ Head(inbox[m]).type = "task")
  /\ UNCHANGED <<server, moderator, heartbeats, cached, workers, inbox, alive,
                 forced, missed>>

(* The command "force cleanup"                                             *)
ForceCleanup(m) ==
  /\ m \in alive /\ IsModerator(m) /\ role[m].resp # <<>>
  /\ Answers(m, role[m], net)
  /\ Fault("cleanup") /\ forced' = "yes"
  /\ UNCHANGED <<server, moderator, heartbeats, cached, workers, inbox, alive,
                 missed>>

(* ------------------------- worker threads ----------------------------- *)

(* What c leaves behind when its process ends.                             *)
Ended(c) ==
  /\ alive' = alive \ {c}
  /\ role' = [role EXCEPT ![c] = NULL]
  /\ pending_task_count' = [pending_task_count EXCEPT ![c] = 0]
  /\ timer_id' = [timer_id EXCEPT ![c] = "none"]
  /\ stray' = stray \ {c} /\ executing' = executing \ {c}
  /\ disturbed' = disturbed \ {c}
  /\ cached' = [cached EXCEPT ![c] = <<>>]
  /\ workers' = {w \in workers : w.by # c}
  /\ inbox' = [inbox EXCEPT ![c] = <<>>]
  /\ net' = Reaching(net, alive \ {c})
  /\ UNCHANGED <<server, moderator, forced, missed>>

Moves(w, pc) == workers' = (workers \ {w}) \cup {[w EXCEPT !.pc = pc]}

(* execute_task has a result and takes pending_task_count down; below zero *)
(* an assertion ends the process.                                          *)
WorkerCounts(w) ==
  /\ w.pc = "working"
  /\ \/ /\ Busy(w.by) /\ Moves(w, "counted")
        /\ pending_task_count' = [pending_task_count EXCEPT ![w.by] = @ - 1]
        /\ UNCHANGED <<server, role, moderator, timer_id, stray, executing,
                       disturbed, cached, inbox, net, environment>>
     \/ ~Busy(w.by) /\ Ended(w.by) /\ UNCHANGED faults

(* The last task of a client that is not the moderator is to stop the      *)
(* group timer.                                                            *)
WorkerChecks(w) ==
  /\ w.pc = "counted"
  /\ Moves(w, IF IsModerator(w.by) \/ Busy(w.by) THEN "checked"
              ELSE "stopping")
  /\ UNCHANGED <<server, role, moderator, heartbeats, cached, inbox, net,
                 environment>>

(* timer_delete, timer_id = 0 and state = TASK_RES_SENT: the main loop may *)
(* have started the timer again before the first or after another thread's *)
(* second.                                                                 *)
WorkerDeletes(w) ==
  /\ w.pc = "stopping" /\ Moves(w, "deleted")
  /\ timer_id' = [timer_id EXCEPT ![w.by] = IF @ = "armed" THEN "deleted" ELSE @]
  /\ UNCHANGED <<stray, executing, disturbed>>

WorkerForgets(w) ==
  /\ w.pc = "deleted" /\ Moves(w, "zeroed")
  /\ timer_id' = [timer_id EXCEPT ![w.by] = "none"]
  /\ LET lost == IF timer_id[w.by] = "armed" THEN {w.by} ELSE {}
     IN stray' = stray \cup lost /\ disturbed' = disturbed \cup lost
  /\ UNCHANGED executing

WorkerLeaves(w) ==
  /\ w.pc = "zeroed" /\ Moves(w, "checked")
  /\ executing' = executing \ {w.by}
  /\ UNCHANGED <<timer_id, stray, disturbed>>

WorkerStopsTimer(w) ==
  /\ WorkerDeletes(w) \/ WorkerForgets(w) \/ WorkerLeaves(w)
  /\ UNCHANGED <<server, role, moderator, pending_task_count, cached, inbox,
                 net, environment>>

(* Deleting a timer that is not there, by a second thread that found the   *)
(* count at zero or by a new moderator, may end the process.               *)
DeletionFails(c) ==
  /\ c \in alive /\ timer_id[c] # "armed"
  /\ \/ \E w \in workers : w.by = c /\ w.pc = "stopping"
     \/ /\ HasMail(c) /\ Head(inbox[c]).type = "update" /\ Head(inbox[c]).mod = c
        /\ ~IsModerator(c) /\ c \in executing
  /\ Ended(c) /\ Fault("deletion")

(* start_recurring_timer sets a timer whose id is deleted and not yet      *)
(* zero, and ends the process.                                             *)
StartFails(c) ==
  /\ c \in alive /\ HasMail(c) /\ Head(inbox[c]).type = "task"
  /\ Starts(c, Head(inbox[c])) /\ timer_id[c] = "deleted"
  /\ Ended(c) /\ UNCHANGED faults

(* send_task_results_to_moderator                                          *)
WorkerReports(w) ==
  /\ w.pc = "checked"
  /\ Moves(w, "reported")
  /\ IF IsModerator(w.by)
     THEN CollectsFrom(w.by, w.by, w.part, net)
     ELSE /\ net' = Posted(net,
                       Sent("result", w.by, moderator[w.by], w.part))
          /\ UNCHANGED role
  /\ UNCHANGED <<server, moderator, heartbeats, cached, inbox, environment>>

WorkerCaches(w) ==
  /\ w.pc = "reported"
  /\ cached' = [cached EXCEPT ![w.by] = Append(@, w.part)]
  /\ workers' = workers \ {w}
  /\ UNCHANGED <<server, role, moderator, heartbeats, inbox, net, environment>>

(* The file of the task cannot be fetched: the thread ends, and the client *)
(* stays busy.                                                             *)
FetchFails(w) ==
  /\ w.pc = "working"
  /\ workers' = workers \ {w} /\ disturbed' = disturbed \cup {w.by}
  /\ Fault("fetch")
  /\ UNCHANGED <<server, role, moderator, pending_task_count, timer_id, stray,
                 executing, cached, inbox, net, alive, forced, missed>>

(* ------------------------------ server -------------------------------- *)

(* The server follows an index that is not one, or divides by zero.        *)
ServerEnds ==
  /\ fsm_state' = "ended"
  /\ UNCHANGED <<moderator_client, map, working, expected, dead_files, result,
                 clbusy, clients, inbox>>

ToServer(d, type) == d \in BagToSet(net) /\ d.type = type

(* mcast_start_task_distribution: one part for each client in the report.  *)
RcvReport ==
  /\ \E d \in BagToSet(net) :
       /\ ToServer(d, "report")
       /\ net' = BagRemove(net, d)
       /\ IF fsm_state = "selected"
          THEN /\ fsm_state' = "running"
               /\ map' = [i \in DOMAIN d.data |->
                            [who |-> d.data[i], files |-> <<d.data[i]>>]]
               /\ working' = Len(d.data)
               /\ expected' = Len(d.data)
               /\ Multicast(<<TaskRequest(d.data, d.data, FALSE)>>)
          ELSE UNCHANGED <<fsm_state, map, working, expected, inbox>>
  /\ UNCHANGED <<moderator_client, dead_files, result, clbusy, clients,
                 environment>>

(* server_echo_req_task_in_progress_state with the report of a death.      *)
RcvDead ==
  /\ \E d \in BagToSet(net) :
       /\ ToServer(d, "dead")
       /\ net' = BagRemove(net, d)
       /\ LET i == Entry(map, working, d.data)
              m == mark_dead_clients_in_group(map, working, d.data)
          IN \/ /\ fsm_state # "running" \/ d.from # moderator_client
                /\ UNCHANGED <<server, clients, inbox>>
             \/ /\ fsm_state = "running" /\ d.from = moderator_client
                /\ i \in DOMAIN map
                /\ ~RetransmitFails(m, working - 1, moderator_client,
                                    map[i].files)
                /\ map' = Recorded(m, map[i].files)
                /\ working' = working - 1
                /\ Multicast(<<Retransmission(m, working - 1,
                                              moderator_client,
                                              map[i].files)>>)
                /\ UNCHANGED <<fsm_state, moderator_client, expected,
                               dead_files, result, clbusy, clients>>
             \/ /\ fsm_state = "running" /\ d.from = moderator_client
                /\ \/ i \notin DOMAIN map
                   \/ RetransmitFails(m, working - 1, moderator_client,
                                      map[i].files)
                /\ ServerEnds
  /\ UNCHANGED environment

(* handle_moderator_task_response and mcast_handle_task_response           *)
RcvAnswer ==
  /\ \E d \in BagToSet(net) :
       /\ ToServer(d, "answer")
       /\ net' = BagRemove(net, d)
       /\ moderator_client' = NULL
       /\ clbusy' = clbusy \ (IF moderator_client = NULL THEN {d.from}
                              ELSE {moderator_client})
       /\ IF fsm_state = "running"
          THEN fsm_state' = "done" /\ result' = d.data /\ working' = 0
          ELSE UNCHANGED <<fsm_state, result, working>>
  /\ UNCHANGED <<map, expected, dead_files, clients, inbox, environment>>

(* MOD_RSP_TIMEOUT after too many missed heartbeats of the moderator.      *)
ModeratorSilent ==
  /\ fsm_state = "running"
  /\ FaultIf("late moderator", ModeratorLate)
  /\ LET i == Entry(map, working, moderator_client)
     IN \/ /\ i \in DOMAIN map
           /\ fsm_state' = "searching"
           /\ dead_files' = map[i].files
           /\ map' = mark_dead_clients_in_group(map, working,
                                                moderator_client)
           /\ working' = working - Len(map[i].files)
           /\ UNCHANGED <<moderator_client, expected, result, clbusy, clients,
                          inbox>>
        \/ /\ i \notin DOMAIN map
           /\ ServerEnds
  /\ UNCHANGED <<net, alive, forced, missed>>

(* Bug: only the new task requests are sent.                               *)
Takeover_Quiet(c) == <<Retransmission(map, working, c, dead_files)>>

(* What the group is told of its new moderator.                            *)
Takeover(c) ==
  <<[type |-> "update", mod |-> c, ids |-> WorkingIds(map, working),
     expected |-> expected],
    Retransmission(map, working, c, dead_files)>>

(* A free client answers the probe of moderator_selection:                 *)
(* send_new_moderator_info, then retransmit_task_req_for_client.           *)
NewModerator(c) ==
  /\ fsm_state = "searching"
  /\ c \in alive \ clbusy
  /\ \/ /\ ~RetransmitFails(map, working, c, dead_files)
        /\ fsm_state' = "running"
        /\ moderator_client' = c
        /\ clbusy' = clbusy \cup {c}
        /\ map' = Recorded(map, dead_files)
        /\ dead_files' = <<>>
        /\ Multicast(Takeover(c))
        /\ UNCHANGED <<working, expected, result, clients>>
     \/ /\ RetransmitFails(map, working, c, dead_files)
        /\ ServerEnds
  /\ UNCHANGED <<net, environment>>

(* ---------------------------- environment ----------------------------- *)

Die(c) == c \in alive /\ Fault("death") /\ Ended(c)

LoseMulticast(c) ==
  /\ HasMail(c)
  /\ inbox' = Took(c)
  /\ Fault("loss") /\ missed' = missed \cup {c}
  /\ UNCHANGED <<server, clients, net, alive, forced>>

LoseDatagram(d) ==
  /\ net' = BagRemove(net, d)
  /\ Fault("loss") /\ missed' = missed \cup {d.from}
  /\ UNCHANGED <<server, clients, inbox, alive, forced>>

(* The story ends with the task.                                           *)
Next ==
  /\ fsm_state \notin {"done", "ended"}
  /\ \/ \E c \in Client :
          \/ RcvNotify(c) \/ RcvHello(c) \/ RcvTask(c) \/ RcvUpdate(c)
          \/ RcvResult(c) \/ NotifyTimeout(c) \/ NotifyTimeoutIgnored(c)
          \/ Monitor(c) \/ ForceCleanup(c) \/ NewModerator(c)
          \/ DeletionFails(c) \/ StartFails(c)
          \/ Die(c) \/ LoseMulticast(c)
          \/ \E m \in Client : Heartbeat(c, m)
     \/ \E w \in workers :
          \/ WorkerCounts(w) \/ WorkerChecks(w) \/ WorkerStopsTimer(w)
          \/ WorkerReports(w) \/ WorkerCaches(w) \/ FetchFails(w)
     \/ \E d \in BagToSet(net) : LoseDatagram(d)
     \/ RcvReport \/ RcvDead \/ RcvAnswer \/ ModeratorSilent

Spec == Init /\ [][Next]_vars

(* --------------------------- properties ------------------------------- *)

(* The server takes the answer of a group as the result of the task        *)
(* (mcast_handle_task_response).  Unless an operator has cut it short, it  *)
(* holds the result of every part once, whoever died, was given up or was  *)
(* replaced on the way.                                                    *)
ResultComplete ==
  fsm_state = "done" /\ forced = "no" =>
    /\ Len(result) = expected
    /\ IsInjective(result)

(* A client sends heartbeats only while a thread of it still has to take   *)
(* pending_task_count down or to stop the timer (execute_task): else the   *)
(* moderator would wait for ever for a client that has nothing to do.      *)
(* Four things in the code break this, for the client they happen to: a    *)
(* thread that cannot fetch its file ends without counting itself down; an *)
(* update of the count is lost; a thread writes zero over the id of a      *)
(* timer started meanwhile; and a client is made moderator whose timer     *)
(* runs although its state, written late by a thread or by a request for   *)
(* others, says that it is not at work.                                    *)
HeartbeatsEnd ==
  \A c \in alive \ disturbed :
    Beating(c) =>
      \E w \in workers : w.by = c /\ w.pc \in {"working", "counted", "stopping"}

IsTold(c, types) == \E i \in DOMAIN inbox[c] : inbox[c][i].type \in types

(* While a task runs, a client that still collects results although the    *)
(* server follows another moderator is going to be told                    *)
(* (send_new_moderator_info): two moderators do not go on side by side.    *)
DeposedIsTold ==
  fsm_state = "running" =>
    \A c \in alive \ missed :
      IsModerator(c) /\ c # moderator_client => IsTold(c, {"update"})

(* While a task runs, the client the server follows acts as moderator, or  *)
(* is going to be told, or has answered: the server does not wait for      *)
(* somebody who does not know that it collects the results.                *)
ModeratorActs ==
  fsm_state = "running" /\ moderator_client \in alive \ missed =>
    \/ IsModerator(moderator_client)
    \/ IsTold(moderator_client, {"notify", "update"})
    \/ \E d \in BagToSet(net) :
         d.type = "answer" /\ d.from = moderator_client
=============================================================================
