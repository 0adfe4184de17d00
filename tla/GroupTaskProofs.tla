--------------------------- MODULE GroupTaskProofs ---------------------------
(***************************************************************************)
(* Proofs about GroupTask for every set of clients, every number of tasks  *)
(* and every value of the limits: its type invariant, the safety           *)
(* invariants the runs check, and that it implements TaskLifecycle.        *)
(***************************************************************************)
EXTENDS GroupTask, SequenceTheorems, TLAPS

(* A moderator pointer that was freed was one.                             *)
DanglingIsSomebody == Dangling => moderator_client # NULL

(* The CLI has a task in hand, and a group that never had one is idle.     *)
TaskInHand ==
  /\ cli = "assigning" => task < NumTasks
  /\ overlapped \/ Accepted => task > 0
  /\ task = 0 => fsm_state = "STATE_NONE"

(* While the command is under way the group waits for a moderator, unless  *)
(* a timer has given it up; and as long as no timer has ended a pass, the  *)
(* index is what the command has set.                                      *)
CommandUnderWay ==
  /\ Accepted => \/ fsm_state = "MODERATOR_SELECTION_PENDING"
                 \/ fsm_state = "STATE_NONE" /\ overlapped
  /\ ~overlapped =>
       /\ cli \in {"reset", "looked", "scanned", "stored", "read"}
            => group_reachability_index = Reachable
       /\ cli = "read" => passes = Reachable
  /\ cli = "giving up" => overlapped

(* An idle group that is still being searched has given its task up.       *)
GivenUpStays ==
  fsm_state = "STATE_NONE" /\ (timer_id # "0" \/ Accepted)
    => phase[task] = "unreachable"

(* No timer runs while the server waits for the moderator's report.        *)
NoTimerWhenSelected == fsm_state = "MODERATOR_SELECTED" => timer_id = "0"

(* The counter and the silence it measures add up from the moment a        *)
(* moderator is chosen until it is given up.                               *)
HeartbeatsCounted ==
  \/ fsm_state = "MODERATOR_SELECTED"
  \/ fsm_state = "GROUP_TASK_IN_PROGRESS" /\ timer_id = "MOD_RSP_TIMEOUT"
  => heartbeat_remaining + silence = MaxMisses

Structure ==
  /\ DanglingIsSomebody
  /\ TaskInHand
  /\ NoTimerWhenSelected
  /\ TimerEndsWithItsState
  /\ SelectionBudget
  /\ PhaseMatchesFsm
  /\ HeartbeatsCounted
  /\ CommandUnderWay
  /\ GivenUpStays

Inv == TypeOK /\ Structure

Phases == {"new", "selecting", "running", "done", "unreachable", "overtaken"}
TimerIds == {"0", "MOD_SEL_TIMEOUT", "MOD_RSP_TIMEOUT"}

----------------------------------------------------------------------------
(* The members of the list are clients, and so is what is left of it when  *)
(* one of them is removed.                                                 *)
LEMMA MembersAreClients ==
  ASSUME members \in Seq(Client)
  PROVE  /\ DOMAIN members = 1 .. Len(members)
         /\ Len(members) \in Nat
         /\ \A i \in DOMAIN members : members[i] \in Client
         /\ Members \subseteq Client
<1>1. /\ DOMAIN members = 1 .. Len(members)
      /\ Len(members) \in Nat
      /\ members \in [1 .. Len(members) -> Client]
  BY LenProperties
<1>2. \A i \in DOMAIN members : members[i] \in Client
  BY <1>1
<1> QED
  BY <1>1, <1>2 DEF Members

(* The list without a member is a list of clients.                         *)
LEMMA WithoutIsAList ==
  ASSUME members \in Seq(Client), NEW c \in Client
  PROVE  Without(c) \in Seq(Client)
<1>1. CASE c \notin Members
  BY <1>1 DEF Without
<1>2. CASE c \in Members
  <2> DEFINE i == CHOOSE j \in DOMAIN members : members[j] = c
  <2>1. i \in DOMAIN members
    BY <1>2 DEF Members
  <2>2. /\ i \in 1 .. Len(members)
        /\ Len(members) \in Nat
        /\ \A j \in 1 .. Len(members) : members[j] \in Client
    BY <2>1, MembersAreClients
  <2> HIDE DEF i
  <2>3. SubSeq(members, 1, i - 1) \in Seq(Client)
    <3>1. \A j \in 1 .. i - 1 : members[j] \in Client
      BY <2>2
    <3> QED
      BY <2>2, <3>1, SubSeqProperties
  <2>4. SubSeq(members, i + 1, Len(members)) \in Seq(Client)
    <3>1. \A j \in i + 1 .. Len(members) : members[j] \in Client
      BY <2>2
    <3> QED
      BY <2>2, <3>1, SubSeqProperties
  <2>5. SubSeq(members, 1, i - 1) \o SubSeq(members, i + 1, Len(members))
          \in Seq(Client)
    BY <2>3, <2>4, ConcatProperties
  <2> QED
    BY <1>2, <2>5 DEF Without, i
<1> QED
  BY <1>1, <1>2

(* What a scan finds: clients to probe, and a client or nobody to go on    *)
(* with.                                                                   *)
LEMMA ScanFindsClients ==
  ASSUME members \in Seq(Client), moderator_client \in Client \cup {NULL},
         DanglingIsSomebody, moderator_node \in {"allocated", "freed"}
  PROVE  /\ AfterScan \in Client \cup {NULL}
         /\ \A P \in Probes : P \subseteq Client
<1>1. AfterScan \in Client \cup {NULL}
  BY MembersAreClients DEF AfterScan, Dangling
<1>2. Scanned \subseteq Client
  BY MembersAreClients DEF Scanned, DanglingIsSomebody
<1>3. Dangling => moderator_client \in Client
  BY DEF DanglingIsSomebody
<1>4. \A P \in Probes : P \subseteq Client
  BY <1>2, <1>3 DEF Probes
<1> QED
  BY <1>1, <1>4

(* The passes left are a uint8_t again.                                    *)
LEMMA PassesLeftType ==
  ASSUME NEW reach \in 0 .. Max8
  PROVE  /\ PassesLeft(reach) \in 0 .. Max8
         /\ Dec8(reach) \in 0 .. Max8
  BY LimitsAssumption DEF PassesLeft, Dec8

(* A selection that goes on has passes left.                               *)
LEMMA PassesLeftBudget ==
  ASSUME NEW reach \in 1 .. Reachable, ~GivesUp(reach)
  PROVE  PassesLeft(reach) \in 1 .. Reachable
  BY LimitsAssumption DEF PassesLeft, GivesUp, Dec8

(* What moderator_selection leaves behind is well typed.                   *)
WellSelected ==
  /\ fsm_state' \in States
  /\ moderator_client' \in Client \cup {NULL}
  /\ moderator_node' = "allocated"
  /\ timer_id' \in TimerIds
  /\ timer_armed' \in {"no", "once", "repeat"}
  /\ group_reachability_index' \in 0 .. Max8
  /\ phase' \in [Tasks -> Phases]
  /\ probed' \in SUBSET Client
  /\ asked' \in SUBSET Client
  /\ overlapped' \in BOOLEAN
  /\ UNCHANGED <<list, server, cli, locals, task, distributed, role,
                 environment>>

(* moderator_selection keeps the types.                                    *)
LEMMA SelectionType ==
  ASSUME TypeOK, DanglingIsSomebody,
         NEW st \in States, NEW id \in TimerIds, NEW already \in SUBSET Client,
         moderator_selection(st, id, already)
  PROVE  WellSelected
<1>1. /\ AfterScan \in Client \cup {NULL}
      /\ \A P \in Probes : P \subseteq Client
  BY ScanFindsClients DEF TypeOK
<1>2. group_reachability_index' \in 0 .. Max8
  BY PassesLeftType DEF moderator_selection, TypeOK
<1>3. probed' \in SUBSET Client /\ asked' \in SUBSET Client
  BY <1>1 DEF moderator_selection, TypeOK
<1>4. phase' \in [Tasks -> Phases]
  BY DEF moderator_selection, TypeOK, Phases
<1>5. overlapped' \in BOOLEAN
  BY DEF moderator_selection, TypeOK
<1>6. UNCHANGED <<list, server, cli, locals, task, distributed, role,
                  environment>>
  BY DEF moderator_selection
<1>7. CASE GivesUp(group_reachability_index)
  BY <1>2, <1>3, <1>4, <1>5, <1>6, <1>7 DEF moderator_selection,
     set_group_available, DeleteTimer, PointModerator, States, TimerIds,
     WellSelected
<1>8. CASE ~GivesUp(group_reachability_index)
  BY <1>1, <1>2, <1>3, <1>4, <1>5, <1>6, <1>8 DEF moderator_selection,
     StartTimer, PointModerator, TimerIds, WellSelected
<1> QED
  BY <1>7, <1>8

----------------------------------------------------------------------------
(* The type invariant.                                                     *)

(* Every initial state is well typed.                                      *)
LEMMA InitType == Init => TypeOK
<1> SUFFICES ASSUME Init PROVE TypeOK
  OBVIOUS
<1>1. members \in Seq(Client)
  <2>1. PICK n \in 0 .. Cardinality(Client) : members \in [1 .. n -> Client]
    BY DEF Init
  <2>2. n \in Nat
    BY <2>1
  <2> QED
    BY <2>1, <2>2, SeqDef
<1>2. heartbeat_remaining \in 0 .. Max8 /\ 0 \in 0 .. Max8
  BY EnvironmentAssumption, LimitsAssumption DEF Init
<1>3. /\ Reachable \in 0 .. Max8
      /\ 0 \in 0 .. NumTasks
      /\ 0 \in 0 .. MaxChurn
  BY LimitsAssumption, NumTasksAssumption
<1>4. registered \in [Client -> Nat]
  BY DEF Init
<1> QED
  BY <1>1, <1>2, <1>3, <1>4 DEF Init, TypeOK, States, Tasks, CommandSteps

(* The end of the server changes no type.                                  *)
LEMMA CrashType == TypeOK /\ Crash => TypeOK'
  BY DEF TypeOK, Crash, list, moderator, timer, environment, command, locals,
     Tasks, States

(* No step of the CLI command changes a type.                              *)
LEMMA CommandType ==
  ASSUME TypeOK, DanglingIsSomebody, TaskInHand, AssignCheck \/ AssignGoesOn
  PROVE  TypeOK'
<1> USE DEF TypeOK, list, moderator, timer, locals, environment, CommandSteps
<1>1. CASE AssignCheck
  BY <1>1 DEF AssignCheck, Tasks, States
<1>2. CASE AssignPending
  <2>1. task' \in 0 .. NumTasks
    BY <1>2, NumTasksAssumption DEF AssignPending, TaskInHand
  <2>2. phase' \in [Tasks -> Phases]
    BY <1>2 DEF AssignPending, PhaseAfterAccept, Phases
  <2> QED
    BY <1>2, <2>1, <2>2 DEF AssignPending, Tasks, States, Phases
<1>3. CASE AssignReset
  BY <1>3, LimitsAssumption DEF AssignReset, Tasks, States
<1>4. CASE AssignLook
  BY <1>4 DEF AssignLook, Tasks, States
<1>5. CASE AssignScan
  <2>1. /\ client_node' \in Client \cup {NULL}
        /\ probed' \in SUBSET Client /\ asked' \in SUBSET Client
    BY <1>5, ScanFindsClients DEF AssignScan
  <2>2. /\ cli' = "scanned"
        /\ UNCHANGED <<list, fsm_state, moderator, timer, heartbeat_remaining,
                       group_reachability_index, server, passes, task, phase,
                       distributed, role, environment, silence, overlapped>>
    BY <1>5 DEF AssignScan
  <2> QED
    BY <2>1, <2>2 DEF Tasks, States
<1>6. CASE AssignStore
  BY <1>6 DEF AssignStore, PointModerator, Tasks, States
<1>7. CASE AssignRead
  BY <1>7 DEF AssignRead, Tasks, States
<1>8. CASE AssignWrite
  <2>1. group_reachability_index' \in 0 .. Max8 /\ passes' \in 0 .. Max8
    BY <1>8, PassesLeftType, LimitsAssumption DEF AssignWrite
  <2> QED
    BY <1>8, <2>1 DEF AssignWrite, Tasks, States
<1>9. CASE AssignTest
  BY <1>9 DEF AssignTest, Tasks, States
<1>10. CASE AssignGiveUp
  <2>1. CASE Crash
    BY <2>1, CrashType
  <2>2. CASE ~Crash
    <3>1. phase' \in [Tasks -> Phases]
      BY <1>10, <2>2 DEF AssignGiveUp, Phases
    <3> QED
      BY <1>10, <2>2, <3>1 DEF AssignGiveUp, set_group_available, DeleteTimer,
         PointModerator, Tasks, States, Phases
  <2> QED
    BY <2>1, <2>2
<1>11. CASE AssignTimer
  BY <1>11 DEF AssignTimer, StartTimer, Tasks, States
<1>12. CASE AssignSet
  <2>1. CASE Crash
    BY <2>1, CrashType
  <2>2. CASE ~Crash
    BY <1>12, <2>2 DEF AssignSet, Tasks, States
  <2> QED
    BY <2>1, <2>2
<1> QED
  BY <1>1, <1>2, <1>3, <1>4, <1>5, <1>6, <1>7, <1>8, <1>9, <1>10, <1>11, <1>12
  DEF AssignGoesOn

(* No timer signal, delivered or discarded, changes a type.                *)
LEMMA TimerType ==
  ASSUME TypeOK, DanglingIsSomebody,
         SelTimeout \/ TimeoutIgnored \/ HeartbeatMissed \/ ModeratorSilent
  PROVE  TypeOK'
<1>1. CASE Crash
  BY <1>1, CrashType
<1>3. CASE SelTimeout /\ ~Crash
  <2>1. moderator_selection(fsm_state, timer_id, asked)
    BY <1>3 DEF SelTimeout
  <2>2. /\ fsm_state \in States /\ timer_id \in TimerIds
        /\ asked \in SUBSET Client
    BY DEF TypeOK, TimerIds
  <2>3. UNCHANGED <<heartbeat_remaining, silence>>
    BY <1>3 DEF SelTimeout
  <2>4. WellSelected
    BY <2>1, <2>2, SelectionType
  <2> QED
    BY <2>3, <2>4
    DEF WellSelected, TypeOK, list, locals, environment, TimerIds, Phases,
        Tasks, States
<1>4. CASE TimeoutIgnored
  BY <1>4 DEF TimeoutIgnored, TypeOK, list, moderator, environment, command,
     locals, Tasks, States
<1>5. CASE HeartbeatMissed
  <2>1. heartbeat_remaining' \in 0 .. Max8
    BY <1>5, PassesLeftType DEF HeartbeatMissed, TypeOK
  <2>2. silence' \in Nat
    BY <1>5 DEF HeartbeatMissed, TypeOK
  <2>3. timer_armed' \in {"no", "once", "repeat"}
    BY <1>5 DEF HeartbeatMissed, TypeOK
  <2> QED
    BY <1>5, <2>1, <2>2, <2>3 DEF HeartbeatMissed, TypeOK, list, moderator,
       environment, command, locals, Tasks, States
<1>6. CASE ModeratorSilent /\ ~Crash
  <2>1. moderator_selection(StateAfterSilence, "0", {})
    BY <1>6 DEF ModeratorSilent
  <2>2. /\ StateAfterSilence \in States /\ "0" \in TimerIds
        /\ {} \in SUBSET Client
    BY DEF TypeOK, TimerIds, StateAfterSilence, States
  <2>3. /\ heartbeat_remaining' = Dec8(heartbeat_remaining)
        /\ silence' = silence + 1
    BY <1>6 DEF ModeratorSilent
  <2>4. heartbeat_remaining' \in 0 .. Max8 /\ silence' \in Nat
    BY <2>3, LimitsAssumption DEF Dec8, TypeOK
  <2>5. WellSelected
    BY <2>1, <2>2, SelectionType
  <2> QED
    BY <2>3, <2>4, <2>5
    DEF WellSelected, TypeOK, list, locals, environment, TimerIds, Phases,
        Tasks, States
<1> QED
  BY <1>1, <1>3, <1>4, <1>5, <1>6

(* No datagram from a client, however late, changes a type.                *)
LEMMA DatagramType ==
  ASSUME TypeOK, TaskInHand, NEW c \in Client, NEW t \in Tasks,
         \/ RcvEchoRsp(c) \/ RcvEchoRspFailover(c) \/ RcvNotifyRsp(c)
         \/ RcvTaskRsp(c, t) \/ RcvEchoReq(c)
  PROVE  TypeOK'
<1>1. CASE Crash
  BY <1>1, CrashType
<1>2. MaxMisses \in 0 .. Max8 /\ Reachable \in 0 .. Max8
  BY LimitsAssumption
<1>3. fsm_state # "STATE_NONE" => task \in Tasks
  BY NumTasksAssumption DEF TaskInHand, TypeOK, Tasks
<1>4. ASSUME update_moderator_info(c) \/ NoSuchMember,
             fsm_state # "STATE_NONE"
      PROVE  /\ status' \in [Client -> {"CLFREE", "CLBUSY"}]
             /\ moderator_client' \in Client \cup {NULL}
             /\ moderator_node' \in {"allocated", "freed"}
             /\ heartbeat_remaining' \in 0 .. Max8
             /\ role' \subseteq Client \X Tasks
             /\ silence' \in Nat
             /\ UNCHANGED <<members, registered>>
  <2>1. CASE update_moderator_info(c)
    <3>1. role' = role \cup {<<c, task>>} /\ task \in Tasks
      BY <1>3, <1>4, <2>1 DEF update_moderator_info
    <3>2. role' \subseteq Client \X Tasks
      BY <3>1 DEF TypeOK
    <3> QED
      BY <1>2, <2>1, <3>2 DEF update_moderator_info, PointModerator, TypeOK
  <2>2. CASE NoSuchMember
    BY <2>2 DEF NoSuchMember, TypeOK, list, moderator
  <2> QED
    BY <1>4, <2>1, <2>2
<1>5. CASE RcvEchoRsp(c) /\ ~Crash
  <2>1. update_moderator_info(c) \/ NoSuchMember
    BY <1>5 DEF RcvEchoRsp
  <2>2. /\ fsm_state' \in States
        /\ timer_id' = "0" /\ timer_armed' = "no"
        /\ group_reachability_index' \in 0 .. Max8
        /\ UNCHANGED <<server, command, task, phase, distributed, probed, asked,
                       environment>>
    BY <1>2, <1>5 DEF RcvEchoRsp, DeleteTimer, TypeOK, States
  <2>3. fsm_state # "STATE_NONE"
    BY <1>5 DEF RcvEchoRsp
  <2> QED
    BY <1>4, <2>1, <2>2, <2>3 DEF TypeOK, environment, command, locals, Tasks, States
<1>6. CASE RcvEchoRspFailover(c) /\ ~Crash
  <2>1. /\ update_moderator_info(c) \/ NoSuchMember
        /\ fsm_state # "STATE_NONE"
    BY <1>6 DEF RcvEchoRspFailover
  <2>2. /\ fsm_state' \in States
        /\ timer_id' \in TimerIds
        /\ timer_armed' \in {"no", "once", "repeat"}
        /\ UNCHANGED <<group_reachability_index, server, command, task, phase,
                       distributed, probed, asked, environment>>
    BY <1>6 DEF RcvEchoRspFailover, StartMonitoring, StartTimer, DeleteTimer,
       States, TimerIds
  <2> QED
    BY <1>4, <2>1, <2>2 DEF TypeOK, environment, command, locals, Tasks, States, TimerIds
<1>7. CASE RcvNotifyRsp(c) /\ ~Crash
  <2>1. /\ fsm_state' \in States
        /\ timer_id' \in TimerIds
        /\ timer_armed' \in {"no", "once", "repeat"}
        /\ UNCHANGED <<list, moderator, heartbeat_remaining,
                       group_reachability_index, server, command, task, probed,
                       asked, role, environment, silence>>
    BY <1>7 DEF RcvNotifyRsp, StartMonitoring, StartTimer, TypeOK, States,
       TimerIds
  <2>2. /\ distributed' = distributed \cup {task}
        /\ phase' = [phase EXCEPT ![task] = "running"]
        /\ task \in Tasks
    BY <1>3, <1>7 DEF RcvNotifyRsp
  <2>3. distributed' \subseteq Tasks /\ phase' \in [Tasks -> Phases]
    BY <2>2 DEF TypeOK, Phases
  <2> QED
    BY <2>1, <2>3 DEF TypeOK, list, moderator, environment, command, locals, Tasks, States,
       TimerIds, Phases
<1>8. CASE RcvTaskRsp(c, t) /\ ~Crash
  <2>1. status' \in [Client -> {"CLFREE", "CLBUSY"}]
    BY <1>8 DEF RcvTaskRsp, TypeOK
  <2>2. /\ moderator_client' = NULL /\ moderator_node' = "allocated"
        /\ fsm_state' \in States
        /\ timer_id' \in TimerIds
        /\ timer_armed' \in {"no", "once", "repeat"}
        /\ phase' \in [Tasks -> Phases]
    BY <1>8 DEF RcvTaskRsp, set_group_available, PointModerator, DeleteTimer,
       timer, TypeOK, States, TimerIds, Phases
  <2>3. UNCHANGED <<members, registered, heartbeat_remaining,
                    group_reachability_index, server, command, task, distributed,
                    probed, asked, role, environment, silence>>
    BY <1>8 DEF RcvTaskRsp
  <2> QED
    BY <2>1, <2>2, <2>3 DEF TypeOK, environment, command, locals, Tasks, States, TimerIds, Phases
<1>9. CASE RcvEchoReq(c) /\ ~Crash
  <2>1. heartbeat_remaining' \in 0 .. Max8 /\ silence' \in Nat
    BY <1>2, <1>9 DEF RcvEchoReq
  <2>2. UNCHANGED <<list, fsm_state, moderator, timer,
                    group_reachability_index, server, command, task, phase,
                    distributed, probed, asked, role, environment>>
    BY <1>9 DEF RcvEchoReq
  <2> QED
    BY <2>1, <2>2, SMTT(30) DEF TypeOK, list, moderator, timer, environment,
       command, locals, Tasks, States
<1> QED
  BY <1>1, <1>5, <1>6, <1>7, <1>8, <1>9

(* Joins, leaves and deaths of clients change no type.                     *)
LEMMA ChurnType ==
  ASSUME TypeOK, NEW c \in Client, Join(c) \/ Leave(c) \/ Die(c)
  PROVE  TypeOK'
<1>1. Without(c) \in Seq(Client)
  BY WithoutIsAList DEF TypeOK
<1>2. churn \in 0 .. MaxChurn /\ MaxChurn \in Nat
  BY LimitsAssumption DEF TypeOK
<1>3. CASE Join(c)
  <2>1. members' \in Seq(Client)
    <3>1. <<c>> \in Seq(Client)
      OBVIOUS
    <3>2. <<c>> \o Without(c) \in Seq(Client)
      BY <1>1, <3>1, ConcatProperties
    <3> QED
      BY <1>3, <3>2 DEF Join
  <2>2. /\ moderator_node' \in {"allocated", "freed"}
        /\ moderator_client' \in Client \cup {NULL}
    <3>1. CASE UNCHANGED moderator_client
      BY <1>3, <3>1 DEF Join, PointModerator, TypeOK
    <3>2. CASE PointModerator(c)
      BY <3>2 DEF PointModerator
    <3> QED
      BY <1>3, <3>1, <3>2 DEF Join
  <2>3. /\ churn' \in 0 .. MaxChurn
        /\ alive' \subseteq Client
        /\ status' \in [Client -> {"CLFREE", "CLBUSY"}]
        /\ registered' \in [Client -> Nat]
    BY <1>2, <1>3 DEF Join, TypeOK
  <2>4. UNCHANGED <<fsm_state, timer, heartbeat_remaining,
                    group_reachability_index, server, command, task,
                    phase, distributed, probed, asked, role, silence>>
    BY <1>3 DEF Join
  <2> QED
    BY <2>1, <2>2, <2>3, <2>4 DEF TypeOK, timer, command, locals, Tasks, States
<1>4. CASE Leave(c)
  BY <1>1, <1>2, <1>4, SMTT(30) DEF Leave, TypeOK, timer, command, locals,
     Tasks, States
<1>5. CASE Die(c)
  BY <1>5 DEF Die, TypeOK, list, moderator, timer, command, locals, Tasks, States
<1> QED
  BY <1>3, <1>4, <1>5

----------------------------------------------------------------------------
(* The structure of a group's state.                                       *)

(* moderator_selection either gives the group up or goes on in state st    *)
(* with a timer and, unless the index was zero, with passes left.  While   *)
(* the command is under way it can end a pass, but not unnoticed.          *)
LEMMA SelectionEffect ==
  ASSUME TypeOK, NEW st, NEW id, NEW already,
         moderator_selection(st, id, already)
  PROVE  /\ moderator_node' = "allocated"
         /\ UNCHANGED <<cli, client_node, passes, task>>
         /\ overlapped => overlapped'
         /\ ~Accepted => overlapped' = overlapped
         /\ Accepted /\ ~overlapped'
              => /\ ~GivesUp(group_reachability_index)
                 /\ group_reachability_index' = group_reachability_index
         /\ \/ /\ GivesUp(group_reachability_index)
               /\ fsm_state' = "STATE_NONE"
               /\ timer_id' = "0"
               /\ moderator_client' = NULL
               /\ phase' = [phase EXCEPT ![task] = "unreachable"]
            \/ /\ ~GivesUp(group_reachability_index)
               /\ fsm_state' = st
               /\ timer_id' = IF id = "0" THEN "MOD_SEL_TIMEOUT" ELSE id
               /\ group_reachability_index \in 1 .. Reachable
                    => group_reachability_index' \in 1 .. Reachable
               /\ phase' = phase
<1>1. /\ UNCHANGED <<cli, client_node, passes, task>>
      /\ overlapped' = (overlapped \/ (Accepted /\ AfterScan = NULL))
      /\ overlapped \in BOOLEAN
      /\ group_reachability_index' = PassesLeft(group_reachability_index)
  BY DEF moderator_selection, TypeOK, locals
<1>2. Accepted /\ ~overlapped' =>
        /\ ~GivesUp(group_reachability_index)
        /\ group_reachability_index' = group_reachability_index
  BY <1>1 DEF GivesUp, PassesLeft
<1>3. CASE GivesUp(group_reachability_index)
  BY <1>1, <1>2, <1>3 DEF moderator_selection, set_group_available, DeleteTimer,
     PointModerator
<1>4. CASE ~GivesUp(group_reachability_index)
  <2>1. group_reachability_index \in 1 .. Reachable
           => group_reachability_index' \in 1 .. Reachable
    BY <1>1, <1>4, PassesLeftBudget
  <2> QED
    BY <1>1, <1>2, <1>4, <2>1 DEF moderator_selection, StartTimer,
       PointModerator
<1> QED
  BY <1>3, <1>4

(* A step that touches neither the state machine nor the timer id nor the  *)
(* counters.                                                               *)
LEMMA QuietStep ==
  ASSUME Structure,
         UNCHANGED <<fsm_state, moderator_client, timer_id,
                     heartbeat_remaining, group_reachability_index, cli,
                     passes, overlapped, task, phase, silence>>,
         Dangling' => moderator_client # NULL
  PROVE  Structure'
  BY DEF Structure, DanglingIsSomebody, TaskInHand, NoTimerWhenSelected,
     TimerEndsWithItsState, SelectionBudget, PhaseMatchesFsm, HeartbeatsCounted,
     CommandUnderWay, GivenUpStays, Accepted, Selecting

(* The structural part of the invariant holds in the initial states.       *)
LEMMA InitStructure == Init => Structure
  BY DEF Init, Structure, DanglingIsSomebody, TaskInHand, NoTimerWhenSelected,
     TimerEndsWithItsState, SelectionBudget, PhaseMatchesFsm, HeartbeatsCounted,
     CommandUnderWay, GivenUpStays, Accepted, Selecting, Dangling

(* It survives the end of the server.                                      *)
LEMMA CrashStructure == Structure /\ Crash => Structure'
<1> SUFFICES ASSUME Structure, Crash PROVE Structure'
  OBVIOUS
<1>1. UNCHANGED <<fsm_state, moderator_client, moderator_node, timer_id,
                  heartbeat_remaining, group_reachability_index, cli, passes,
                  overlapped, task, phase, silence>>
  BY DEF Crash, moderator, timer, command, locals
<1>2. Dangling' => moderator_client # NULL
  BY <1>1 DEF Structure, DanglingIsSomebody, Dangling
<1> QED
  BY <1>1, <1>2, QuietStep

(* A step of the command that neither leaves nor enters a state, and       *)
(* touches no counter but those of its own.                                *)
LEMMA CommandQuiet ==
  ASSUME Structure, Accepted,
         UNCHANGED <<fsm_state, timer_id, heartbeat_remaining, task, phase,
                     silence, overlapped>>,
         moderator_node' = "allocated" \/ UNCHANGED <<moderator_node,
                                                      moderator_client>>,
         cli' # "assigning", cli' # "pending",
         ~overlapped =>
           /\ group_reachability_index' \in 1 .. Reachable
           /\ cli' \in {"reset", "looked", "scanned", "stored", "read"}
                => group_reachability_index' = Reachable
           /\ cli' = "read" => passes' = Reachable
           /\ cli' # "giving up"
  PROVE  Structure'
<1>1. /\ \/ fsm_state = "MODERATOR_SELECTION_PENDING"
         \/ fsm_state = "STATE_NONE" /\ overlapped
      /\ task > 0
  BY DEF Structure, CommandUnderWay, TaskInHand
<1>2. /\ DanglingIsSomebody' /\ NoTimerWhenSelected'
      /\ TimerEndsWithItsState' /\ HeartbeatsCounted'
  BY <1>1 DEF Structure, DanglingIsSomebody, Dangling, NoTimerWhenSelected,
     TimerEndsWithItsState, HeartbeatsCounted, Selecting
<1>3. TaskInHand' /\ PhaseMatchesFsm'
  BY <1>1 DEF Structure, TaskInHand, PhaseMatchesFsm
<1>4. SelectionBudget' /\ CommandUnderWay'
  BY <1>1 DEF SelectionBudget, CommandUnderWay
<1>5. GivenUpStays'
  BY <1>1 DEF Structure, GivenUpStays
<1> QED
  BY <1>2, <1>3, <1>4, <1>5 DEF Structure

(* It survives the CLI command: whatever the timers do between its steps,  *)
(* accepting a task begins a selection, and unless a timer ends a pass     *)
(* meanwhile, that selection has all its passes.                           *)
LEMMA CommandStructure ==
  ASSUME TypeOK, Structure, AssignCheck \/ AssignGoesOn
  PROVE  Structure'
<1>1. CASE AssignCheck
  <2>1. /\ UNCHANGED <<fsm_state, moderator_client, moderator_node, timer_id,
                       heartbeat_remaining, group_reachability_index, passes,
                       overlapped, task, phase, silence>>
        /\ task < NumTasks /\ cli = "prompt" /\ cli' = "assigning"
    BY <1>1 DEF AssignCheck, AtEpoll, moderator, timer, locals
  <2> QED
    BY <2>1
    DEF Structure, DanglingIsSomebody, TaskInHand, NoTimerWhenSelected,
        TimerEndsWithItsState, SelectionBudget, PhaseMatchesFsm,
        HeartbeatsCounted, CommandUnderWay, GivenUpStays, Accepted, Selecting,
        Dangling
<1>2. CASE AssignPending
  <2>1. /\ UNCHANGED <<moderator_client, moderator_node, timer_id,
                       heartbeat_remaining, group_reachability_index, silence>>
        /\ fsm_state' = "MODERATOR_SELECTION_PENDING"
        /\ cli' = "pending" /\ overlapped' = FALSE
        /\ task' = task + 1 /\ phase' = PhaseAfterAccept
    BY <1>2 DEF AssignPending, moderator, timer
  <2>2. task + 1 \in Tasks
    BY <1>2, NumTasksAssumption
    DEF AssignPending, Structure, TaskInHand, TypeOK, Tasks
  <2>3. phase'[task'] = "selecting"
    BY <2>1, <2>2 DEF PhaseAfterAccept
  <2>4. task' # 0 /\ task' > 0
    BY <2>1, <2>2 DEF Tasks
  <2> QED
    BY <2>1, <2>3, <2>4
    DEF Structure, DanglingIsSomebody, TaskInHand, NoTimerWhenSelected,
        TimerEndsWithItsState, SelectionBudget, PhaseMatchesFsm,
        HeartbeatsCounted, CommandUnderWay, GivenUpStays, Accepted, Selecting,
        Dangling
<1>3. Reachable \in 1 .. Reachable /\ Reachable - 1 \in 1 .. Reachable
  BY LimitsAssumption
<1>4. ~overlapped =>
        /\ Accepted /\ cli # "pending"
             => group_reachability_index \in 1 .. Reachable
        /\ cli \in {"reset", "looked", "scanned", "stored", "read"}
             => group_reachability_index = Reachable
        /\ cli = "read" => passes = Reachable
  BY DEF Structure, CommandUnderWay, SelectionBudget
<1>5. CASE AssignReset
  <2>1. Accepted
    BY <1>5 DEF AssignReset, Accepted
  <2> QED
    BY <1>3, <1>5, <2>1, CommandQuiet DEF AssignReset, timer, moderator
<1>6. CASE AssignLook
  <2>1. Accepted
    BY <1>6 DEF AssignLook, Accepted
  <2> QED
    BY <1>3, <1>4, <1>6, <2>1, CommandQuiet DEF AssignLook, timer, moderator
<1>7. CASE AssignScan
  <2>1. Accepted
    BY <1>7 DEF AssignScan, Accepted
  <2> QED
    BY <1>3, <1>4, <1>7, <2>1, CommandQuiet DEF AssignScan, timer, moderator
<1>8. CASE AssignStore
  <2>1. Accepted
    BY <1>8 DEF AssignStore, Accepted
  <2> QED
    BY <1>3, <1>4, <1>8, <2>1, CommandQuiet DEF AssignStore, timer,
       PointModerator
<1>9. CASE AssignRead
  <2>1. Accepted
    BY <1>9 DEF AssignRead, Accepted
  <2> QED
    BY <1>3, <1>4, <1>9, <2>1, CommandQuiet DEF AssignRead, timer, moderator
<1>10. CASE AssignWrite
  <2>1. Accepted
    BY <1>10 DEF AssignWrite, Accepted
  <2>2. ~overlapped => group_reachability_index' \in 1 .. Reachable
    BY <1>3, <1>4, <1>10, LimitsAssumption DEF AssignWrite, Dec8
  <2> QED
    BY <1>10, <2>1, <2>2, CommandQuiet DEF AssignWrite, timer, moderator
<1>11. CASE AssignTest
  <2>1. Accepted /\ cli # "pending"
    BY <1>11 DEF AssignTest, Accepted
  <2>2. ~overlapped => group_reachability_index # 0
    BY <1>4, <2>1
  <2> QED
    BY <1>4, <1>11, <2>1, <2>2, CommandQuiet DEF AssignTest, timer, moderator
<1>12. CASE AssignGiveUp
  <2>1. CASE Crash
    BY <2>1, CrashStructure
  <2>2. CASE ~Crash
    <3>1. /\ fsm_state' = "STATE_NONE" /\ timer_id' = "0"
          /\ moderator_client' = NULL /\ moderator_node' = "allocated"
          /\ phase' = [phase EXCEPT ![task] = "unreachable"]
          /\ cli' = "prompt"
          /\ UNCHANGED <<heartbeat_remaining, group_reachability_index, passes,
                         task, silence, overlapped>>
      BY <1>12, <2>2 DEF AssignGiveUp, set_group_available, DeleteTimer,
         PointModerator, locals
    <3>2. task > 0 /\ task \in Tasks
      <4>1. Accepted
        BY <1>12, <2>2 DEF AssignGiveUp, Accepted
      <4>2. task > 0
        BY <4>1 DEF Structure, TaskInHand
      <4> QED
        BY <4>2, NumTasksAssumption DEF TypeOK, Tasks
    <3>3. phase'[task] = "unreachable"
      BY <3>1, <3>2 DEF TypeOK
    <3> QED
      BY <3>1, <3>2, <3>3
      DEF Structure, DanglingIsSomebody, TaskInHand, NoTimerWhenSelected,
        TimerEndsWithItsState, SelectionBudget, PhaseMatchesFsm,
        HeartbeatsCounted, CommandUnderWay, GivenUpStays, Accepted, Selecting,
        Dangling
  <2> QED
    BY <2>1, <2>2
<1>13. CASE AssignTimer
  <2>1. /\ Accepted /\ cli' = "setting" /\ cli # "pending"
        /\ timer_id' = IF timer_id = "0" THEN "MOD_SEL_TIMEOUT" ELSE timer_id
        /\ UNCHANGED <<fsm_state, moderator_client, moderator_node,
                       heartbeat_remaining, group_reachability_index, passes,
                       task, phase, silence, overlapped>>
    BY <1>13 DEF AssignTimer, StartTimer, Accepted, moderator, locals
  <2> QED
    BY <2>1
    DEF Structure, DanglingIsSomebody, TaskInHand, NoTimerWhenSelected,
        TimerEndsWithItsState, SelectionBudget, PhaseMatchesFsm,
        HeartbeatsCounted, CommandUnderWay, GivenUpStays, Accepted, Selecting,
        Dangling
<1>14. CASE AssignSet
  <2>1. CASE Crash
    BY <2>1, CrashStructure
  <2>2. CASE ~Crash
    <3>1. Accepted /\ cli # "pending"
      BY <1>14 DEF AssignSet, Accepted
    <3> QED
      BY <1>4, <1>14, <2>2, <3>1, CommandQuiet DEF AssignSet, moderator
  <2> QED
    BY <2>1, <2>2
<1> QED
  BY <1>1, <1>2, <1>5, <1>6, <1>7, <1>8, <1>9, <1>10, <1>11, <1>12, <1>13,
     <1>14
  DEF AssignGoesOn

(* A selection that goes on from a running one, or begins anew for a task  *)
(* that is running, or goes on for a group that was given up.              *)
LEMMA SelectionStructure ==
  ASSUME TypeOK, Structure, task \in Tasks,
         NEW st \in Selecting \cup {"STATE_NONE"},
         NEW id \in {"0", "MOD_SEL_TIMEOUT"}, NEW already,
         st = "MODERATOR_SELECTION_PENDING"
           => phase[task] = "selecting" /\ fsm_state = st,
         st = "TASK_IN_PROGRESS_MOD_SEL_PEND"
           => phase[task] = "running" /\ fsm_state # "STATE_NONE",
         st = "STATE_NONE"
           => phase[task] = "unreachable" /\ fsm_state = st /\ overlapped,
         moderator_selection(st, id, already)
  PROVE  Structure'
<1>1. ~overlapped /\ fsm_state # "STATE_NONE" /\ cli # "pending"
        => group_reachability_index \in 1 .. Reachable
  BY DEF Structure, SelectionBudget
<1>2. /\ moderator_node' = "allocated"
      /\ UNCHANGED <<cli, client_node, passes, task>>
      /\ overlapped => overlapped'
      /\ ~Accepted => overlapped' = overlapped
      /\ Accepted /\ ~overlapped'
              => /\ ~GivesUp(group_reachability_index)
                 /\ group_reachability_index' = group_reachability_index
  BY SelectionEffect
<1>3. task > 0
  BY DEF Tasks
<1>4. CASE GivesUp(group_reachability_index)
  <2>1. /\ fsm_state' = "STATE_NONE"
        /\ timer_id' = "0"
        /\ moderator_client' = NULL
        /\ phase' = [phase EXCEPT ![task] = "unreachable"]
    BY <1>4, SelectionEffect
  <2>2. phase'[task] = "unreachable"
    BY <2>1 DEF TypeOK
  <2>3. Accepted => overlapped'
    BY <1>2, <1>4
  <2> QED
    BY <1>2, <1>3, <2>1, <2>2, <2>3
    DEF Structure, DanglingIsSomebody, TaskInHand, NoTimerWhenSelected,
        TimerEndsWithItsState, SelectionBudget, PhaseMatchesFsm,
        HeartbeatsCounted, CommandUnderWay, GivenUpStays, Accepted, Selecting,
        Dangling
<1>5. CASE ~GivesUp(group_reachability_index)
  <2>1. /\ fsm_state' = st
        /\ timer_id' = "MOD_SEL_TIMEOUT"
        /\ group_reachability_index \in 1 .. Reachable
             => group_reachability_index' \in 1 .. Reachable
        /\ phase' = phase
    BY <1>5, SelectionEffect
  <2>2. DanglingIsSomebody' /\ NoTimerWhenSelected' /\ HeartbeatsCounted'
    BY <1>2, <2>1 DEF DanglingIsSomebody, Dangling, NoTimerWhenSelected,
       HeartbeatsCounted, Selecting
  <2>3. TaskInHand' /\ PhaseMatchesFsm' /\ GivenUpStays'
    BY <1>2, <1>3, <2>1 DEF Structure, TaskInHand, PhaseMatchesFsm,
       GivenUpStays, Accepted, Selecting
  <2>4. TimerEndsWithItsState'
    BY <1>2, <2>1 DEF TimerEndsWithItsState, Selecting
  <2>5. SelectionBudget'
    BY <1>1, <1>2, <2>1 DEF SelectionBudget, Selecting
  <2>6. CommandUnderWay'
    <3>1. Accepted => \/ fsm_state = "MODERATOR_SELECTION_PENDING"
                      \/ fsm_state = "STATE_NONE" /\ overlapped
      BY DEF Structure, CommandUnderWay
    <3>2. Accepted => fsm_state' = fsm_state
      BY <1>3, <2>1, <3>1 DEF Structure, PhaseMatchesFsm, Selecting
    <3>3. Accepted' = Accepted
      BY <1>2 DEF Accepted
    <3>4. Accepted' => \/ fsm_state' = "MODERATOR_SELECTION_PENDING"
                       \/ fsm_state' = "STATE_NONE" /\ overlapped'
      BY <1>2, <3>1, <3>2, <3>3
    <3>5. cli \in {"reset", "looked", "scanned", "stored", "read"} => Accepted
      BY DEF Accepted
    <3>6. /\ ~overlapped =>
               /\ cli \in {"reset", "looked", "scanned", "stored", "read"}
                    => group_reachability_index = Reachable
               /\ cli = "read" => passes = Reachable
          /\ cli = "giving up" => overlapped
      BY DEF Structure, CommandUnderWay
    <3> QED
      BY <1>2, <3>4, <3>5, <3>6 DEF CommandUnderWay
  <2> QED
    BY <2>2, <2>3, <2>4, <2>5, <2>6 DEF Structure
<1> QED
  BY <1>4, <1>5

(* It survives the timers: a selection goes on with passes left or ends,   *)
(* and monitoring gives way to a selection with a timer of its own.        *)
LEMMA TimerStructure ==
  ASSUME TypeOK, Structure,
         SelTimeout \/ TimeoutIgnored \/ HeartbeatMissed \/ ModeratorSilent
  PROVE  Structure'
<1>1. CASE Crash
  BY <1>1, CrashStructure
<1>2. task = 0 => fsm_state = "STATE_NONE"
  BY DEF Structure, TaskInHand
<1>3. CASE SelTimeout /\ ~Crash
  <2>1. /\ \/ fsm_state \in Selecting
           \/ fsm_state = "STATE_NONE" /\ overlapped
        /\ timer_id = "MOD_SEL_TIMEOUT"
    BY <1>3 DEF SelTimeout, Structure, TimerEndsWithItsState
  <2>2. task \in Tasks /\ task > 0
    BY <1>2, <2>1, NumTasksAssumption
    DEF Selecting, Structure, TaskInHand, TypeOK, Tasks
  <2>3. /\ fsm_state = "MODERATOR_SELECTION_PENDING"
             => phase[task] = "selecting"
        /\ fsm_state = "TASK_IN_PROGRESS_MOD_SEL_PEND"
             => phase[task] = "running"
        /\ fsm_state = "STATE_NONE" => phase[task] = "unreachable"
    BY <2>1, <2>2 DEF Structure, PhaseMatchesFsm, GivenUpStays, Selecting
  <2>4. moderator_selection(fsm_state, timer_id, asked)
    BY <1>3 DEF SelTimeout
  <2> QED
    BY <2>1, <2>2, <2>3, <2>4, SelectionStructure DEF Selecting
<1>4. CASE TimeoutIgnored
  <2>1. UNCHANGED <<fsm_state, moderator_client, moderator_node, timer_id,
                    heartbeat_remaining, group_reachability_index, cli, passes,
                    overlapped, task, phase, silence>>
    BY <1>4 DEF TimeoutIgnored, moderator, command, locals
  <2>2. Dangling' => moderator_client # NULL
    BY <2>1 DEF Structure, DanglingIsSomebody, Dangling
  <2> QED
    BY <2>1, <2>2, QuietStep
<1>5. CASE HeartbeatMissed
  <2>1. UNCHANGED <<fsm_state, moderator_client, moderator_node, timer_id,
                    group_reachability_index, cli, passes, overlapped, task,
                    phase>>
    BY <1>5 DEF HeartbeatMissed, moderator, command, locals
  <2>2. heartbeat_remaining' + silence' = heartbeat_remaining + silence
    BY <1>5 DEF HeartbeatMissed, HeartbeatLeft, Dec8, TypeOK
  <2> QED
    BY <2>1, <2>2
    DEF Structure, DanglingIsSomebody, TaskInHand, NoTimerWhenSelected,
        TimerEndsWithItsState, SelectionBudget, PhaseMatchesFsm,
        HeartbeatsCounted, CommandUnderWay, GivenUpStays, Accepted,
        Selecting, Dangling
<1>6. CASE ModeratorSilent /\ ~Crash
  <2>1. timer_id = "MOD_RSP_TIMEOUT" /\ fsm_state = "GROUP_TASK_IN_PROGRESS"
    BY <1>6 DEF ModeratorSilent, Structure, NoTimerWhenSelected
  <2>2. moderator_selection(StateAfterSilence, "0", {})
    BY <1>6 DEF ModeratorSilent
  <2>3. StateAfterSilence = "TASK_IN_PROGRESS_MOD_SEL_PEND"
    BY <2>1 DEF StateAfterSilence
  <2>4. phase[task] = "running" /\ task \in Tasks
    BY <1>2, <2>1, NumTasksAssumption DEF Structure, PhaseMatchesFsm, TypeOK, Tasks
  <2>5. "TASK_IN_PROGRESS_MOD_SEL_PEND" \in Selecting
    BY DEF Selecting
  <2>6. moderator_selection("TASK_IN_PROGRESS_MOD_SEL_PEND", "0", {})
    BY <2>2, <2>3
  <2> QED
    BY <2>1, <2>2, <2>4, <2>5, <2>6, SelectionStructure
<1> QED
  BY <1>1, <1>3, <1>4, <1>5, <1>6

(* It survives the datagrams: each answer is let in only in the state it   *)
(* belongs to, or changes neither the state nor the timer.                 *)
LEMMA DatagramStructure ==
  ASSUME TypeOK, Structure, NEW c \in Client, NEW t \in Tasks,
         \/ RcvEchoRsp(c) \/ RcvEchoRspFailover(c) \/ RcvNotifyRsp(c)
         \/ RcvTaskRsp(c, t) \/ RcvEchoReq(c)
  PROVE  Structure'
<1>1. CASE Crash
  BY <1>1, CrashStructure
<1>2. fsm_state # "STATE_NONE" => task \in Tasks /\ task > 0
  BY NumTasksAssumption DEF Structure, TaskInHand, TypeOK, Tasks
<1>3. Reachable \in 1 .. Reachable /\ MaxMisses \in Nat
  BY LimitsAssumption
<1>4. ASSUME update_moderator_info(c) \/ NoSuchMember
      PROVE  /\ Dangling' => moderator_client' # NULL
             /\ \/ heartbeat_remaining' = MaxMisses /\ silence' = 0
                \/ UNCHANGED <<heartbeat_remaining, silence, moderator_client>>
  <2>1. CASE update_moderator_info(c)
    BY <2>1 DEF update_moderator_info, PointModerator, Dangling
  <2>2. CASE NoSuchMember
    BY <2>2 DEF NoSuchMember, Structure, DanglingIsSomebody, Dangling, moderator
  <2> QED
    BY <1>4, <2>1, <2>2
<1>5. CASE RcvEchoRsp(c) /\ ~Crash
  <2>1. update_moderator_info(c) \/ NoSuchMember
    BY <1>5 DEF RcvEchoRsp
  <2>2. /\ fsm_state = "MODERATOR_SELECTION_PENDING"
        /\ timer_id' = "0" /\ cli = "prompt"
        /\ group_reachability_index' = Reachable
        /\ UNCHANGED <<cli, passes, overlapped, task, phase>>
        /\ \/ update_moderator_info(c) /\ fsm_state' = "MODERATOR_SELECTED"
           \/ NoSuchMember /\ UNCHANGED fsm_state
    BY <1>5 DEF RcvEchoRsp, DeleteTimer, command, locals, AtEpoll
  <2>3. update_moderator_info(c) =>
          heartbeat_remaining' = MaxMisses /\ silence' = 0
    BY DEF update_moderator_info
  <2> QED
    BY <1>2, <1>3, <1>4, <2>1, <2>2, <2>3
    DEF Structure, DanglingIsSomebody, TaskInHand, NoTimerWhenSelected,
        TimerEndsWithItsState, SelectionBudget, PhaseMatchesFsm,
        HeartbeatsCounted, CommandUnderWay, GivenUpStays, Accepted,
        Selecting
<1>6. CASE RcvEchoRspFailover(c) /\ ~Crash
  <2>1. update_moderator_info(c) \/ NoSuchMember
    BY <1>6 DEF RcvEchoRspFailover
  <2>2. /\ fsm_state = "TASK_IN_PROGRESS_MOD_SEL_PEND"
        /\ fsm_state' = "GROUP_TASK_IN_PROGRESS" /\ cli = "prompt"
        /\ UNCHANGED <<cli, passes, overlapped, task, phase,
                       group_reachability_index>>
        /\ \/ update_moderator_info(c) /\ timer_id' = "MOD_RSP_TIMEOUT"
           \/ NoSuchMember /\ timer_id' = "0"
    BY <1>6 DEF RcvEchoRspFailover, DeleteTimer, StartMonitoring, StartTimer,
       command, locals, AtEpoll
  <2>3. update_moderator_info(c) =>
          heartbeat_remaining' = MaxMisses /\ silence' = 0
    BY DEF update_moderator_info
  <2> QED
    BY <1>2, <1>3, <1>4, <2>1, <2>2, <2>3
    DEF Structure, DanglingIsSomebody, TaskInHand, NoTimerWhenSelected,
        TimerEndsWithItsState, SelectionBudget, PhaseMatchesFsm,
        HeartbeatsCounted, CommandUnderWay, GivenUpStays, Accepted,
        Selecting
<1>7. CASE RcvNotifyRsp(c) /\ ~Crash
  <2>1. /\ fsm_state = "MODERATOR_SELECTED"
        /\ fsm_state' = "GROUP_TASK_IN_PROGRESS"
        /\ timer_id = "0" => timer_id' = "MOD_RSP_TIMEOUT"
        /\ phase' = [phase EXCEPT ![task] = "running"]
        /\ UNCHANGED <<moderator_client, moderator_node, heartbeat_remaining,
                       group_reachability_index, cli, passes, overlapped, task,
                       silence>>
        /\ cli = "prompt"
    BY <1>7 DEF RcvNotifyRsp, StartMonitoring, StartTimer, moderator, command,
       locals, AtEpoll
  <2>2. phase'[task] = "running"
    BY <1>2, <2>1 DEF TypeOK
  <2> QED
    BY <1>2, <2>1, <2>2
    DEF Structure, DanglingIsSomebody, TaskInHand, NoTimerWhenSelected,
        TimerEndsWithItsState, SelectionBudget, PhaseMatchesFsm,
        HeartbeatsCounted, CommandUnderWay, GivenUpStays, Accepted,
        Selecting, Dangling
<1>8. CASE RcvTaskRsp(c, t) /\ ~Crash
  <2>1. /\ moderator_client' = NULL /\ moderator_node' = "allocated"
        /\ UNCHANGED <<heartbeat_remaining, group_reachability_index, cli,
                       passes, overlapped, task, silence>>
        /\ cli = "prompt"
    BY <1>8 DEF RcvTaskRsp, set_group_available, PointModerator, command,
       locals, AtEpoll
  <2>2. CASE ~TaskEnds
    <3>1. UNCHANGED <<timer_id, fsm_state, phase>>
      BY <1>8, <2>2 DEF RcvTaskRsp, timer
    <3> QED
      BY <2>1, <3>1
      DEF Structure, DanglingIsSomebody, TaskInHand, NoTimerWhenSelected,
          TimerEndsWithItsState, SelectionBudget, PhaseMatchesFsm,
          HeartbeatsCounted, CommandUnderWay, GivenUpStays, Accepted,
        Selecting, Dangling
  <2>3. CASE TaskEnds
    <3>1. /\ timer_id' = "0" /\ fsm_state' = "STATE_NONE"
          /\ phase' = [phase EXCEPT ![task] = "done"]
          /\ fsm_state = "GROUP_TASK_IN_PROGRESS"
      BY <1>8, <2>3 DEF RcvTaskRsp, set_group_available, DeleteTimer, TaskEnds
    <3>2. phase'[task] = "done"
      BY <1>2, <3>1 DEF TypeOK
    <3> QED
      BY <2>1, <3>1, <3>2
      DEF Structure, DanglingIsSomebody, TaskInHand, NoTimerWhenSelected,
          TimerEndsWithItsState, SelectionBudget, PhaseMatchesFsm,
          HeartbeatsCounted, CommandUnderWay, GivenUpStays, Accepted,
        Selecting, Dangling
  <2> QED
    BY <2>2, <2>3
<1>9. CASE RcvEchoReq(c) /\ ~Crash
  <2>1. /\ heartbeat_remaining' = MaxMisses /\ silence' = 0
        /\ UNCHANGED <<fsm_state, moderator_client, moderator_node, timer_id,
                       group_reachability_index, cli, passes, overlapped, task,
                       phase>>
        /\ cli = "prompt"
    BY <1>9 DEF RcvEchoReq, moderator, timer, command, locals, AtEpoll
  <2> QED
    BY <1>3, <2>1
    DEF Structure, DanglingIsSomebody, TaskInHand, NoTimerWhenSelected,
        TimerEndsWithItsState, SelectionBudget, PhaseMatchesFsm,
        HeartbeatsCounted, CommandUnderWay, GivenUpStays, Accepted,
        Selecting, Dangling
<1> QED
  BY <1>1, <1>5, <1>6, <1>7, <1>8, <1>9

(* It survives joins, leaves and deaths.                                   *)
LEMMA ChurnStructure ==
  ASSUME TypeOK, Structure, NEW c \in Client, Join(c) \/ Leave(c) \/ Die(c)
  PROVE  Structure'
<1>1. c # NULL
  BY ClientAssumption
<1>2. UNCHANGED <<fsm_state, timer_id, heartbeat_remaining,
                  group_reachability_index, cli, passes, overlapped, task, phase,
                  silence>>
  BY DEF Join, Leave, Die, timer, command, locals
<1>3. CASE Join(c) /\ ~UNCHANGED moderator_client
  <2>1. /\ moderator_client' = c /\ moderator_node' = "allocated"
        /\ moderator_client # NULL
    BY <1>1, <1>3 DEF Join, PointModerator, Structure, DanglingIsSomebody
  <2>2. fsm_state # "STATE_NONE" \/ overlapped
    BY <2>1 DEF Structure, TimerEndsWithItsState
  <2> QED
    BY <1>2, <2>1, <2>2
    DEF Structure, DanglingIsSomebody, TaskInHand, NoTimerWhenSelected,
        TimerEndsWithItsState, SelectionBudget, PhaseMatchesFsm,
        HeartbeatsCounted, CommandUnderWay, GivenUpStays, Accepted,
        Selecting, Dangling
<1>4. CASE UNCHANGED moderator_client
  <2>1. Dangling' => moderator_client # NULL
    BY <1>1 DEF Join, Leave, Die, PointModerator, moderator, Dangling, Structure,
       DanglingIsSomebody
  <2> QED
    BY <1>2, <1>4, <2>1, QuietStep
<1> QED
  BY <1>3, <1>4 DEF Leave, Die, moderator

----------------------------------------------------------------------------
(* The invariant is inductive.                                             *)

(* The invariant holds in the initial states.                              *)
LEMMA InvInit == Init => Inv
  BY InitType, InitStructure DEF Inv

(* Every step of the specification preserves it.                           *)
LEMMA InvNext == Inv /\ [Next]_vars => Inv'
<1> SUFFICES ASSUME Inv, [Next]_vars PROVE Inv'
  OBVIOUS
<1>1. TypeOK /\ Structure /\ DanglingIsSomebody /\ TaskInHand
  BY DEF Inv, Structure
<1>2. CASE AssignCheck \/ AssignGoesOn
  BY <1>1, <1>2, CommandType, CommandStructure DEF Inv
<1>3. CASE SelTimeout \/ TimeoutIgnored \/ HeartbeatMissed \/ ModeratorSilent
  BY <1>1, <1>3, TimerType, TimerStructure DEF Inv
<1>4. ASSUME NEW c \in Client, NEW t \in Tasks,
             \/ RcvEchoRsp(c) \/ RcvEchoRspFailover(c) \/ RcvNotifyRsp(c)
             \/ RcvTaskRsp(c, t) \/ RcvEchoReq(c)
      PROVE  Inv'
  BY <1>1, <1>4, DatagramType, DatagramStructure DEF Inv
<1>5. ASSUME NEW c \in Client, Join(c) \/ Leave(c) \/ Die(c)
      PROVE  Inv'
  BY <1>1, <1>5, ChurnType, ChurnStructure DEF Inv
<1>6. CASE UNCHANGED vars
  <2>1. TypeOK'
    BY <1>1, <1>6 DEF vars, TypeOK, Tasks, States
  <2>2. Dangling' => moderator_client # NULL
    BY <1>1, <1>6 DEF vars, DanglingIsSomebody, Dangling
  <2>3. Structure'
    BY <1>1, <1>6, <2>2, QuietStep DEF vars
  <2> QED
    BY <2>1, <2>3 DEF Inv
<1>7. \E t \in Tasks : TRUE
  BY NumTasksAssumption DEF Tasks
<1> QED
  BY <1>2, <1>3, <1>4, <1>5, <1>6, <1>7 DEF Next

(* So it holds in every state of every behaviour.                          *)
LEMMA InvAlways == Spec => []Inv
  BY InvInit, InvNext, PTL DEF Spec

(* Every variable keeps its type: the uint8_t counters stay in range, the  *)
(* list stays a list of clients (mcast_group_node_t).                      *)
THEOREM TypeCorrect == Spec => []TypeOK
  BY InvAlways, PTL DEF Inv

(* No selection timer outlives the search it was started for, and an idle  *)
(* group has neither timer nor moderator, with the one exception that a    *)
(* timer's handler in the midst of assign_task makes; not even then does   *)
(* it meet MODERATOR_SELECTED (handle_timeout_real, set_group_available,   *)
(* assign_task).                                                           *)
THEOREM TimersEnd == Spec => []TimerEndsWithItsState
  BY InvAlways, PTL DEF Inv, Structure

(* The reachability index of a group at work is never used up or wrapped,  *)
(* wherever the timers interrupt assign_task, unless one ends a pass there *)
(* (moderator_selection, assign_task).                                     *)
THEOREM BudgetKept == Spec => []SelectionBudget
  BY InvAlways, PTL DEF Inv, Structure

(* The state machine and the fate of the task agree whatever datagrams     *)
(* arrive (server_main_fsm) and wherever a timer interrupts assign_task.   *)
THEOREM PhaseAgrees == Spec => []PhaseMatchesFsm
  BY InvAlways, PTL DEF Inv, Structure

----------------------------------------------------------------------------
(* Action properties.                                                      *)

(* Only the monitoring timer ends the search-free life of a running task.  *)
LEMMA DeposingStep ==
  ASSUME Inv, Next, fsm_state = "GROUP_TASK_IN_PROGRESS",
         fsm_state' = "TASK_IN_PROGRESS_MOD_SEL_PEND"
  PROVE  silence = MaxMisses /\ silence' = MaxMisses + 1
<1>1. ~Crash
  BY DEF Crash
<1>2. ~(AssignCheck \/ AssignGoesOn)
  <2>1. ~AssignCheck
    BY DEF AssignCheck
  <2>2. ~AssignGoesOn
    BY <1>1 DEF AssignGoesOn, AssignPending, AssignReset, AssignLook,
       AssignScan, AssignStore, AssignRead, AssignWrite, AssignTest,
       AssignGiveUp, AssignTimer, AssignSet,
       set_group_available
  <2> QED
    BY <2>1, <2>2
<1>3. ~(SelTimeout \/ TimeoutIgnored \/ HeartbeatMissed)
  <2>1. ~SelTimeout
    BY <1>1 DEF SelTimeout, Inv, Structure, TimerEndsWithItsState, Selecting
  <2>2. ~(TimeoutIgnored \/ HeartbeatMissed)
    BY DEF TimeoutIgnored, HeartbeatMissed
  <2> QED
    BY <2>1, <2>2
<1>4. ASSUME NEW c \in Client, NEW t \in Tasks
      PROVE  ~ \/ RcvEchoRsp(c) \/ RcvEchoRspFailover(c) \/ RcvNotifyRsp(c)
               \/ RcvTaskRsp(c, t) \/ RcvEchoReq(c)
               \/ Join(c) \/ Leave(c) \/ Die(c)
  <2>1. ~RcvTaskRsp(c, t)
    BY <1>1 DEF RcvTaskRsp, TaskEnds, set_group_available
  <2>2. ~(RcvEchoRsp(c) \/ RcvEchoRspFailover(c) \/ RcvNotifyRsp(c))
    BY <1>1 DEF RcvEchoRsp, RcvEchoRspFailover, RcvNotifyRsp
  <2>3. ~RcvEchoReq(c)
    BY <1>1 DEF RcvEchoReq
  <2>4. ~(Join(c) \/ Leave(c) \/ Die(c))
    BY DEF Join, Leave, Die
  <2> QED
    BY <2>1, <2>2, <2>3, <2>4
<1>5. ModeratorSilent
  <2>1. \E t \in Tasks : TRUE
    BY NumTasksAssumption DEF Tasks
  <2> QED
    BY <1>2, <1>3, <1>4, <2>1 DEF Next
<1>6. /\ timer_id = "MOD_RSP_TIMEOUT"
      /\ ~HeartbeatLeft
      /\ silence' = silence + 1
  BY <1>1, <1>5 DEF ModeratorSilent
<1>7. heartbeat_remaining = 0
  BY <1>6 DEF HeartbeatLeft, Inv, TypeOK
<1>8. heartbeat_remaining + silence = MaxMisses /\ silence \in Nat
  BY <1>6 DEF Inv, TypeOK, Structure, HeartbeatsCounted
<1> QED
  BY <1>6, <1>7, <1>8

(* A running task loses its moderator only when MaxMisses + 1 expiries of  *)
(* the monitoring timer in a row went by without an echo request of that   *)
(* moderator (handle_timeout_real, heartbeat_remaining).                   *)
THEOREM DeposedLate == Spec => DeposedOnlyAfterSilence
<1>1. Inv /\ [Next]_vars =>
        [(/\ fsm_state = "GROUP_TASK_IN_PROGRESS"
          /\ fsm_state' = "TASK_IN_PROGRESS_MOD_SEL_PEND")
         => silence = MaxMisses /\ silence' = MaxMisses + 1]_vars
  BY DeposingStep
<1> QED
  BY <1>1, InvAlways, PTL DEF Spec, DeposedOnlyAfterSilence

----------------------------------------------------------------------------
(* Refinement.                                                             *)

(* A selection leaves the tasks as they are or gives the last one up.      *)
LEMMA SelectionRefines ==
  ASSUME Inv, task \in Tasks, phase[task] \in {"selecting", "running",
                                               "unreachable"},
         NEW st, NEW id, NEW already, moderator_selection(st, id, already)
  PROVE  [Lifecycle!Next]_Lifecycle!vars
<1>1. /\ phase' = [phase EXCEPT ![task] = "unreachable"] \/ phase' = phase
      /\ task' = task
  BY DEF moderator_selection
<1>2. phase \in [Tasks -> Phases]
  BY DEF Inv, TypeOK, Phases
<1>3. CASE phase[task] = "unreachable"
  BY <1>1, <1>2, <1>3 DEF Lifecycle!vars
<1>4. CASE phase[task] \in {"selecting", "running"}
  BY <1>1, <1>4 DEF Lifecycle!Next, Lifecycle!GiveUp, Lifecycle!Open,
     Lifecycle!Tasks, Lifecycle!vars, Tasks
<1> QED
  BY <1>3, <1>4

(* Every step of the group is a step of TaskLifecycle or a stutter.        *)
LEMMA StepRefines ==
  ASSUME Inv, Next
  PROVE  [Lifecycle!Next]_Lifecycle!vars
<1> USE DEF Lifecycle!vars
<1>1. CASE Crash
  BY <1>1 DEF Crash
<1>2. fsm_state # "STATE_NONE" => task \in Tasks
  BY NumTasksAssumption DEF Inv, TypeOK, Structure, TaskInHand, Tasks
<1>3. CASE AssignCheck
  BY <1>3 DEF AssignCheck
<1>4. CASE AssignGoesOn /\ ~Crash
  <2>1. CASE AssignPending
    <3>1. phase' = PhaseAfterAccept /\ task' = task + 1
      BY <2>1 DEF AssignPending
    <3>2. task < NumTasks
      BY <2>1 DEF AssignPending, Inv, Structure, TaskInHand
    <3> QED
      BY <3>1, <3>2 DEF PhaseAfterAccept, Lifecycle!Next, Lifecycle!Accept,
         Lifecycle!Open, Lifecycle!Tasks, Tasks
  <2>2. CASE AssignGiveUp
    <3>1. /\ phase' = [phase EXCEPT ![task] = "unreachable"]
          /\ task' = task
          /\ Accepted
      BY <1>4, <2>2 DEF AssignGiveUp, Accepted
    <3>2. task > 0
      BY <3>1 DEF Inv, Structure, TaskInHand
    <3>3. /\ phase \in [Tasks -> Phases] /\ task \in Tasks
      BY <3>2, NumTasksAssumption DEF Inv, TypeOK, Phases, Tasks
    <3>4. \/ fsm_state = "MODERATOR_SELECTION_PENDING"
          \/ fsm_state = "STATE_NONE"
      BY <3>1 DEF Inv, Structure, CommandUnderWay
    <3>5. phase[task] = "selecting" \/ phase[task] = "unreachable"
      BY <3>1, <3>2, <3>4 DEF Inv, Structure, PhaseMatchesFsm, GivenUpStays
    <3>6. CASE phase[task] = "unreachable"
      BY <3>1, <3>3, <3>6
    <3>7. CASE phase[task] = "selecting"
      BY <3>1, <3>3, <3>7 DEF Lifecycle!Next, Lifecycle!GiveUp, Lifecycle!Open,
         Lifecycle!Tasks, Tasks
    <3> QED
      BY <3>5, <3>6, <3>7
  <2>3. CASE AssignReset \/ AssignLook \/ AssignScan \/ AssignStore
    BY <2>3 DEF AssignReset, AssignLook, AssignScan, AssignStore
  <2>4. CASE \/ AssignRead \/ AssignWrite \/ AssignTest
             \/ AssignTimer \/ AssignSet
    BY <1>4, <2>4 DEF AssignRead, AssignWrite, AssignTest, AssignTimer,
       AssignSet
  <2> QED
    BY <1>4, <2>1, <2>2, <2>3, <2>4 DEF AssignGoesOn
<1>5. CASE SelTimeout /\ ~Crash
  <2>1. /\ \/ fsm_state \in Selecting
           \/ fsm_state = "STATE_NONE" /\ overlapped
        /\ timer_id = "MOD_SEL_TIMEOUT"
    BY <1>5 DEF SelTimeout, Inv, Structure, TimerEndsWithItsState
  <2>2. task > 0 /\ task \in Tasks
    BY <1>2, <2>1, NumTasksAssumption
    DEF Inv, Selecting, Structure, TaskInHand, TypeOK, Tasks
  <2>3. phase[task] \in {"selecting", "running", "unreachable"}
    BY <2>1, <2>2
    DEF Inv, Structure, PhaseMatchesFsm, GivenUpStays, Selecting
  <2>4. moderator_selection(fsm_state, timer_id, asked)
    BY <1>5 DEF SelTimeout
  <2> QED
    BY <2>2, <2>3, <2>4, SelectionRefines
<1>6. CASE TimeoutIgnored \/ HeartbeatMissed
  BY <1>6 DEF TimeoutIgnored, HeartbeatMissed
<1>7. CASE ModeratorSilent /\ ~Crash
  <2>1. /\ moderator_selection(StateAfterSilence, "0", {})
        /\ timer_id # "0"
        /\ fsm_state \in {"MODERATOR_SELECTED", "GROUP_TASK_IN_PROGRESS"}
    BY <1>7 DEF ModeratorSilent
  <2>2. fsm_state = "GROUP_TASK_IN_PROGRESS"
    BY <2>1 DEF Inv, Structure, NoTimerWhenSelected
  <2>3. task \in Tasks /\ phase[task] = "running"
    BY <1>2, <2>2 DEF Inv, Structure, PhaseMatchesFsm, Tasks
  <2> QED
    BY <2>1, <2>3, SelectionRefines
<1>8. ASSUME NEW c \in Client, ~Crash,
             \/ RcvEchoRsp(c) \/ RcvEchoRspFailover(c) \/ RcvEchoReq(c)
             \/ Join(c) \/ Leave(c) \/ Die(c)
      PROVE  UNCHANGED <<task, phase>>
  BY <1>8 DEF RcvEchoRsp, RcvEchoRspFailover, RcvEchoReq, Join, Leave, Die
<1>9. ASSUME NEW c \in Client, RcvNotifyRsp(c), ~Crash
      PROVE  Lifecycle!Distribute
  <2>1. /\ fsm_state = "MODERATOR_SELECTED"
        /\ phase' = [phase EXCEPT ![task] = "running"]
        /\ task' = task
    BY <1>9 DEF RcvNotifyRsp
  <2>2. phase[task] = "selecting"
    BY <1>2, <2>1 DEF Inv, Structure, PhaseMatchesFsm, Tasks
  <2> QED
    BY <1>2, <2>1, <2>2 DEF Lifecycle!Distribute, Lifecycle!Tasks, Tasks
<1>10. ASSUME NEW c \in Client, NEW t \in Tasks, RcvTaskRsp(c, t), ~Crash
       PROVE  Lifecycle!Complete \/ UNCHANGED <<task, phase>>
  <2>1. CASE ~TaskEnds
    BY <1>10, <2>1 DEF RcvTaskRsp
  <2>2. CASE TaskEnds
    <3>1. /\ fsm_state = "GROUP_TASK_IN_PROGRESS"
          /\ phase' = [phase EXCEPT ![task] = "done"]
          /\ task' = task
      BY <1>10, <2>2 DEF RcvTaskRsp, TaskEnds
    <3>2. phase[task] = "running"
      BY <1>2, <3>1 DEF Inv, Structure, PhaseMatchesFsm, Tasks
    <3> QED
      BY <1>2, <3>1, <3>2 DEF Lifecycle!Complete, Lifecycle!Tasks, Tasks
  <2> QED
    BY <2>1, <2>2
<1>11. Lifecycle!Distribute \/ Lifecycle!Complete => Lifecycle!Next
  BY DEF Lifecycle!Next
<1> QED
  BY <1>1, <1>3, <1>4, <1>5, <1>6, <1>7, <1>8, <1>9, <1>10, <1>11 DEF Next

(* The handlers of the server, its timers and its command line together    *)
(* take a group through its tasks as TaskLifecycle promises: no late,      *)
(* duplicated or foreign datagram reopens a task that has ended or ends    *)
(* one that has not been handed out.                                       *)
THEOREM Refinement == Spec => ImplementsLifecycle
<1>1. Init => Lifecycle!Init
  BY DEF Init, Lifecycle!Init, Lifecycle!Tasks, Tasks
<1>2. Inv /\ [Next]_vars => [Lifecycle!Next]_Lifecycle!vars
  BY StepRefines DEF vars, Lifecycle!vars
<1> QED
  BY <1>1, <1>2, InvAlways, PTL DEF Spec, ImplementsLifecycle, Lifecycle!Spec
----------------------------------------------------------------------------
(* A group whose membership is stable: no node is freed, and none is in    *)
(* the list twice.                                                         *)
Distinct == \A i, j \in DOMAIN members : members[i] = members[j] => i = j

NobodyLost ==
  /\ moderator_node = "allocated"
  /\ moderator_client \in Members \cup {NULL}
  /\ client_node \in Members \cup {NULL}
  /\ probed \subseteq Members

(* A moderator that was selected was told, and is marked busy.             *)
SelectedIsTold ==
  fsm_state \in {"MODERATOR_SELECTED", "GROUP_TASK_IN_PROGRESS"}
    /\ moderator_client # NULL =>
    /\ <<moderator_client, task>> \in role
    /\ status[moderator_client] = "CLBUSY"

(* The last pass has asked all free nodes it went past.                    *)
LastPass ==
  /\ fsm_state = "MODERATOR_SELECTION_PENDING" /\ ~overlapped
  /\ \/ group_reachability_index = 1 /\ cli # "pending"
     \/ cli \in {"stored", "read"}
  => \A i \in DOMAIN members :
       i < ScanStart /\ status[members[i]] = "CLFREE" => members[i] \in asked

(* The scan of the command is over at once only if a timer has ended one.  *)
MissedScan == ScanMissed => overlapped

Stable == Distinct /\ NobodyLost /\ SelectedIsTold /\ LastPass /\ MissedScan

(* Where the scan starts is the place of the moderator in the list, and    *)
(* where it will start again that of the node after the scanned ones.      *)
LEMMA ScanPlace ==
  ASSUME TypeOK, Stable
  PROVE  /\ ScanStart \in Nat \ {0}
         /\ ~ Dangling
         /\ moderator_client = NULL => ScanStart = 1
         /\ moderator_client # NULL =>
              ScanStart \in DOMAIN members /\ members[ScanStart] = moderator_client
<1>1. DOMAIN members = 1 .. Len(members) /\ Len(members) \in Nat
  BY MembersAreClients DEF TypeOK
<1>2. CASE moderator_client = NULL
  BY <1>1, <1>2 DEF ScanStart, Stable, NobodyLost, Dangling
<1>3. CASE moderator_client # NULL
  <2>1. \E i \in DOMAIN members : members[i] = moderator_client
    BY <1>3 DEF Stable, NobodyLost, Members
  <2>2. ScanStart \in DOMAIN members /\ members[ScanStart] = moderator_client
    BY <1>3, <2>1 DEF ScanStart
  <2> QED
    BY <1>1, <1>3, <2>2 DEF Stable, NobodyLost, Dangling
<1> QED
  BY <1>2, <1>3

LEMMA AfterScanPlace ==
  ASSUME TypeOK, Stable
  PROVE  /\ AfterScan \in Members \cup {NULL}
         /\ AfterScan = NULL => \A i \in DOMAIN members : i < ScanStart + MaxTried
         /\ AfterScan # NULL =>
              /\ ScanStart + MaxTried \in DOMAIN members
              /\ members[ScanStart + MaxTried] = AfterScan
         /\ Probes = {{c \in Scanned : status[c] = "CLFREE"}}
         /\ Scanned \subseteq Members
         /\ \A i \in DOMAIN members :
              ScanStart <= i /\ i < ScanStart + MaxTried => members[i] \in Scanned
<1>1. /\ DOMAIN members = 1 .. Len(members) /\ Len(members) \in Nat
      /\ \A i \in DOMAIN members : members[i] \in Client
  BY MembersAreClients DEF TypeOK
<1>2. ScanStart \in Nat \ {0} /\ ~ Dangling /\ MaxTried \in Nat \ {0}
  BY ScanPlace, LimitsAssumption
<1>3. AfterScan = IF ScanStart + MaxTried \notin DOMAIN members THEN NULL
                  ELSE members[ScanStart + MaxTried]
  BY <1>2 DEF AfterScan
<1>4. \A i \in DOMAIN members : members[i] # NULL /\ members[i] \in Members
  BY <1>1, ClientAssumption DEF Members
<1>5. Scanned = {members[i] : i \in {j \in DOMAIN members :
                                       j \in ScanStart .. ScanStart + MaxTried - 1}}
  BY <1>2 DEF Scanned
<1>6. AfterScan = NULL => \A i \in DOMAIN members : i < ScanStart + MaxTried
  BY <1>1, <1>2, <1>3, <1>4
<1>7. AfterScan # NULL => /\ ScanStart + MaxTried \in DOMAIN members
                          /\ members[ScanStart + MaxTried] = AfterScan
  BY <1>3
<1>8. AfterScan \in Members \cup {NULL}
  BY <1>3, <1>4
<1>9. Probes = {{c \in Scanned : status[c] = "CLFREE"}}
  BY <1>2 DEF Probes
<1>10. Scanned \subseteq Members
  BY <1>4, <1>5
<1>11. ASSUME NEW i \in DOMAIN members, ScanStart <= i, i < ScanStart + MaxTried
       PROVE  members[i] \in Scanned
  <2>1. i \in ScanStart .. ScanStart + MaxTried - 1
    BY <1>1, <1>2, <1>11
  <2> QED
    BY <1>5, <2>1
<1> QED
  BY <1>6, <1>7, <1>8, <1>9, <1>10, <1>11

(* A free node that the scan has not reached yet is the only one that was  *)
(* not asked, when those before the scan were.                             *)
LEMMA ScanAsks ==
  ASSUME TypeOK, Stable, NEW already,
         \E P \in Probes : asked' = already \cup P,
         \A i \in DOMAIN members :
           i < ScanStart /\ status[members[i]] = "CLFREE" => members[i] \in already
  PROVE  \A i \in DOMAIN members :
           i < ScanStart + MaxTried /\ status[members[i]] = "CLFREE" =>
             members[i] \in asked'
<1>1. /\ DOMAIN members = 1 .. Len(members) /\ Len(members) \in Nat
  BY MembersAreClients DEF TypeOK
<1>2. ScanStart \in Nat \ {0} /\ MaxTried \in Nat \ {0}
  BY ScanPlace, LimitsAssumption
<1>3. PICK P \in Probes : asked' = already \cup P
  OBVIOUS
<1>4. asked' = already \cup {c \in Scanned : status[c] = "CLFREE"}
  BY <1>3, AfterScanPlace
<1>5. ASSUME NEW i \in DOMAIN members, i < ScanStart + MaxTried,
             status[members[i]] = "CLFREE"
      PROVE  members[i] \in asked'
  <2>1. CASE i < ScanStart
    BY <1>4, <1>5, <2>1
  <2>2. CASE ~ (i < ScanStart)
    <3>1. members[i] \in Scanned
      BY <1>1, <1>2, <1>5, <2>2, AfterScanPlace
    <3> QED
      BY <1>4, <1>5, <3>1
  <2> QED
    BY <2>1, <2>2
<1> QED
  BY <1>5

(* moderator_selection keeps a stable group stable: a new pass has asked   *)
(* nobody yet but starts at the head.                                      *)
LEMMA SelectionStable ==
  ASSUME TypeOK, Structure, Stable, NEW st \in Selecting \cup {"STATE_NONE"},
         NEW id, NEW already, moderator_selection(st, id, already),
         st = "MODERATOR_SELECTION_PENDING" => fsm_state = st /\ already = asked
  PROVE  Stable'
<1>1. /\ UNCHANGED <<members, status, registered, role, cli, client_node, task>>
      /\ moderator_node' = "allocated"
      /\ \/ /\ fsm_state' = "STATE_NONE" /\ moderator_client' = NULL
            /\ AfterScan = NULL
         \/ /\ fsm_state' = st /\ moderator_client' = AfterScan
      /\ group_reachability_index' = PassesLeft(group_reachability_index)
      /\ overlapped' = (overlapped \/ (Accepted /\ AfterScan = NULL))
      /\ \E P \in Probes : asked' = already \cup P
  BY DEF moderator_selection, set_group_available, PointModerator, list, locals,
     GivesUp
<1>2. Distinct' /\ Members' = Members
  BY <1>1 DEF Stable, Distinct, Members
<1>3. NobodyLost'
  <2>1. PICK P \in Probes : probed' = probed \cup P
    BY DEF moderator_selection
  <2>2. P \subseteq Members
    BY AfterScanPlace
  <2> QED
    BY <1>1, <1>2, <2>1, <2>2, AfterScanPlace DEF Stable, NobodyLost
<1>4. SelectedIsTold'
  BY <1>1 DEF SelectedIsTold, Selecting
<1>5. LastPass'
  <2> SUFFICES ASSUME fsm_state' = "MODERATOR_SELECTION_PENDING",
                      ~overlapped',
                      \/ group_reachability_index' = 1 /\ cli' # "pending"
                      \/ cli' \in {"stored", "read"}
               PROVE  \A i \in DOMAIN members :
                        i < ScanStart' /\ status[members[i]] = "CLFREE" =>
                          members[i] \in asked'
    BY <1>1 DEF LastPass
  <2>1. /\ fsm_state' = st /\ moderator_client' = AfterScan
        /\ fsm_state = "MODERATOR_SELECTION_PENDING" /\ already = asked
    BY <1>1
  <2>2. /\ DOMAIN members = 1 .. Len(members) /\ Len(members) \in Nat
    BY MembersAreClients DEF TypeOK
  <2>3. CASE AfterScan = NULL
    <3>1. ScanStart' = 1
      BY <2>1, <2>3 DEF ScanStart
    <3> QED
      BY <2>2, <3>1
  <2>4. CASE AfterScan # NULL
    <3>1. \A i \in DOMAIN members :
            i < ScanStart /\ status[members[i]] = "CLFREE" => members[i] \in asked
      <4>1. group_reachability_index' = group_reachability_index
        BY <1>1, <2>4 DEF PassesLeft
      <4>2. ~overlapped
        BY <1>1 DEF TypeOK
      <4> QED
        BY <1>1, <2>1, <4>1, <4>2 DEF Stable, LastPass
    <3>2. /\ ScanStart + MaxTried \in DOMAIN members
          /\ members[ScanStart + MaxTried] = AfterScan
      BY <2>4, AfterScanPlace
    <3>3. ScanStart' = ScanStart + MaxTried
      <4>1. ScanStart' = CHOOSE i \in DOMAIN members : members[i] = AfterScan
        BY <1>1, <2>1, <2>4 DEF ScanStart
      <4>2. \A i \in DOMAIN members : members[i] = AfterScan => i = ScanStart + MaxTried
        BY <3>2 DEF Stable, Distinct
      <4> QED
        BY <3>2, <4>1, <4>2
    <3>4. \A i \in DOMAIN members :
            i < ScanStart + MaxTried /\ status[members[i]] = "CLFREE" =>
              members[i] \in asked'
      BY <1>1, <2>1, <3>1, ScanAsks
    <3> QED
      BY <3>3, <3>4
  <2> QED
    BY <2>3, <2>4
<1>6. MissedScan'
  <2>1. ScanMissed' => Accepted /\ AfterScan = NULL
    BY <1>1, <1>2, AfterScanPlace DEF ScanMissed, Accepted
  <2> QED
    BY <1>1, <2>1 DEF MissedScan
<1> QED
  BY <1>2, <1>3, <1>4, <1>5, <1>6 DEF Stable

(* Steps that leave the group's nodes alone.                               *)
LEMMA QuietStable ==
  ASSUME Stable,
         UNCHANGED <<members, status, fsm_state, moderator_client,
                     moderator_node, client_node, group_reachability_index,
                     overlapped, task, probed, asked, role>>,
         cli' = cli \/ {cli, cli'} \cap {"pending", "looked", "stored", "read"} = {}
  PROVE  Stable'
<1>1. Distinct' /\ NobodyLost' /\ SelectedIsTold'
  BY DEF Stable, Distinct, NobodyLost, SelectedIsTold, Members
<1>2. ScanStart' = ScanStart
  BY DEF ScanStart
<1>3. LastPass' /\ MissedScan'
  BY <1>2 DEF Stable, LastPass, MissedScan, ScanMissed
<1> QED
  BY <1>1, <1>3 DEF Stable
(* A client that is chosen is told.                                        *)
LEMMA ChosenStable ==
  ASSUME TypeOK, Stable, NEW c \in Members, update_moderator_info(c),
         fsm_state' # "MODERATOR_SELECTION_PENDING",
         UNCHANGED <<task, probed, command>>, cli = "prompt"
  PROVE  Stable'
<1>1. /\ UNCHANGED <<members, registered>> /\ c \in Client
      /\ moderator_client' = c /\ moderator_node' = "allocated"
      /\ status' = [status EXCEPT ![c] = "CLBUSY"]
      /\ role' = role \cup {<<c, task>>}
  BY MembersAreClients DEF update_moderator_info, PointModerator, TypeOK
<1>2. status'[c] = "CLBUSY"
  BY <1>1 DEF TypeOK
<1>3. UNCHANGED <<cli, client_node, overlapped>>
  BY DEF command, locals
<1> QED
  BY <1>1, <1>2, <1>3
     DEF Stable, Distinct, NobodyLost, SelectedIsTold, LastPass, MissedScan,
         ScanMissed, Members

(* A task response sets the moderator free and the scan back to the head.  *)
LEMMA ResponseStable ==
  ASSUME TypeOK, Stable, UNCHANGED <<members, probed, client_node>>,
         PointModerator(NULL), cli' # "looked"
  PROVE  Stable'
<1>1. moderator_client' = NULL /\ moderator_node' = "allocated" /\ ScanStart' = 1
  BY DEF PointModerator, ScanStart
<1>2. Distinct' /\ NobodyLost' /\ SelectedIsTold'
  BY <1>1 DEF Stable, Distinct, NobodyLost, SelectedIsTold, Members
<1>3. LastPass'
  <2>1. \A i \in DOMAIN members : ~ (i < 1)
    <3>1. DOMAIN members = 1 .. Len(members) /\ Len(members) \in Nat
      BY MembersAreClients DEF TypeOK
    <3> QED
      BY <3>1
  <2> QED
    BY <1>1, <2>1 DEF LastPass
<1> QED
  BY <1>2, <1>3 DEF Stable, MissedScan, ScanMissed

(* The steps of the command keep a stable group stable: its scan starts at *)
(* the head when it begins a pass.                                         *)
LEMMA CommandStable ==
  ASSUME Inv, Stable, AssignGoesOn, ~Crash
  PROVE  Stable'
<1>0. TypeOK /\ Structure /\ Reachable # 1
  BY LimitsAssumption DEF Inv
<1>1. ASSUME UNCHANGED <<members, status, moderator_client, moderator_node,
                         client_node, role, probed>>,
             fsm_state' \notin {"MODERATOR_SELECTED", "GROUP_TASK_IN_PROGRESS"}
      PROVE  Distinct' /\ NobodyLost' /\ SelectedIsTold'
  BY <1>1 DEF Stable, Distinct, NobodyLost, SelectedIsTold, Members
<1>2. Accepted => fsm_state \notin {"MODERATOR_SELECTED", "GROUP_TASK_IN_PROGRESS"}
  BY <1>0 DEF Structure, CommandUnderWay
<1>3. CASE AssignPending
  <2>1. Distinct' /\ NobodyLost' /\ SelectedIsTold'
    BY <1>1, <1>3 DEF AssignPending, list, moderator, locals
  <2> QED
    BY <1>3, <2>1 DEF AssignPending, Stable, LastPass, MissedScan, ScanMissed
<1>4. CASE AssignReset
  <2>1. Distinct' /\ NobodyLost' /\ SelectedIsTold'
    BY <1>1, <1>2, <1>4 DEF AssignReset, list, moderator, locals, Accepted
  <2> QED
    BY <1>0, <1>4, <2>1 DEF AssignReset, Stable, LastPass, MissedScan, ScanMissed
<1>5. CASE AssignLook
  <2>1. Distinct' /\ NobodyLost' /\ SelectedIsTold'
    BY <1>1, <1>2, <1>5 DEF AssignLook, list, moderator, locals, Accepted
  <2>2. ~overlapped => group_reachability_index # 1
    BY <1>0, <1>5 DEF AssignLook, Structure, CommandUnderWay
  <2> QED
    BY <1>5, <2>1, <2>2 DEF AssignLook, Stable, LastPass, MissedScan, ScanMissed,
       moderator
<1>6. CASE AssignScan
  <2>1. ~overlapped => group_reachability_index # 1
    BY <1>0, <1>6 DEF AssignScan, Structure, CommandUnderWay
  <2>2. client_node' \in Members \cup {NULL}
    BY <1>0, <1>6, AfterScanPlace DEF AssignScan
  <2>3. probed' \subseteq Members
    <3>1. CASE UNCHANGED probed
      BY <3>1 DEF Stable, NobodyLost
    <3>2. CASE \E P \in Probes : probed' = probed \cup P
      BY <1>0, <3>2, AfterScanPlace DEF Stable, NobodyLost
    <3> QED
      BY <1>6, <3>1, <3>2 DEF AssignScan
  <2>4. Accepted
    BY <1>6 DEF AssignScan, Accepted
  <2>5. /\ UNCHANGED <<members, status, moderator_client, moderator_node, role,
                       fsm_state, group_reachability_index, overlapped>>
        /\ cli' = "scanned"
    BY <1>6 DEF AssignScan, list, moderator
  <2>6. Distinct' /\ NobodyLost'
    BY <2>2, <2>3, <2>5 DEF Stable, Distinct, NobodyLost, Members
  <2> QED
    BY <1>2, <2>1, <2>4, <2>5, <2>6 DEF Stable, SelectedIsTold, LastPass,
       MissedScan, ScanMissed
<1>7. CASE AssignStore
  <2>1. ~overlapped => group_reachability_index # 1
    BY <1>0, <1>7 DEF AssignStore, Structure, CommandUnderWay
  <2>2. Accepted
    BY <1>7 DEF AssignStore, Accepted
  <2>3. /\ UNCHANGED <<members, status, role, probed, fsm_state, asked,
                       group_reachability_index, overlapped>>
        /\ moderator_client' = client_node /\ moderator_node' = "allocated"
        /\ client_node' = NULL
        /\ cli' = IF client_node = NULL THEN "stored" ELSE "starting"
    BY <1>7 DEF AssignStore, list, PointModerator
  <2>4. Distinct' /\ NobodyLost' /\ SelectedIsTold' /\ MissedScan'
    BY <1>2, <2>2, <2>3 DEF Stable, Distinct, NobodyLost, SelectedIsTold,
       MissedScan, ScanMissed, Members
  <2>5. CASE client_node = NULL
    <3>1. ScanStart' = 1
      BY <2>3, <2>5 DEF ScanStart
    <3>2. DOMAIN members = 1 .. Len(members) /\ Len(members) \in Nat
      BY <1>0, MembersAreClients DEF TypeOK
    <3>3. LastPass'
      BY <2>3, <3>1, <3>2 DEF LastPass
    <3> QED
      BY <2>4, <3>3 DEF Stable
  <2>6. CASE client_node # NULL
    BY <2>1, <2>3, <2>4, <2>6 DEF Stable, LastPass
  <2> QED
    BY <2>5, <2>6
<1>8. CASE AssignRead
  <2>1. /\ UNCHANGED <<members, status, role, probed, fsm_state, asked,
                       moderator_client, moderator_node, client_node,
                       group_reachability_index, overlapped>>
        /\ cli = "stored" /\ cli' = "read"
    BY <1>8 DEF AssignRead, list, moderator
  <2>2. Distinct' /\ NobodyLost' /\ SelectedIsTold'
    BY <1>1, <1>2, <2>1 DEF Accepted
  <2>3. ScanStart' = ScanStart
    BY <2>1 DEF ScanStart
  <2> QED
    BY <2>1, <2>2, <2>3 DEF Stable, LastPass, MissedScan, ScanMissed
<1>9. CASE AssignWrite
  <2>1. /\ UNCHANGED <<members, status, role, probed, fsm_state, asked,
                       moderator_client, moderator_node, client_node, overlapped>>
        /\ cli = "read" /\ cli' = "written"
    BY <1>9 DEF AssignWrite, list, moderator
  <2>2. Distinct' /\ NobodyLost' /\ SelectedIsTold'
    BY <1>1, <1>2, <2>1 DEF Accepted
  <2>3. ScanStart' = ScanStart
    BY <2>1 DEF ScanStart
  <2> QED
    BY <2>1, <2>2, <2>3 DEF Stable, LastPass, MissedScan, ScanMissed
<1>10. CASE AssignTest
  BY <1>10, QuietStable DEF AssignTest, list, moderator, locals
<1>11. CASE AssignGiveUp
  <2>1. /\ UNCHANGED <<members, probed, client_node>> /\ PointModerator(NULL)
        /\ cli' # "looked"
    BY <1>11 DEF AssignGiveUp, set_group_available, list, locals
  <2> QED
    BY <1>0, <2>1, ResponseStable
<1>12. CASE AssignTimer
  BY <1>12, QuietStable DEF AssignTimer, list, moderator, locals
<1>13. CASE AssignSet
  BY <1>13, QuietStable DEF AssignSet, list, moderator, locals
<1> QED
  BY <1>3, <1>4, <1>5, <1>6, <1>7, <1>8, <1>9, <1>10, <1>11, <1>12, <1>13
  DEF AssignGoesOn

(* Without joins and leaves, every step keeps the group stable.            *)
LEMMA StableNext ==
  ASSUME MaxChurn = 0, Inv, Stable, [Next]_vars
  PROVE  Stable'
<1>0. TypeOK /\ Structure
  BY DEF Inv
<1>1. CASE Crash
  BY <1>1, QuietStable DEF Crash, list, moderator, command, locals
<1>2. CASE AssignCheck \/ TimeoutIgnored \/ HeartbeatMissed
  BY <1>2, QuietStable DEF AssignCheck, AtEpoll, TimeoutIgnored, HeartbeatMissed,
     list, moderator, command, locals
<1>3. CASE AssignGoesOn /\ ~ Crash
  BY <1>3, CommandStable
<1>4. CASE SelTimeout /\ ~ Crash
  <2>1. /\ moderator_selection(fsm_state, timer_id, asked)
        /\ fsm_state \in Selecting \cup {"STATE_NONE"}
    BY <1>0, <1>4 DEF SelTimeout, Structure, TimerEndsWithItsState
  <2> QED
    BY <1>0, <2>1, SelectionStable
<1>5. CASE ModeratorSilent /\ ~ Crash
  <2>1. /\ moderator_selection(StateAfterSilence, "0", {})
        /\ timer_id # "0" /\ fsm_state \in {"MODERATOR_SELECTED", "GROUP_TASK_IN_PROGRESS"}
    BY <1>5 DEF ModeratorSilent
  <2>2. StateAfterSilence = "TASK_IN_PROGRESS_MOD_SEL_PEND"
    BY <1>0, <2>1 DEF Structure, NoTimerWhenSelected, StateAfterSilence
  <2>3. "TASK_IN_PROGRESS_MOD_SEL_PEND" \in Selecting \cup {"STATE_NONE"}
    BY DEF Selecting
  <2>4. moderator_selection("TASK_IN_PROGRESS_MOD_SEL_PEND", "0", {})
    BY <2>1, <2>2
  <2> QED
    BY <1>0, <2>3, <2>4, SelectionStable
<1>6. ASSUME NEW c \in Client, RcvEchoRsp(c), ~ Crash
      PROVE  Stable'
  <2>1. c \in Members
    BY <1>6 DEF RcvEchoRsp, Stable, NobodyLost
  <2>2. /\ update_moderator_info(c) /\ fsm_state' = "MODERATOR_SELECTED"
        /\ UNCHANGED <<task, probed, command>> /\ cli = "prompt"
    BY <1>6, <2>1 DEF RcvEchoRsp, AtEpoll
  <2> QED
    BY <1>0, <2>1, <2>2, ChosenStable
<1>7. ASSUME NEW c \in Client, RcvEchoRspFailover(c), ~ Crash
      PROVE  Stable'
  <2>1. c \in Members
    BY <1>7 DEF RcvEchoRspFailover, Stable, NobodyLost
  <2>2. /\ update_moderator_info(c) /\ fsm_state' = "GROUP_TASK_IN_PROGRESS"
        /\ UNCHANGED <<task, probed, command>> /\ cli = "prompt"
    BY <1>7, <2>1 DEF RcvEchoRspFailover, AtEpoll
  <2> QED
    BY <1>0, <2>1, <2>2, ChosenStable
<1>8. ASSUME NEW c \in Client, RcvNotifyRsp(c), ~ Crash
      PROVE  Stable'
  <2>1. /\ fsm_state = "MODERATOR_SELECTED" /\ fsm_state' = "GROUP_TASK_IN_PROGRESS"
        /\ UNCHANGED <<members, status, moderator_client, moderator_node,
                       group_reachability_index, task, probed, asked, role,
                       cli, client_node, overlapped>>
    BY <1>8 DEF RcvNotifyRsp, list, moderator, command, locals
  <2> QED
    BY <2>1 DEF Stable, Distinct, NobodyLost, SelectedIsTold, LastPass, Members,
       MissedScan, ScanMissed
<1>9. ASSUME NEW c \in Client, NEW t \in Tasks, RcvTaskRsp(c, t), ~ Crash
      PROVE  Stable'
  <2>1. /\ UNCHANGED <<members, probed, client_node>> /\ PointModerator(NULL)
        /\ cli' # "looked"
    BY <1>9 DEF RcvTaskRsp, set_group_available, command, locals, AtEpoll
  <2> QED
    BY <1>0, <2>1, ResponseStable
<1>10. ASSUME NEW c \in Client, RcvEchoReq(c), ~ Crash
       PROVE  Stable'
  BY <1>10, QuietStable DEF RcvEchoReq, list, moderator, command, locals
<1>11. ASSUME NEW c \in Client, Join(c) \/ Leave(c)
       PROVE  FALSE
  BY <1>0, <1>11 DEF Join, Leave, TypeOK
<1>12. ASSUME NEW c \in Client, Die(c)
       PROVE  Stable'
  BY <1>12, QuietStable DEF Die, list, moderator, command, locals
<1>13. CASE UNCHANGED vars
  BY <1>13, QuietStable DEF vars
<1> QED
  BY <1>1, <1>2, <1>3, <1>4, <1>5, <1>6, <1>7, <1>8, <1>9, <1>10, <1>11, <1>12, <1>13
     DEF Next

LEMMA StableAlways ==
  ASSUME MaxChurn = 0
  PROVE  Spec => []Stable
<1>1. Init => Stable
  <2> SUFFICES ASSUME Init
               PROVE  Stable
    OBVIOUS
  <2>1. Distinct
    BY DEF Init, Distinct
  <2> QED
    BY <2>1 DEF Init, Stable, NobodyLost, SelectedIsTold, LastPass, MissedScan,
       ScanMissed
<1>2. Inv /\ Stable /\ [Next]_vars => Stable'
  BY StableNext
<1> QED
  BY <1>1, <1>2, InvAlways, PTL DEF Spec

(* While nobody joins or leaves, the client whose heartbeats the server    *)
(* counts during a task is in the group, busy, and was told that it is the *)
(* moderator of this very task, for any number of clients and tasks and    *)
(* whoever dies (update_moderator_info, send_new_moderator_info).          *)
THEOREM MonitoredTold ==
  ASSUME MaxChurn = 0
  PROVE  Spec => []MonitoredModeratorIsTold
<1>1. Stable => MonitoredModeratorIsTold
  BY DEF Stable, SelectedIsTold, NobodyLost, MonitoredModeratorIsTold
<1> QED
  BY <1>1, StableAlways, PTL

(* A step that finds a group unreachable has asked every free member.      *)
LEMMA UnreachableStep ==
  ASSUME MaxChurn = 0, Inv, Stable, Next, NEW t \in Tasks,
         phase[t] = "selecting", phase'[t] = "unreachable"
  PROVE  FreeMembers \subseteq asked' \/ overlapped'
<1> SUFFICES ASSUME ~overlapped'
             PROVE  FreeMembers \subseteq asked'
  OBVIOUS
<1>0. TypeOK /\ Structure /\ phase \in [Tasks -> Phases]
  BY DEF Inv, TypeOK, Phases
<1>1. ~ Crash
  BY DEF Crash
<1>2. ~ (AssignCheck \/ TimeoutIgnored \/ HeartbeatMissed)
  BY DEF AssignCheck, TimeoutIgnored, HeartbeatMissed
<1>3. ~ AssignGoesOn
  <2>1. ~ AssignPending
    BY DEF AssignPending, PhaseAfterAccept
  <2>2. ~ AssignGiveUp
    <3> SUFFICES ASSUME AssignGiveUp
                 PROVE  FALSE
      OBVIOUS
    <3>1. cli = "giving up" /\ overlapped' = overlapped
      BY <1>1 DEF AssignGiveUp
    <3>2. overlapped
      BY <1>0, <3>1 DEF Structure, CommandUnderWay
    <3> QED
      BY <3>1, <3>2
  <2>3. ~ \/ AssignReset \/ AssignLook \/ AssignScan \/ AssignStore
          \/ AssignRead \/ AssignWrite \/ AssignTest \/ AssignTimer
          \/ AssignSet
    BY <1>1 DEF AssignReset, AssignLook, AssignScan, AssignStore, AssignRead,
       AssignWrite, AssignTest, AssignTimer, AssignSet
  <2> QED
    BY <2>1, <2>2, <2>3 DEF AssignGoesOn
<1>4. \A c \in Client : ~ (RcvEchoRsp(c) \/ RcvEchoRspFailover(c) \/ RcvEchoReq(c)
                            \/ Join(c) \/ Leave(c) \/ Die(c))
  BY <1>1 DEF RcvEchoRsp, RcvEchoRspFailover, RcvEchoReq, Join, Leave, Die
<1>5. \A c \in Client : ~ RcvNotifyRsp(c)
  BY <1>0, <1>1 DEF RcvNotifyRsp
<1>6. \A c \in Client, u \in Tasks : ~ RcvTaskRsp(c, u)
  BY <1>0, <1>1 DEF RcvTaskRsp
<1>7. ~ ModeratorSilent
  <2> SUFFICES ASSUME ModeratorSilent
               PROVE  FALSE
    OBVIOUS
  <2>1. /\ timer_id = "MOD_RSP_TIMEOUT"
        /\ fsm_state \in {"MODERATOR_SELECTED", "GROUP_TASK_IN_PROGRESS"}
        /\ phase' = phase \/ phase' = [phase EXCEPT ![task] = "unreachable"]
    BY <1>1 DEF ModeratorSilent, moderator_selection
  <2>2. t = task /\ task > 0
    BY <1>0, <2>1, NumTasksAssumption DEF Tasks
  <2>3. fsm_state = "GROUP_TASK_IN_PROGRESS"
    BY <1>0, <2>1 DEF Structure, NoTimerWhenSelected
  <2> QED
    BY <1>0, <2>2, <2>3 DEF Structure, PhaseMatchesFsm
<1>8. SelTimeout
  BY <1>1, <1>2, <1>3, <1>4, <1>5, <1>6, <1>7 DEF Next
<1>9. /\ moderator_selection(fsm_state, timer_id, asked)
      /\ fsm_state \in Selecting \cup {"STATE_NONE"}
  BY <1>0, <1>1, <1>8 DEF SelTimeout, Structure, TimerEndsWithItsState
<1>10. /\ GivesUp(group_reachability_index)
       /\ phase' = [phase EXCEPT ![task] = "unreachable"]
       /\ AfterScan = NULL
       /\ ~overlapped /\ ~Accepted
  BY <1>9 DEF moderator_selection, GivesUp
<1>11. t = task /\ task > 0
  BY <1>0, <1>10, NumTasksAssumption DEF Tasks
<1>12. fsm_state = "MODERATOR_SELECTION_PENDING"
  BY <1>0, <1>9, <1>11 DEF Structure, PhaseMatchesFsm, Selecting
<1>13. group_reachability_index = 1 /\ AfterScan = NULL /\ cli # "pending"
  <2>1. cli # "pending"
    BY <1>10 DEF Accepted
  <2>2. group_reachability_index \in 1 .. Reachable
    BY <1>0, <1>10, <1>12, <2>1 DEF Structure, SelectionBudget
  <2> QED
    BY <1>10, <2>1, <2>2, LimitsAssumption DEF GivesUp, PassesLeft, Dec8
<1>14. \A i \in DOMAIN members :
         i < ScanStart /\ status[members[i]] = "CLFREE" => members[i] \in asked
  BY <1>10, <1>12, <1>13 DEF Stable, LastPass
<1>15. \A i \in DOMAIN members :
         i < ScanStart + MaxTried /\ status[members[i]] = "CLFREE" =>
           members[i] \in asked'
  <2>1. \E P \in Probes : asked' = asked \cup P
    BY <1>9 DEF moderator_selection
  <2> QED
    BY <1>0, <1>14, <2>1, ScanAsks
<1>16. \A i \in DOMAIN members : i < ScanStart + MaxTried
  BY <1>0, <1>13, AfterScanPlace
<1> QED
  BY <1>15, <1>16 DEF FreeMembers, Members

(* While nobody joins or leaves, a group that has not begun its task is    *)
(* found unreachable only when every free member was asked since the task  *)
(* was accepted, wherever the passes started, whatever task responses came *)
(* in between and however long the list, unless a timer's handler has      *)
(* ended a pass inside assign_task (moderator_selection, assign_task).     *)
THEOREM AllAsked ==
  ASSUME MaxChurn = 0
  PROVE  Spec => UnreachableOnlyIfAllAsked
<1>1. Inv /\ Stable /\ [Next]_vars =>
        [\A t \in Tasks : phase[t] = "selecting" /\ phase'[t] = "unreachable"
           => FreeMembers \subseteq asked' \/ overlapped']_vars
  BY UnreachableStep
<1> QED
  BY <1>1, InvAlways, StableAlways, PTL DEF Spec, UnreachableOnlyIfAllAsked
=============================================================================
