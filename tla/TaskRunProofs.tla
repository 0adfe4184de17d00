---------------------------- MODULE TaskRunProofs ----------------------------
(***************************************************************************)
(* Proofs about TaskRun for any number of clients, whatever the faults and *)
(* however many of them: that heartbeats end, that a moderator that was    *)
(* replaced is told, that the one that is followed acts, and that a result *)
(* in files is complete.                                                   *)
(***************************************************************************)
EXTENDS TaskRunTypes

----------------------------------------------------------------------------
(* What a step of the server tells the group.                              *)
ServerStep ==
  RcvReport \/ RcvDead \/ RcvAnswer \/ ModeratorSilent
  \/ \E c \in Client : NewModerator(c)

TellsTask ==
  \E t \in Mail(Client) :
    /\ t.type = "task" /\ (t.again \/ Len(t.ids) = expected')
    /\ Multicast(<<t>>) /\ fsm_state' = "running" /\ UNCHANGED moderator_client
    /\ fsm_state \in {"selected", "running"}
    /\ expected' = expected \/ fsm_state = "selected"

TellsModerator ==
  \E c \in Client :
    /\ Takeover(c) \in Seq(Mail(Client)) /\ Len(Takeover(c)) = 2
    /\ Takeover(c)[1].type = "update" /\ Takeover(c)[1].mod = c
    /\ Takeover(c)[1].expected = expected
    /\ Takeover(c)[2].type = "task" /\ Takeover(c)[2].again = TRUE
    /\ Multicast(Takeover(c)) /\ moderator_client' = c /\ UNCHANGED expected
    /\ fsm_state = "searching" /\ fsm_state' = "running"

TellsNothing ==
  /\ UNCHANGED <<inbox, expected>>
  /\ \/ fsm_state' \in {"searching", "done", "ended"}
     \/ fsm_state' = fsm_state /\ UNCHANGED moderator_client
     \/ RcvAnswer /\ fsm_state' = fsm_state /\ fsm_state # "running"

(* Every step of the server is of one of these kinds, and leaves the       *)
(* clients alone.                                                          *)
LEMMA ServerTells ==
  ASSUME Types(Client), ServerStep
  PROVE  /\ UNCHANGED <<clients, alive>>
         /\ TellsTask \/ TellsModerator \/ TellsNothing
<1>1. CASE RcvReport /\ fsm_state = "selected"
  <2>1. PICK s \in Seq(Client) :
          expected' = Len(s) /\ Multicast(<<TaskRequest(s, s, FALSE)>>)
    BY <1>1, ReportTypes
  <2> DEFINE t == TaskRequest(s, s, FALSE)
  <2>2. t \in Mail(Client) /\ t.type = "task" /\ t.ids = s
    <3>1. s \in Seq(Ids)
      BY DEF Ids
    <3>2. t \in Tasks(Client)
      BY <3>1 DEF TaskRequest, Tasks
    <3> QED
      BY <3>2 DEF TaskRequest, Mail
  <2>3. UNCHANGED <<clients, alive, moderator_client>> /\ fsm_state' = "running"
    BY <1>1 DEF RcvReport, environment
  <2> HIDE DEF t
  <2>4. TellsTask
    BY <1>1, <2>1, <2>2, <2>3 DEF TellsTask, t
  <2> QED
    BY <2>3, <2>4
<1>2. CASE RcvReport /\ fsm_state # "selected"
  BY <1>2 DEF RcvReport, TellsNothing, environment
<1>3. CASE RcvDead
  <2>1. PICK d \in BagToSet(net) :
          LET i == Entry(map, working, d.data)
              m == mark_dead_clients_in_group(map, working, d.data)
          IN \/ UNCHANGED <<server, clients, inbox>>
             \/ /\ i \in DOMAIN map
                /\ ~RetransmitFails(m, working - 1, moderator_client, map[i].files)
                /\ Multicast(<<Retransmission(m, working - 1, moderator_client,
                                              map[i].files)>>)
                /\ fsm_state = "running"
                /\ UNCHANGED <<fsm_state, moderator_client, expected,
                               dead_files, result, clbusy, clients>>
             \/ ServerEnds
    BY <1>3 DEF RcvDead
  <2> DEFINE i == Entry(map, working, d.data)
             m == mark_dead_clients_in_group(map, working, d.data)
             t == Retransmission(m, working - 1, moderator_client, map[i].files)
  <2>2. UNCHANGED alive
    BY <1>3 DEF RcvDead, environment
  <2>3. CASE UNCHANGED <<server, clients, inbox>>
    BY <2>2, <2>3 DEF TellsNothing, server
  <2>4. CASE ServerEnds
    BY <2>2, <2>4 DEF TellsNothing, ServerEnds
  <2>5. CASE /\ i \in DOMAIN map
             /\ ~RetransmitFails(m, working - 1, moderator_client, map[i].files)
             /\ Multicast(<<t>>) /\ fsm_state = "running"
             /\ UNCHANGED <<fsm_state, moderator_client, expected,
                            dead_files, result, clbusy, clients>>
    <3>0. map \in Seq(Entries(Client)) /\ working \in Int /\ working <= Len(map)
      BY DEF Types, ServerTypes
    <3>1. m \in Seq(Entries(Client)) /\ Len(m) = Len(map)
      BY <3>0, MarkDeadType
    <3>2. map[i].files \in Seq(Client)
      <4> HIDE DEF i
      <4>1. map[i] \in Entries(Client)
        BY <2>5, <3>0
      <4> QED
        BY <4>1 DEF Entries
    <3>3. t \in Mail(Client) /\ t.type = "task" /\ t.again = TRUE
      <4> HIDE DEF m, i
      <4> DEFINE n == working - 1
                 parts == map[i].files
      <4>1. n \in Int /\ n <= Len(m) /\ parts \in Seq(Client)
        BY <3>0, <3>1, <3>2
      <4>2. ~RetransmitFails(m, n, moderator_client, parts)
        BY <2>5
      <4> HIDE DEF n, parts
      <4>3. LET r == Retransmission(m, n, moderator_client, parts)
            IN  r \in Mail(Client) /\ r.type = "task" /\ r.again = TRUE
        BY <3>1, <4>1, <4>2, RetransmissionType
      <4> QED
        BY <4>3 DEF n, parts
    <3> HIDE DEF t
    <3> QED
      BY <2>2, <2>5, <3>3 DEF TellsTask
  <2> HIDE DEF i, m
  <2> QED
    BY <2>1, <2>3, <2>4, <2>5 DEF i, m
<1>4. CASE RcvAnswer
  BY <1>4 DEF RcvAnswer, TellsNothing, environment
<1>5. CASE ModeratorSilent
  BY <1>5 DEF ModeratorSilent, ServerEnds, TellsNothing
<1>6. ASSUME NEW c \in Client, NewModerator(c)
      PROVE  UNCHANGED <<clients, alive>> /\ (TellsModerator \/ TellsNothing)
  <2>1. CASE ServerEnds
    BY <1>6, <2>1 DEF NewModerator, ServerEnds, TellsNothing, environment
  <2>2. CASE ~ServerEnds
    <3>1. /\ fsm_state = "searching" /\ ~RetransmitFails(map, working, c, dead_files)
          /\ fsm_state' = "running" /\ moderator_client' = c
          /\ Multicast(Takeover(c)) /\ UNCHANGED expected
          /\ UNCHANGED <<clients, alive>>
      BY <1>6, <2>2 DEF NewModerator, environment
    <3>2. /\ Takeover(c) \in Seq(Mail(Client)) /\ Len(Takeover(c)) = 2
          /\ Takeover(c)[1].type = "update" /\ Takeover(c)[1].mod = c
          /\ Takeover(c)[1].expected = expected
          /\ Takeover(c)[2].type = "task" /\ Takeover(c)[2].again = TRUE
      BY <3>1, TakeoverType
    <3>3. TellsModerator
      BY <3>1, <3>2 DEF TellsModerator
    <3> QED
      BY <3>1, <3>3
  <2> QED
    BY <2>1, <2>2
<1> QED
  BY <1>1, <1>2, <1>3, <1>4, <1>5, <1>6 DEF ServerStep

(* A process that dies or fails ends.                                      *)
LEMMA Endings ==
  ASSUME NEW c, Die(c) \/ DeletionFails(c) \/ StartFails(c)
  PROVE  Ended(c)
  BY DEF Die, DeletionFails, StartFails

(* The clients and the network leave the server alone.                     *)
LEMMA ServerOrNot ==
  ASSUME Next
  PROVE  UNCHANGED server \/ ServerStep
<1>1. ASSUME NEW c \in Client, Ended(c)
      PROVE  UNCHANGED server
  BY <1>1 DEF Ended
<1>2. ASSUME NEW c \in Client,
             \/ RcvNotify(c) \/ RcvHello(c) \/ RcvTask(c) \/ RcvUpdate(c)
             \/ RcvResult(c) \/ NotifyTimeout(c) \/ NotifyTimeoutIgnored(c)
             \/ Monitor(c) \/ ForceCleanup(c) \/ LoseMulticast(c)
             \/ \E m \in Client : Heartbeat(c, m)
      PROVE  UNCHANGED server
  BY <1>2 DEF RcvNotify, RcvHello, RcvTask, RcvUpdate, RcvResult, NotifyTimeout,
     NotifyTimeoutIgnored, Monitor, ForceCleanup, LoseMulticast, Heartbeat
<1>3. ASSUME NEW w \in workers,
             \/ WorkerCounts(w) \/ WorkerChecks(w) \/ WorkerStopsTimer(w)
             \/ WorkerReports(w) \/ WorkerCaches(w) \/ FetchFails(w)
      PROVE  UNCHANGED server
  BY <1>3 DEF WorkerCounts, WorkerChecks, WorkerStopsTimer, WorkerReports,
     WorkerCaches, FetchFails, Ended
<1>4. ASSUME NEW d \in BagToSet(net), LoseDatagram(d)
      PROVE  UNCHANGED server
  BY <1>4 DEF LoseDatagram
<1> QED
  BY <1>1, <1>2, <1>3, <1>4, Endings DEF Next, ServerStep

(* Where a datagram of an inbox comes from after the server has spoken.    *)
LEMMA MulticastFrom ==
  ASSUME Types(Client), NEW ms \in Seq(Mail(Client)), Multicast(ms), NEW c \in Client
  PROVE  /\ inbox[c] \in Seq(Mail(Client)) /\ inbox'[c] \in Seq(Mail(Client))
         /\ c \in alive =>
              /\ Len(inbox'[c]) = Len(inbox[c]) + Len(ms)
              /\ \A i \in 1 .. Len(inbox[c]) : inbox'[c][i] = inbox[c][i]
              /\ \A i \in 1 .. Len(ms) : inbox'[c][Len(inbox[c]) + i] = ms[i]
         /\ c \notin alive => inbox'[c] = <<>>
         /\ \A i \in DOMAIN inbox'[c] :
              \/ i \in DOMAIN inbox[c] /\ inbox'[c][i] = inbox[c][i]
              \/ \E j \in 1 .. Len(ms) : i = Len(inbox[c]) + j /\ inbox'[c][i] = ms[j]
<1>1. inbox[c] \in Seq(Mail(Client))
  BY DEF Types, MailTypes
<1>2. inbox'[c] = IF c \in alive THEN inbox[c] \o ms ELSE <<>>
  BY DEF Multicast
<1>3. CASE c \notin alive
  <2>1. <<>> \in Seq(Mail(Client)) /\ DOMAIN <<>> = {}
    OBVIOUS
  <2> QED
    BY <1>1, <1>2, <1>3, <2>1
<1>4. CASE c \in alive
  <2>1. inbox'[c] = inbox[c] \o ms
    BY <1>2, <1>4
  <2>2. inbox'[c] \in Seq(Mail(Client)) /\ Len(inbox'[c]) = Len(inbox[c]) + Len(ms)
    BY <1>1, <2>1
  <2>3. \A i \in 1 .. Len(inbox[c]) : inbox'[c][i] = inbox[c][i]
    BY <1>1, <2>1
  <2>4. \A i \in 1 .. Len(ms) : inbox'[c][Len(inbox[c]) + i] = ms[i]
    BY <1>1, <2>1
  <2>5. \A i \in DOMAIN inbox'[c] :
              \/ i \in DOMAIN inbox[c] /\ inbox'[c][i] = inbox[c][i]
              \/ \E j \in 1 .. Len(ms) : i = Len(inbox[c]) + j /\ inbox'[c][i] = ms[j]
    <3>1. ASSUME NEW i \in 1 .. Len(inbox[c]) + Len(ms), i \notin 1 .. Len(inbox[c])
          PROVE  i - Len(inbox[c]) \in 1 .. Len(ms)
                 /\ i = Len(inbox[c]) + (i - Len(inbox[c]))
      BY <1>1, <3>1
    <3>2. DOMAIN inbox'[c] = 1 .. Len(inbox[c]) + Len(ms)
          /\ DOMAIN inbox[c] = 1 .. Len(inbox[c])
      BY <1>1, <2>2
    <3>3. ASSUME NEW i \in DOMAIN inbox'[c], i \notin DOMAIN inbox[c]
          PROVE  \E j \in 1 .. Len(ms) : i = Len(inbox[c]) + j /\ inbox'[c][i] = ms[j]
      <4>1. i - Len(inbox[c]) \in 1 .. Len(ms) /\ i = Len(inbox[c]) + (i - Len(inbox[c]))
        BY <3>1, <3>2, <3>3
      <4> QED
        BY <2>4, <4>1
    <3> QED
      BY <2>3, <3>2, <3>3
  <2> QED
    BY <1>1, <1>4, <2>2, <2>3, <2>4, <2>5
<1> QED
  BY <1>3, <1>4

(* Steps of a moderator change nothing but its role, and start none.       *)
LEMMA RoleSteps ==
  ASSUME Types(Client), NEW m \in Client,
         \/ RcvHello(m) \/ NotifyTimeout(m) \/ NotifyTimeoutIgnored(m)
         \/ Monitor(m) \/ RcvResult(m) \/ ForceCleanup(m)
         \/ \E c \in Client : Heartbeat(c, m)
  PROVE  /\ UNCHANGED <<server, moderator, heartbeats, cached, workers, inbox, alive, missed>>
         /\ \A e \in Client : IsModerator(e)' => IsModerator(e)
<1>1. UNCHANGED <<server, moderator, heartbeats, cached, workers, inbox, alive, missed>>
  BY DEF RcvHello, NotifyTimeout, NotifyTimeoutIgnored, Monitor, RcvResult,
     ForceCleanup, Heartbeat, environment
<1>2. (\E r : IsModerator(m) /\ role' = [role EXCEPT ![m] = r]) \/ UNCHANGED role
  <2>1. CASE RcvHello(m)
    BY <2>1 DEF RcvHello, Reports
  <2>2. CASE NotifyTimeout(m) \/ ForceCleanup(m)
    BY <2>2 DEF NotifyTimeout, ForceCleanup, Reports, Answers
  <2>3. CASE NotifyTimeoutIgnored(m)
    <3>1. [role EXCEPT ![m].timer = "expired"]
            = [role EXCEPT ![m] = [role[m] EXCEPT !.timer = "expired"]]
      BY Zenon
    <3> QED
      BY <2>3, <3>1 DEF NotifyTimeoutIgnored
  <2>4. CASE Monitor(m)
    <3>1. IsModerator(m) /\ \E p : role' = [role EXCEPT ![m].pending = p]
      BY <2>4 DEF Monitor
    <3>2. \A p : [role EXCEPT ![m].pending = p]
                   = [role EXCEPT ![m] = [role[m] EXCEPT !.pending = p]]
      BY Zenon
    <3> QED
      BY <3>1, <3>2
  <2>5. CASE RcvResult(m)
    BY <2>5 DEF RcvResult, CollectsFrom, Answers
  <2>6. CASE \E c \in Client : Heartbeat(c, m)
    BY <2>6 DEF Heartbeat
  <2> QED
    BY <2>1, <2>2, <2>3, <2>4, <2>5, <2>6
<1>3. \A e \in Client : IsModerator(e)' => IsModerator(e)
  BY <1>2, RoleSet DEF IsModerator
<1> QED
  BY <1>1, <1>3

----------------------------------------------------------------------------
(* Heartbeats.  The count of a client that is not disturbed is that of its *)
(* threads at work; a moderator sends no heartbeats, a client whose timer  *)
(* runs has threads counted or one that is going to stop it, and one that  *)
(* has yet to take the notification has neither timer nor tasks.           *)
Working(c) == {w \in workers : w.by = c /\ w.pc = "working"}
Stopping(c) == \E w \in workers : w.by = c /\ w.pc \in {"counted", "stopping"}
BeatsWell(c) ==
  /\ pending_task_count[c] = Cardinality(Working(c)) /\ c \notin stray
  /\ timer_id[c] = "armed" => ~IsModerator(c) /\ (Busy(c) \/ Stopping(c))
Idle(c) == timer_id[c] # "armed" /\ ~Busy(c)
NotifiedFirst(c) ==
  \A i \in DOMAIN inbox[c] : inbox[c][i].type = "notify" => i = 1 /\ Idle(c)
HeartbeatsOf(c) ==
  /\ c \in alive \ disturbed => BeatsWell(c)
  /\ NotifiedFirst(c)

(* What a client has of its heartbeats.                                    *)
BeatsKept(c) ==
  /\ pending_task_count'[c] = pending_task_count[c] /\ timer_id'[c] = timer_id[c]
  /\ (c \in stray' => c \in stray) /\ (c \in disturbed => c \in disturbed')

(* What a step may do to the heartbeats of a client.                       *)
LEMMA HeartbeatsKept ==
  ASSUME NEW c, HeartbeatsOf(c), BeatsKept(c), c \in alive' => c \in alive,
         IsModerator(c)' => IsModerator(c),
         Working(c)' = Working(c), Stopping(c) => Stopping(c)',
         \A i \in DOMAIN inbox'[c] :
           inbox'[c][i].type = "notify" =>
             i \in DOMAIN inbox[c] /\ inbox[c][i].type = "notify"
  PROVE  HeartbeatsOf(c)'
<1>1. BeatsWell(c) => BeatsWell(c)'
  BY DEF BeatsWell, BeatsKept, Busy
<1>2. NotifiedFirst(c)'
  BY DEF HeartbeatsOf, NotifiedFirst, BeatsKept, Idle, Busy
<1> QED
  BY <1>1, <1>2 DEF HeartbeatsOf, BeatsKept

(* Steps that leave all heartbeats and threads alone.                      *)
LEMMA BeatsUntouched ==
  ASSUME UNCHANGED heartbeats, UNCHANGED workers
  PROVE  \A c : BeatsKept(c) /\ Working(c)' = Working(c) /\ (Stopping(c) => Stopping(c)')
  BY DEF heartbeats, BeatsKept, Working, Stopping

(* The notification is the first datagram: behind it there is none.        *)
LEMMA TookNoNotify ==
  ASSUME Types(Client), NEW c \in Client, HeartbeatsOf(c), HasMail(c)
  PROVE  \A i \in DOMAIN Took(c)[c] : Took(c)[c][i].type # "notify"
<1>1. inbox[c] \in Seq(Mail(Client)) /\ inbox[c] # <<>>
  BY DEF Types, MailTypes, HasMail
<1>2. Took(c)[c] = Tail(inbox[c])
  BY TookType
<1>3. \A i \in DOMAIN Tail(inbox[c]) :
        i + 1 \in DOMAIN inbox[c] /\ i + 1 # 1 /\ Tail(inbox[c])[i] = inbox[c][i + 1]
  BY <1>1
<1> QED
  BY <1>2, <1>3 DEF HeartbeatsOf, NotifiedFirst

(* A thread moves on, or is over: those of the other clients do not.       *)
LEMMA OtherThreads ==
  ASSUME Types(Client), NEW w \in workers, NEW pc,
         Moves(w, pc) \/ workers' = workers \ {w}, NEW c, c # w.by
  PROVE  Working(c)' = Working(c) /\ (Stopping(c) => Stopping(c)')
<1>1. w \in Worker
  BY DEF Types, WorkerTypes
<1> DEFINE u == [w EXCEPT !.pc = pc]
<1>2. u.by = w.by
  BY <1>1 DEF Worker
<1>3. workers' = (workers \ {w}) \cup {u} \/ workers' = workers \ {w}
  BY DEF Moves
<1> HIDE DEF u
<1> QED
  BY <1>2, <1>3 DEF Working, Stopping

(* A thread of a client that was not at work moves on.                     *)
LEMMA MovesOn ==
  ASSUME Types(Client), NEW w \in workers, w.pc # "working",
         NEW pc, pc # "working", Moves(w, pc)
  PROVE  /\ Working(w.by)' = Working(w.by)
         /\ pc \in {"counted", "stopping"} => Stopping(w.by)'
         /\ w.pc \notin {"counted", "stopping"} => (Stopping(w.by) => Stopping(w.by)')
<1>1. w \in Worker
  BY DEF Types, WorkerTypes
<1> DEFINE u == [w EXCEPT !.pc = pc]
<1>2. u.by = w.by /\ u.pc = pc
  BY <1>1 DEF Worker
<1>3. workers' = (workers \ {w}) \cup {u}
  BY DEF Moves
<1> HIDE DEF u
<1> QED
  BY <1>2, <1>3 DEF Working, Stopping

(* A thread counts itself down.                                            *)
LEMMA MovesDown ==
  ASSUME Types(Client), NEW w \in workers, w.pc = "working", Moves(w, "counted")
  PROVE  /\ Cardinality(Working(w.by)') = Cardinality(Working(w.by)) - 1
         /\ Stopping(w.by)'
<1>1. w \in Worker /\ IsFiniteSet(workers)
  BY DEF Types, WorkerTypes
<1> DEFINE u == [w EXCEPT !.pc = "counted"]
<1>2. u.by = w.by /\ u.pc = "counted"
  BY <1>1 DEF Worker
<1>3. workers' = (workers \ {w}) \cup {u}
  BY DEF Moves
<1> HIDE DEF u
<1>4. Working(w.by)' = Working(w.by) \ {w} /\ w \in Working(w.by)
  BY <1>2, <1>3 DEF Working
<1>5. IsFiniteSet(Working(w.by))
  BY <1>1, FS_Subset DEF Working
<1>6. Cardinality(Working(w.by) \ {w}) = Cardinality(Working(w.by)) - 1
  BY <1>4, <1>5, FS_RemoveElement
<1>7. Stopping(w.by)'
  BY <1>2, <1>3 DEF Stopping
<1> QED
  BY <1>4, <1>6, <1>7

(* A client that ends leaves nothing, and the others do not notice.        *)
LEMMA EndedHeartbeats ==
  ASSUME Types(Client), \A c \in Client : HeartbeatsOf(c), NEW e \in Client, Ended(e)
  PROVE  \A c \in Client : HeartbeatsOf(c)'
<1>0. inbox \in [Client -> Seq(Mail(Client))] /\ BeatTypes
  BY DEF Types, MailTypes, ClientTypes
<1>1. ASSUME NEW c \in Client, c # e
      PROVE  HeartbeatsOf(c)'
  <2>1. role'[c] = role[c]
    BY <1>1, RoleSet DEF Ended
  <2>2. inbox'[c] = inbox[c] /\ (c \in alive' => c \in alive)
    BY <1>0, <1>1 DEF Ended
  <2>3. BeatsKept(c)
    BY <1>0, <1>1 DEF Ended, BeatsKept, BeatTypes
  <2>4. Working(c)' = Working(c) /\ (Stopping(c) => Stopping(c)')
    BY <1>1 DEF Ended, Working, Stopping
  <2> QED
    BY <2>1, <2>2, <2>3, <2>4, HeartbeatsKept DEF IsModerator
<1>2. HeartbeatsOf(e)'
  <2>1. inbox'[e] = <<>> /\ e \notin alive'
    BY <1>0 DEF Ended
  <2> QED
    BY <2>1 DEF HeartbeatsOf, NotifiedFirst
<1> QED
  BY <1>1, <1>2

(* The server never sends a second notification.                           *)
LEMMA ServerHeartbeats ==
  ASSUME Types(Client), \A c \in Client : HeartbeatsOf(c), ServerStep
  PROVE  \A c \in Client : HeartbeatsOf(c)'
<1>1. UNCHANGED <<role, heartbeats, workers, alive>> /\ (TellsTask \/ TellsModerator \/ TellsNothing)
  BY ServerTells DEF clients
<1>2. \A c : BeatsKept(c) /\ Working(c)' = Working(c) /\ (Stopping(c) => Stopping(c)')
  BY <1>1, BeatsUntouched
<1>3. ASSUME NEW ms \in Seq(Mail(Client)), Multicast(ms),
             \A j \in 1 .. Len(ms) : ms[j].type # "notify", NEW c \in Client
      PROVE  HeartbeatsOf(c)'
  <2>1. \A i \in DOMAIN inbox'[c] :
          inbox'[c][i].type = "notify" =>
            i \in DOMAIN inbox[c] /\ inbox[c][i].type = "notify"
    <3> SUFFICES ASSUME NEW i \in DOMAIN inbox'[c], inbox'[c][i].type = "notify"
                 PROVE  i \in DOMAIN inbox[c] /\ inbox[c][i].type = "notify"
      OBVIOUS
    <3>1. \/ i \in DOMAIN inbox[c] /\ inbox'[c][i] = inbox[c][i]
          \/ \E j \in 1 .. Len(ms) : inbox'[c][i] = ms[j]
      BY <1>3, MulticastFrom
    <3> QED
      BY <1>3, <3>1
  <2> QED
    BY <1>1, <1>2, <2>1, HeartbeatsKept DEF IsModerator
<1>4. CASE TellsTask
  <2>1. PICK t \in Mail(Client) : t.type = "task" /\ Multicast(<<t>>)
    BY <1>4 DEF TellsTask
  <2>2. <<t>> \in Seq(Mail(Client)) /\ \A j \in 1 .. Len(<<t>>) : <<t>>[j] = t
    BY Single
  <2> QED
    BY <1>3, <2>1, <2>2
<1>5. CASE TellsModerator
  <2>1. PICK c \in Client :
          /\ Takeover(c) \in Seq(Mail(Client)) /\ Len(Takeover(c)) = 2
          /\ Takeover(c)[1].type = "update" /\ Takeover(c)[2].type = "task"
          /\ Multicast(Takeover(c))
    BY <1>5 DEF TellsModerator
  <2>2. \A j \in 1 .. Len(Takeover(c)) : j = 1 \/ j = 2
    BY <2>1
  <2>3. \A j \in 1 .. Len(Takeover(c)) : Takeover(c)[j].type # "notify"
    BY <2>1, <2>2
  <2> QED
    BY <1>3, <2>1, <2>3
<1>6. CASE TellsNothing
  <2>1. UNCHANGED inbox
    BY <1>6 DEF TellsNothing
  <2> QED
    BY <1>1, <1>2, <2>1, HeartbeatsKept DEF IsModerator
<1> QED
  BY <1>1, <1>4, <1>5, <1>6

(* The three steps that stop the timer.                                    *)
LEMMA StopHeartbeats ==
  ASSUME Types(Client), NEW w \in workers, HeartbeatsOf(w.by), WorkerStopsTimer(w)
  PROVE  HeartbeatsOf(w.by)'
<1> DEFINE c == w.by
<1>0. c \in Client /\ BeatTypes
  BY DEF Types, WorkerTypes, Worker, ClientTypes
<1>1. UNCHANGED <<role, pending_task_count, inbox, alive>>
  BY DEF WorkerStopsTimer, environment
<1>2. /\ Working(c)' = Working(c)
      /\ timer_id'[c] = "armed" => timer_id[c] = "armed" /\ (Stopping(c) => Stopping(c)')
      /\ c \in disturbed => c \in disturbed'
      /\ c \in stray' => c \in stray \/ c \in disturbed'
  <2>1. CASE WorkerDeletes(w)
    <3>1. Moves(w, "deleted") /\ w.pc = "stopping" /\ UNCHANGED <<stray, disturbed>>
          /\ timer_id'[c] # "armed"
      BY <1>0, <2>1 DEF WorkerDeletes, BeatTypes
    <3> QED
      BY <3>1, MovesOn
  <2>2. CASE WorkerForgets(w)
    <3>1. Moves(w, "zeroed") /\ w.pc = "deleted" /\ timer_id'[c] # "armed"
          /\ (c \in disturbed => c \in disturbed')
          /\ (c \in stray' => c \in stray \/ c \in disturbed')
      BY <1>0, <2>2 DEF WorkerForgets, BeatTypes
    <3> QED
      BY <3>1, MovesOn
  <2>3. CASE WorkerLeaves(w)
    <3>1. Moves(w, "checked") /\ w.pc = "zeroed" /\ UNCHANGED <<timer_id, stray, disturbed>>
      BY <2>3 DEF WorkerLeaves
    <3> QED
      BY <3>1, MovesOn
  <2> QED
    BY <2>1, <2>2, <2>3 DEF WorkerStopsTimer
<1> HIDE DEF c
<1>3. BeatsWell(c) /\ c \notin disturbed' => BeatsWell(c)'
  BY <1>1, <1>2 DEF BeatsWell, Busy, IsModerator
<1>4. NotifiedFirst(c)'
  BY <1>1, <1>2 DEF c, HeartbeatsOf, NotifiedFirst, Idle, Busy
<1> QED
  BY <1>1, <1>2, <1>3, <1>4 DEF c, HeartbeatsOf

(* The threads: one that stops the timer, or leaves it to another, was     *)
(* counted.                                                                *)
LEMMA WorkerHeartbeats ==
  ASSUME Types(Client), \A c \in Client : HeartbeatsOf(c), NEW w \in workers,
         \/ WorkerCounts(w) \/ WorkerChecks(w) \/ WorkerStopsTimer(w)
         \/ WorkerReports(w) \/ WorkerCaches(w) \/ FetchFails(w),
         ~Ended(w.by)
  PROVE  \A c \in Client : HeartbeatsOf(c)'
<1> DEFINE e == w.by
<1>0. e \in Client /\ BeatTypes /\ HeartbeatsOf(e)
  BY DEF Types, WorkerTypes, Worker, ClientTypes
<1>1. /\ UNCHANGED <<alive, inbox>>
      /\ (\E r : IsModerator(e) /\ role' = [role EXCEPT ![e] = r]) \/ UNCHANGED role
  BY DEF WorkerCounts, WorkerChecks, WorkerStopsTimer, WorkerReports, WorkerCaches,
     FetchFails, environment, CollectsFrom, Answers
<1>2. \A c \in Client : IsModerator(c)' => IsModerator(c)
  BY <1>0, <1>1, RoleSet DEF IsModerator
<1>3. ASSUME NEW c \in Client, c # e
      PROVE  HeartbeatsOf(c)'
  <2>1. BeatsKept(c)
    <3>1. CASE WorkerCounts(w)
      BY <1>0, <1>3, <3>1 DEF WorkerCounts, BeatsKept, BeatTypes
    <3>2. CASE WorkerStopsTimer(w)
      BY <1>0, <1>3, <3>2 DEF WorkerStopsTimer, WorkerDeletes, WorkerForgets,
         WorkerLeaves, BeatsKept, BeatTypes
    <3>3. CASE FetchFails(w)
      BY <3>3 DEF FetchFails, BeatsKept
    <3>4. CASE WorkerChecks(w) \/ WorkerReports(w) \/ WorkerCaches(w)
      BY <3>4 DEF WorkerChecks, WorkerReports, WorkerCaches, heartbeats, BeatsKept
    <3> QED
      BY <3>1, <3>2, <3>3, <3>4
  <2>2. (\E pc : Moves(w, pc)) \/ workers' = workers \ {w}
    BY DEF WorkerCounts, WorkerChecks, WorkerStopsTimer, WorkerReports, WorkerCaches,
       FetchFails, WorkerDeletes, WorkerForgets, WorkerLeaves
  <2>3. Working(c)' = Working(c) /\ (Stopping(c) => Stopping(c)')
    BY <1>3, <2>2, OtherThreads
  <2> QED
    BY <1>1, <1>2, <2>1, <2>3, HeartbeatsKept
<1>4. CASE WorkerCounts(w)
  <2>1. /\ w.pc = "working" /\ Moves(w, "counted") /\ Busy(e)
        /\ pending_task_count' = [pending_task_count EXCEPT ![e] = @ - 1]
        /\ UNCHANGED <<role, timer_id, stray, disturbed>>
    BY <1>4 DEF WorkerCounts
  <2>2. pending_task_count'[e] = pending_task_count[e] - 1
    BY <1>0, <2>1 DEF BeatTypes
  <2>3. Cardinality(Working(e)') = Cardinality(Working(e)) - 1 /\ Stopping(e)'
    BY <2>1, MovesDown
  <2>4. BeatsWell(e) => BeatsWell(e)'
    BY <2>1, <2>2, <2>3 DEF BeatsWell, IsModerator
  <2>5. NotifiedFirst(e)'
    BY <1>0, <1>1, <2>1 DEF HeartbeatsOf, NotifiedFirst, Idle
  <2>6. HeartbeatsOf(e)'
    BY <1>0, <1>1, <2>1, <2>4, <2>5 DEF HeartbeatsOf
  <2> QED
    BY <1>3, <2>6
<1>5. CASE WorkerChecks(w)
  <2> DEFINE pc == IF IsModerator(e) \/ Busy(e) THEN "checked" ELSE "stopping"
  <2>1. Moves(w, pc) /\ w.pc = "counted" /\ UNCHANGED <<role, heartbeats>>
    BY <1>5 DEF WorkerChecks
  <2>2. pc \in {"checked", "stopping"} /\ (~IsModerator(e) /\ ~Busy(e) => pc = "stopping")
    OBVIOUS
  <2> HIDE DEF pc
  <2>3. Working(e)' = Working(e) /\ (~IsModerator(e) /\ ~Busy(e) => Stopping(e)')
    BY <2>1, <2>2, MovesOn
  <2>4. BeatsWell(e) => BeatsWell(e)'
    BY <2>1, <2>3 DEF BeatsWell, IsModerator, Busy, heartbeats
  <2>5. NotifiedFirst(e)'
    BY <1>0, <1>1, <2>1 DEF HeartbeatsOf, NotifiedFirst, heartbeats, Idle, Busy
  <2>6. HeartbeatsOf(e)'
    BY <1>0, <1>1, <2>1, <2>4, <2>5 DEF HeartbeatsOf, heartbeats
  <2> QED
    BY <1>3, <2>6
<1>6. CASE WorkerStopsTimer(w)
  BY <1>0, <1>3, <1>6, StopHeartbeats
<1>7. CASE WorkerReports(w)
  <2>1. Moves(w, "reported") /\ w.pc = "checked" /\ UNCHANGED heartbeats
    BY <1>7 DEF WorkerReports
  <2>2. Working(e)' = Working(e) /\ (Stopping(e) => Stopping(e)')
    BY <2>1, MovesOn
  <2>3. BeatsKept(e)
    BY <2>1 DEF heartbeats, BeatsKept
  <2> QED
    BY <1>0, <1>1, <1>2, <1>3, <2>2, <2>3, HeartbeatsKept
<1>8. CASE WorkerCaches(w)
  <2>1. workers' = workers \ {w} /\ w.pc = "reported" /\ UNCHANGED heartbeats
    BY <1>8 DEF WorkerCaches
  <2>2. Working(e)' = Working(e) /\ (Stopping(e) => Stopping(e)')
    BY <2>1 DEF Working, Stopping
  <2>3. BeatsKept(e)
    BY <2>1 DEF heartbeats, BeatsKept
  <2> QED
    BY <1>0, <1>1, <1>2, <1>3, <2>2, <2>3, HeartbeatsKept
<1>9. CASE FetchFails(w)
  <2>1. e \in disturbed' /\ UNCHANGED <<timer_id, pending_task_count>>
    BY <1>9 DEF FetchFails
  <2>2. HeartbeatsOf(e)'
    BY <1>0, <1>1, <2>1 DEF HeartbeatsOf, NotifiedFirst, Idle, Busy
  <2> QED
    BY <1>3, <2>2
<1> QED
  BY <1>4, <1>5, <1>6, <1>7, <1>8, <1>9

(* A task request starts threads, and the timer before they are counted.   *)
LEMMA TaskHeartbeats ==
  ASSUME Types(Client), NEW e \in Client, HeartbeatsOf(e), RcvTask(e),
         e \in alive \ disturbed'
  PROVE  BeatsWell(e)'
<1> DEFINE d == Head(inbox[e])
           hired == Hired(e, d)
<1>1. /\ HasMail(e) /\ d.type = "task" /\ UNCHANGED stray
      /\ timer_id' = IF Starts(e, d) THEN [timer_id EXCEPT ![e] = "armed"]
                     ELSE timer_id
      /\ role' = IF IsModerator(e)
                 THEN [role EXCEPT ![e] = Tracking(@, d, hired # {})] ELSE role
      /\ Counts(e, hired)
  BY DEF RcvTask, Takes, LosesCount
<1>2. d \in Mail(Client)
  BY <1>1, TookType
<1>3. BeatsWell(e) /\ BeatTypes /\ IsFiniteSet(workers)
  BY <1>1 DEF HeartbeatsOf, Counts, Types, ClientTypes, WorkerTypes
<1>4. Starts(e, d) => hired # {} /\ ~IsModerator(e)
  BY DEF Starts
<1>5. IsModerator(e)' => IsModerator(e)
  BY <1>1 DEF IsModerator
<1>6. /\ IsFiniteSet(hired) /\ Cardinality(hired) \in Nat
      /\ \A w \in hired : w.by = e /\ w.pc = "working" /\ w \notin workers
  <2> HIDE DEF d
  <2> QED
    BY <1>1, <1>2, HiredType
<1>7. timer_id'[e] = "armed" => timer_id[e] = "armed" \/ (hired # {} /\ ~IsModerator(e))
  BY <1>1, <1>4
<1> HIDE DEF hired, d
<1>8. /\ Working(e)' = Working(e) \cup hired /\ Working(e) \cap hired = {}
      /\ Stopping(e) => Stopping(e)'
  BY <1>1, <1>6 DEF Counts, Working, Stopping
<1>9. IsFiniteSet(Working(e)) /\ Cardinality(Working(e)) \in Nat
  BY <1>3, FS_Subset, FS_CardinalityType DEF Working
<1>10. Cardinality(Working(e)') = Cardinality(Working(e)) + Cardinality(hired)
  <2>1. Cardinality(Working(e) \cup hired)
          = Cardinality(Working(e)) + Cardinality(hired) - Cardinality(Working(e) \cap hired)
    BY <1>6, <1>9, FS_Union
  <2>2. Cardinality(Working(e) \cap hired) = 0
    BY <1>8, FS_EmptySet
  <2> QED
    BY <1>6, <1>8, <1>9, <2>1, <2>2
<1>11. pending_task_count'[e] = pending_task_count[e] + Cardinality(hired)
  BY <1>1, <1>3 DEF Counts, BeatTypes
<1>12. pending_task_count[e] \in Nat /\ (hired # {} => Cardinality(hired) # 0)
  BY <1>3, <1>6, FS_EmptySet DEF BeatTypes
<1>13. (hired # {} => Busy(e)') /\ (Busy(e) => Busy(e)')
  BY <1>6, <1>11, <1>12 DEF Busy
<1> QED
  BY <1>1, <1>3, <1>5, <1>7, <1>8, <1>10, <1>11, <1>13 DEF BeatsWell

(* A task request concerns only the threads of the client that takes it.   *)
LEMMA TaskElsewhere ==
  ASSUME Types(Client), NEW e \in Client, RcvTask(e), NEW c \in Client, c # e
  PROVE  BeatsKept(c) /\ Working(c)' = Working(c) /\ (Stopping(c) => Stopping(c)')
<1> DEFINE d == Head(inbox[e])
           hired == Hired(e, d)
<1>1. /\ HasMail(e) /\ d.type = "task" /\ UNCHANGED stray
      /\ timer_id' = IF Starts(e, d) THEN [timer_id EXCEPT ![e] = "armed"]
                     ELSE timer_id
      /\ Counts(e, hired) \/ \E w \in workers : LosesCount(e, w, hired)
  BY DEF RcvTask, Takes
<1>2. d \in Mail(Client)
  BY <1>1, TookType
<1>3. \A w \in hired : w.by = e
  <2> HIDE DEF d
  <2> QED
    BY <1>1, <1>2, HiredType
<1>4. BeatTypes
  BY DEF Types, ClientTypes
<1> HIDE DEF hired, d
<1>5. CASE Counts(e, hired)
  BY <1>1, <1>3, <1>4, <1>5 DEF Counts, BeatsKept, BeatTypes, Working, Stopping
<1>6. ASSUME NEW w \in workers, LosesCount(e, w, hired)
      PROVE  BeatsKept(c) /\ Working(c)' = Working(c) /\ (Stopping(c) => Stopping(c)')
  <2> DEFINE u == [w EXCEPT !.pc = "counted"]
  <2>1. w \in Worker /\ w.by = e
    BY <1>6 DEF LosesCount, Types, WorkerTypes
  <2>2. u.by = e
    BY <2>1 DEF Worker
  <2>3. workers' = (workers \ {w}) \cup {u} \cup hired
    BY <1>6 DEF LosesCount
  <2> HIDE DEF u
  <2>4. Working(c)' = Working(c) /\ (Stopping(c) => Stopping(c)')
    BY <1>3, <2>1, <2>2, <2>3 DEF Working, Stopping
  <2>5. BeatsKept(c)
    BY <1>1, <1>4, <1>6 DEF LosesCount, BeatsKept, BeatTypes
  <2> QED
    BY <2>4, <2>5
<1> QED
  BY <1>1, <1>5, <1>6

(* The steps by which a client takes a datagram to the group.              *)
LEMMA MailHeartbeats ==
  ASSUME Types(Client), \A c \in Client : HeartbeatsOf(c), NEW e \in Client,
         \/ RcvNotify(e) \/ RcvTask(e) \/ RcvUpdate(e) \/ LoseMulticast(e)
  PROVE  \A c \in Client : HeartbeatsOf(c)'
<1>0. HasMail(e) /\ inbox' = Took(e) /\ UNCHANGED alive
  BY DEF RcvNotify, RcvTask, RcvUpdate, LoseMulticast, Takes, environment
<1>1. \A i \in DOMAIN inbox'[e] : inbox'[e][i].type # "notify"
  BY <1>0, TookNoNotify
<1>2. \A c \in Client \ {e} : inbox'[c] = inbox[c]
  BY <1>0, TookType
<1>3. ASSUME NEW c \in Client, c # e
      PROVE  HeartbeatsOf(c)'
  <2>1. role'[c] = role[c]
    <3>1. (\E r : role' = [role EXCEPT ![e] = r]) \/ UNCHANGED role
      BY DEF RcvNotify, RcvTask, RcvUpdate, LoseMulticast, Reports, clients
    <3> QED
      BY <1>3, <3>1, RoleSet
  <2>2. BeatsKept(c) /\ Working(c)' = Working(c) /\ (Stopping(c) => Stopping(c)')
    <3>0. BeatTypes
      BY DEF Types, ClientTypes
    <3>1. CASE RcvNotify(e) \/ RcvUpdate(e)
      BY <1>3, <3>0, <3>1 DEF RcvNotify, RcvUpdate, BeatsKept, BeatTypes, Working, Stopping
    <3>2. CASE LoseMulticast(e)
      BY <3>2, BeatsUntouched DEF LoseMulticast, clients
    <3>3. CASE RcvTask(e)
      BY <1>3, <3>3, TaskElsewhere
    <3> QED
      BY <3>1, <3>2, <3>3
  <2> QED
    BY <1>0, <1>2, <1>3, <2>1, <2>2, HeartbeatsKept DEF IsModerator
<1>4. HeartbeatsOf(e)'
  <2>0. NotifiedFirst(e)'
    BY <1>1 DEF NotifiedFirst
  <2>1. HeartbeatsOf(e)
    OBVIOUS
  <2>2. CASE RcvNotify(e)
    <3>1. timer_id[e] # "armed"
      <4>1. Head(inbox[e]).type = "notify"
        BY <2>2 DEF RcvNotify, Takes
      <4>2. inbox[e] \in Seq(Mail(Client)) /\ inbox[e] # <<>>
        BY <1>0 DEF Types, MailTypes, HasMail
      <4>3. 1 \in DOMAIN inbox[e] /\ inbox[e][1].type = "notify"
        BY <4>1, <4>2
      <4> QED
        BY <2>1, <4>3 DEF HeartbeatsOf, NotifiedFirst, Idle
    <3>2. UNCHANGED <<timer_id, stray, pending_task_count, disturbed, workers>>
      BY <2>2 DEF RcvNotify
    <3>3. BeatsWell(e) => BeatsWell(e)'
      BY <3>1, <3>2 DEF BeatsWell, Working
    <3> QED
      BY <1>0, <2>0, <2>1, <3>2, <3>3 DEF HeartbeatsOf
  <2>3. CASE RcvTask(e)
    BY <1>0, <2>0, <2>1, <2>3, TaskHeartbeats DEF HeartbeatsOf
  <2>4. CASE RcvUpdate(e)
    <3> DEFINE d == Head(inbox[e])
    <3>1. /\ UNCHANGED <<stray, pending_task_count, workers>>
          /\ (e \in disturbed => e \in disturbed')
      BY <2>4 DEF RcvUpdate
    <3>2. (timer_id'[e] = "armed" => timer_id[e] = "armed")
      BY <2>4 DEF RcvUpdate, Types, ClientTypes, BeatTypes
    <3>3. IsModerator(e)' /\ timer_id'[e] = "armed" => IsModerator(e) \/ e \in disturbed'
      <4>1. CASE e = d.mod
        BY <2>4, <4>1 DEF RcvUpdate
      <4>2. CASE e # d.mod
        BY <2>4, <4>2 DEF RcvUpdate, IsModerator
      <4> QED
        BY <4>1, <4>2
    <3> HIDE DEF d
    <3>4. BeatsWell(e) /\ e \notin disturbed' => BeatsWell(e)'
      BY <3>1, <3>2, <3>3 DEF BeatsWell, Working, Stopping, Busy
    <3> QED
      BY <1>0, <2>0, <2>1, <3>1, <3>4 DEF HeartbeatsOf
  <2>5. CASE LoseMulticast(e)
    <3>1. UNCHANGED <<role, heartbeats, workers>>
      BY <2>5 DEF LoseMulticast, clients
    <3>2. BeatsKept(e) /\ Working(e)' = Working(e) /\ (Stopping(e) => Stopping(e)')
      BY <3>1, BeatsUntouched
    <3> QED
      BY <1>0, <1>1, <2>1, <3>1, <3>2, HeartbeatsKept DEF IsModerator
  <2> QED
    BY <2>2, <2>3, <2>4, <2>5
<1> QED
  BY <1>3, <1>4

(* At first no client has a timer, a thread or a role.                     *)
LEMMA InitHeartbeats ==
  ASSUME Init, NEW c \in Client
  PROVE  HeartbeatsOf(c)
<1>1. inbox[c] = <<[type |-> "notify", mod |-> moderator_client]>>
      /\ timer_id[c] = "none" /\ stray = {} /\ pending_task_count[c] = 0
      /\ workers = {}
  BY DEF Init
<1>2. Cardinality(Working(c)) = 0
  BY <1>1, FS_EmptySet DEF Working
<1> QED
  BY <1>1, <1>2 DEF HeartbeatsOf, NotifiedFirst, BeatsWell, Idle, Busy

(* Every step keeps what is known of the heartbeats.                       *)
LEMMA HeartbeatsStep ==
  ASSUME Types(Client), \A c \in Client : HeartbeatsOf(c), [Next]_vars
  PROVE  \A c \in Client : HeartbeatsOf(c)'
<1>1. CASE UNCHANGED vars
  <2>1. UNCHANGED <<role, heartbeats, workers, inbox, alive>>
    BY <1>1 DEF vars, clients, environment
  <2> QED
    BY <2>1, BeatsUntouched, HeartbeatsKept DEF IsModerator
<1>2. ASSUME NEW m \in Client,
             \/ RcvHello(m) \/ NotifyTimeout(m) \/ NotifyTimeoutIgnored(m)
             \/ Monitor(m) \/ RcvResult(m) \/ ForceCleanup(m)
             \/ \E c \in Client : Heartbeat(c, m)
      PROVE  \A c \in Client : HeartbeatsOf(c)'
  <2>1. UNCHANGED <<heartbeats, workers, inbox, alive>>
        /\ \A c \in Client : IsModerator(c)' => IsModerator(c)
    BY <1>2, RoleSteps
  <2> QED
    BY <2>1, BeatsUntouched, HeartbeatsKept
<1>3. ASSUME NEW e \in Client,
             \/ RcvNotify(e) \/ RcvTask(e) \/ RcvUpdate(e) \/ LoseMulticast(e)
      PROVE  \A c \in Client : HeartbeatsOf(c)'
  BY <1>3, MailHeartbeats
<1>4. ASSUME NEW e \in Client, Ended(e)
      PROVE  \A c \in Client : HeartbeatsOf(c)'
  BY <1>4, EndedHeartbeats
<1>5. ASSUME NEW w \in workers,
             \/ WorkerCounts(w) \/ WorkerChecks(w) \/ WorkerStopsTimer(w)
             \/ WorkerReports(w) \/ WorkerCaches(w) \/ FetchFails(w)
      PROVE  \A c \in Client : HeartbeatsOf(c)'
  <2>1. w.by \in Client
    BY DEF Types, WorkerTypes, Worker
  <2> QED
    BY <1>4, <1>5, <2>1, WorkerHeartbeats
<1>6. ASSUME NEW d \in BagToSet(net), LoseDatagram(d)
      PROVE  \A c \in Client : HeartbeatsOf(c)'
  <2>1. UNCHANGED <<role, heartbeats, workers, inbox, alive>>
    BY <1>6 DEF LoseDatagram, clients
  <2> QED
    BY <2>1, BeatsUntouched, HeartbeatsKept DEF IsModerator
<1>7. CASE ServerStep
  BY <1>7, ServerHeartbeats
<1> QED
  BY <1>1, <1>2, <1>3, <1>4, <1>5, <1>6, <1>7, Endings DEF Next, ServerStep

(* Heartbeats do not go on without work (execute_task): whatever the       *)
(* interleaving of threads that end in several steps, of task requests     *)
(* that start more (handle_perform_task_req) and of a change of moderator  *)
(* (handle_moderator_update), a client whose group timer runs has a thread *)
(* that is going to count itself down and then to stop it or to leave it   *)
(* to another; unless its count was spoilt by a failed fetch or a lost     *)
(* update, its timer lost by an overwritten id, or it was made moderator   *)
(* with the timer running.                                                 *)
THEOREM HeartbeatsStop == Spec => []HeartbeatsEnd
<1> DEFINE Inv == Types(Client) /\ \A c \in Client : HeartbeatsOf(c)
<1>1. Init => Inv
  BY InitTypes, MoreParts, InitHeartbeats
<1>2. Inv /\ [Next]_vars => Inv'
  BY TypesStep, HeartbeatsStep
<1>3. Inv => HeartbeatsEnd
  <2> SUFFICES ASSUME Types(Client), NEW c \in alive \ disturbed, HeartbeatsOf(c), Beating(c)
               PROVE  \E w \in workers :
                        w.by = c /\ w.pc \in {"working", "counted", "stopping"}
    BY DEF HeartbeatsEnd, Types, ClientTypes
  <2>1. Busy(c) \/ Stopping(c)
    BY DEF HeartbeatsOf, BeatsWell, Beating
  <2>2. Busy(c) => Working(c) # {}
    <3>1. pending_task_count[c] = Cardinality(Working(c))
      BY DEF HeartbeatsOf, BeatsWell
    <3> QED
      BY <3>1, FS_EmptySet DEF Busy
  <2> QED
    BY <2>1, <2>2 DEF Working, Stopping
<1> QED
  BY <1>1, <1>2, <1>3, PTL DEF Spec

----------------------------------------------------------------------------
(* Before the report of the group has come nothing of a task is under way: *)
(* no part is known, and only echo requests and reports are on their way.  *)
Before ==
  fsm_state = "selected" =>
    /\ Types({}) /\ expected = 0
    /\ \A d \in BagToSet(net) : d.type \in {"hello", "report"}
    /\ \A c \in Client :
         /\ \A i \in DOMAIN inbox[c] : inbox[c][i].type = "notify"
         /\ IsModerator(c) => role[c].fsm # "task"

(* At first nothing of a task is under way.                                *)
LEMMA InitBefore ==
  ASSUME Init
  PROVE  Before
<1>1. BagToSet(net) = {}
  BY DEF Init, EmptyBag, SetToBag, BagToSet
<1>2. \A c \in Client : inbox[c] = <<[type |-> "notify", mod |-> moderator_client]>>
                        /\ role[c] = NULL
  BY DEF Init
<1>3. expected = 0
  BY DEF Init
<1> QED
  BY <1>1, <1>2, <1>3, InitTypes DEF Before, IsModerator

(* The server leaves this state with its first step.                       *)
LEMMA ServerLeaves ==
  ASSUME Types(Client), Before, ServerStep
  PROVE  fsm_state' # "selected"
<1>1. CASE fsm_state = "selected"
  <2>1. RcvReport => fsm_state' = "running"
    BY <1>1 DEF RcvReport
  <2>2. ~RcvDead /\ ~RcvAnswer
    BY <1>1 DEF Before, RcvDead, RcvAnswer, ToServer
  <2>3. ~ModeratorSilent /\ \A c \in Client : ~NewModerator(c)
    BY <1>1 DEF ModeratorSilent, NewModerator
  <2> QED
    BY <2>1, <2>2, <2>3 DEF ServerStep
<1>2. CASE fsm_state # "selected"
  BY <1>2, ServerTells DEF TellsTask, TellsModerator, TellsNothing
<1> QED
  BY <1>1, <1>2

(* What a step may do in this state.                                       *)
LEMMA BeforeKept ==
  ASSUME fsm_state = "selected", Before, Types({})', expected' = expected,
         \A d \in BagToSet(net') :
           d \in BagToSet(net) \/ d.type \in {"hello", "report"},
         \A c \in Client :
           /\ inbox'[c] = inbox[c] \/ (HasMail(c) /\ inbox' = Took(c)) \/ inbox'[c] = <<>>
           /\ IsModerator(c)' => \/ role'[c].fsm # "task"
                                 \/ IsModerator(c) /\ role'[c].fsm = role[c].fsm
  PROVE  Before'
<1>1. \A d \in BagToSet(net') : d.type \in {"hello", "report"}
  BY DEF Before
<1>2. \A c \in Client : IsModerator(c)' => role'[c].fsm # "task"
  BY DEF Before
<1>3. ASSUME NEW c \in Client, NEW i \in DOMAIN inbox'[c]
      PROVE  inbox'[c][i].type = "notify"
  <2>1. CASE inbox'[c] = inbox[c] \/ inbox'[c] = <<>>
    BY <1>3, <2>1 DEF Before
  <2>2. CASE HasMail(c) /\ inbox' = Took(c)
    <3>1. inbox[c] \in Seq(Mail({})) /\ inbox[c] # <<>>
      BY <2>2 DEF Before, Types, MailTypes, HasMail
    <3>2. inbox'[c] = Tail(inbox[c])
      BY <2>2, TookType DEF Before
    <3>3. i + 1 \in DOMAIN inbox[c] /\ inbox'[c][i] = inbox[c][i + 1]
      BY <1>3, <3>1, <3>2
    <3> QED
      BY <3>3 DEF Before
  <2> QED
    BY <2>1, <2>2
<1> QED
  BY <1>1, <1>2, <1>3 DEF Before

(* A client takes the notification: echo requests and reports only.        *)
LEMMA NotifyBefore ==
  ASSUME fsm_state = "selected", Before, Types({}), Types({})', expected' = expected,
         NEW m \in Client, RcvNotify(m)
  PROVE  Before'
<1> DEFINE d == Head(inbox[m])
           r == [NewRole EXCEPT !.active = Size, !.expected = Size, !.heard = <<m>>]
<1>1. HasMail(m) /\ inbox' = Took(m) /\ d.type = "notify"
  BY DEF RcvNotify, Takes
<1>2. \A c \in Client \ {m} : inbox'[c] = inbox[c]
  BY <1>1, TookType
<1>3. d.mod \in Client
  BY <1>1, TookType, MailFacts
<1>4. net \in Nets({})
  BY DEF Types, MailTypes
<1>5. r \in Roles({}) /\ r.fsm = "notify" /\ [r EXCEPT !.timer = "oneshot"].fsm = "notify"
  <2>1. Size \in Nat /\ <<m>> \in Seq(Client) /\ <<>> \in Seq(Nodes) /\ <<>> \in Seq({})
    BY SizeIsNat
  <2> QED
    BY <2>1 DEF NewRole, Roles
<1>6. \/ net' = Posted(net, Sent("hello", m, d.mod, <<>>)) /\ UNCHANGED role
      \/ Reports(m, r, "none", net)
      \/ role' = [role EXCEPT ![m] = [r EXCEPT !.timer = "oneshot"]] /\ UNCHANGED net
  BY DEF RcvNotify, Size
<1> HIDE DEF r, d
<1>7. CASE net' = Posted(net, Sent("hello", m, d.mod, <<>>)) /\ UNCHANGED role
  <2>1. Sent("hello", m, d.mod, <<>>) \in Msg({})
        /\ Sent("hello", m, d.mod, <<>>).type = "hello"
    <3>1. Sent("hello", m, d.mod, <<>>) \in Msg({})
      BY <1>3, SentType
    <3> QED
      BY <3>1 DEF Sent
  <2>2. \A x \in BagToSet(net') : x \in BagToSet(net) \/ x.type \in {"hello", "report"}
    BY <1>4, <1>7, <2>1, PostedNet
  <2> QED
    BY <1>1, <1>2, <1>7, <2>2, BeforeKept DEF IsModerator
<1>8. CASE Reports(m, r, "none", net)
  <2>1. /\ BagToSet(net') = BagToSet(net) \cup {Sent("report", m, NULL, r.heard)}
        /\ role'[m].fsm = "notified" /\ \A c \in Client \ {m} : role'[c] = role[c]
    BY <1>4, <1>5, <1>8, ReportsType
  <2>2. \A x \in BagToSet(net') : x \in BagToSet(net) \/ x.type \in {"hello", "report"}
    BY <2>1 DEF Sent
  <2> QED
    BY <1>1, <1>2, <2>1, <2>2, BeforeKept DEF IsModerator
<1>9. CASE role' = [role EXCEPT ![m] = [r EXCEPT !.timer = "oneshot"]] /\ UNCHANGED net
  <2>1. role'[m].fsm = "notify" /\ \A c \in Client \ {m} : role'[c] = role[c]
    BY <1>5, <1>9, RoleSet
  <2> QED
    BY <1>1, <1>2, <1>9, <2>1, BeforeKept DEF IsModerator
<1> QED
  BY <1>6, <1>7, <1>8, <1>9

(* The moderator hears of the group or reports: no task either.            *)
LEMMA HelloBefore ==
  ASSUME fsm_state = "selected", Before, Types({}), Types({})', expected' = expected,
         NEW m \in Client, RcvHello(m) \/ NotifyTimeout(m) \/ NotifyTimeoutIgnored(m)
  PROVE  Before'
<1>1. UNCHANGED inbox
  BY DEF RcvHello, NotifyTimeout, NotifyTimeoutIgnored
<1>2. net \in Nets({})
  BY DEF Types, MailTypes
<1>3. ASSUME IsModerator(m), NEW r \in Roles({}), NEW t \in {"none", "expired"},
             NEW B \in Nets({}), BagToSet(B) \subseteq BagToSet(net), Reports(m, r, t, B)
      PROVE  Before'
  <2>1. /\ BagToSet(net') = BagToSet(B) \cup {Sent("report", m, NULL, r.heard)}
        /\ role'[m].fsm = "notified" /\ \A c \in Client \ {m} : role'[c] = role[c]
    BY <1>3, ReportsType
  <2>2. \A x \in BagToSet(net') : x \in BagToSet(net) \/ x.type \in {"hello", "report"}
    BY <1>3, <2>1 DEF Sent
  <2> QED
    BY <1>1, <2>1, <2>2, BeforeKept DEF IsModerator
<1>4. ASSUME IsModerator(m), NEW r \in Roles({}), r.fsm = role[m].fsm,
             role' = [role EXCEPT ![m] = r],
             BagToSet(net') \subseteq BagToSet(net)
      PROVE  Before'
  <2>1. role'[m] = r /\ \A c \in Client \ {m} : role'[c] = role[c]
    BY <1>4, RoleSet
  <2> QED
    BY <1>1, <1>4, <2>1, BeforeKept DEF IsModerator
<1>5. CASE RcvHello(m)
  <2>1. PICK d \in BagToSet(net) :
          LET rest == BagRemove(net, d)
              r == [role[m] EXCEPT !.heard = Append(@, d.from)]
          IN IF ~IsModerator(m) \/ role[m].fsm = "notified"
             THEN net' = rest /\ UNCHANGED role
             ELSE IF role[m].fsm = "task"
             THEN net' = rest /\ role' = [role EXCEPT ![m] = Heard(@, d.from)]
             ELSE IF Len(r.heard) = r.active
                  THEN Reports(m, r, "none", rest)
                  ELSE role' = [role EXCEPT ![m] = r] /\ net' = rest
    BY <1>5 DEF RcvHello
  <2> DEFINE rest == BagRemove(net, d)
             r == [role[m] EXCEPT !.heard = Append(@, d.from)]
  <2>2. rest \in Nets({}) /\ BagToSet(rest) \subseteq BagToSet(net)
    BY <1>2, BagRemoveNet
  <2>3. CASE net' = rest /\ UNCHANGED role
    <3> HIDE DEF rest
    <3> QED
      BY <1>1, <2>2, <2>3, BeforeKept DEF IsModerator
  <2>4. CASE IsModerator(m) /\ (\/ Reports(m, r, "none", rest)
                                \/ role' = [role EXCEPT ![m] = r] /\ net' = rest)
    <3>1. PICK q \in Roles({}) : q = role[m]
      BY <2>4, RoleOf
    <3>2. d.from \in Client
      BY <1>2, NetIsBag, MsgFacts
    <3>3. r \in Roles({}) /\ r.fsm = role[m].fsm
      <4>1. Append(q.heard, d.from) \in Seq(Client)
        BY <3>2 DEF Roles
      <4>2. LET p == [q EXCEPT !.heard = Append(q.heard, d.from)]
            IN  p \in Roles({}) /\ p.fsm = q.fsm
        BY <4>1 DEF Roles
      <4> QED
        BY <3>1, <4>2
    <3> HIDE DEF r, rest
    <3>4. CASE Reports(m, r, "none", rest)
      BY <1>3, <2>2, <2>4, <3>3, <3>4
    <3>5. CASE role' = [role EXCEPT ![m] = r] /\ net' = rest
      BY <1>4, <2>2, <2>4, <3>3, <3>5
    <3> QED
      BY <2>4, <3>4, <3>5
  <2>5. IsModerator(m) => role[m].fsm # "task"
    BY DEF Before
  <2> HIDE DEF r, rest
  <2> QED
    BY <2>1, <2>3, <2>4, <2>5 DEF r, rest
<1>6. CASE NotifyTimeout(m)
  <2>1. IsModerator(m) /\ Reports(m, role[m], "expired", net)
    BY <1>6 DEF NotifyTimeout
  <2> QED
    BY <1>2, <1>3, <2>1, RoleOf
<1>7. CASE NotifyTimeoutIgnored(m)
  <2>1. IsModerator(m) /\ UNCHANGED net /\ role' = [role EXCEPT ![m].timer = "expired"]
    BY <1>7 DEF NotifyTimeoutIgnored
  <2>2. PICK q \in Roles({}) : q = role[m]
    BY <2>1, RoleOf
  <2>3. [role EXCEPT ![m].timer = "expired"]
          = [role EXCEPT ![m] = [role[m] EXCEPT !.timer = "expired"]]
    BY Zenon
  <2>4. [q EXCEPT !.timer = "expired"] \in Roles({})
        /\ [q EXCEPT !.timer = "expired"].fsm = q.fsm
    BY DEF Roles
  <2> QED
    BY <1>4, <2>1, <2>2, <2>3, <2>4
<1> QED
  BY <1>5, <1>6, <1>7

(* Every step keeps it: only the server leaves the state it is about.      *)
LEMMA BeforeStep ==
  ASSUME Types(Client), Before, [Next]_vars
  PROVE  Before'
<1> SUFFICES ASSUME fsm_state' = "selected"
             PROVE  Before'
  BY DEF Before
<1>1. CASE UNCHANGED vars
  <2>1. Types({}) => Types({})'
    BY <1>1, Untouched DEF vars, clients, environment, Types
  <2> QED
    BY <1>1, <2>1 DEF Before, vars, server, clients, IsModerator
<1>2. CASE ServerStep
  BY <1>2, ServerLeaves
<1>3. CASE Next /\ ~ServerStep
  <2>1. UNCHANGED server
    BY <1>3, ServerOrNot
  <2>2. fsm_state = "selected" /\ expected' = expected
    BY <2>1 DEF server
  <2>3. Types({}) /\ net \in Nets({})
    BY <2>2 DEF Before, Types, MailTypes
  <2>4. Types({})'
    BY <1>3, <2>3, StepTypes DEF ServerStep
  <2>5. workers = {}
    BY <2>3 DEF Types, WorkerTypes
  <2>6. \A c \in Client, type \in {"task", "update"} : ~Takes(c, type)
    <3> SUFFICES ASSUME NEW c \in Client, HasMail(c)
                 PROVE  Head(inbox[c]).type = "notify"
      BY DEF Takes
    <3>1. inbox[c] \in Seq(Mail({})) /\ inbox[c] # <<>>
      BY <2>3 DEF Types, MailTypes, HasMail
    <3>2. 1 \in DOMAIN inbox[c] /\ Head(inbox[c]) = inbox[c][1]
      BY <3>1
    <3> QED
      BY <2>2, <3>2 DEF Before
  <2>7. ASSUME NEW m \in Client, RcvNotify(m)
        PROVE  Before'
    BY <2>2, <2>3, <2>4, <2>7, NotifyBefore
  <2>8. ASSUME NEW m \in Client, RcvHello(m) \/ NotifyTimeout(m) \/ NotifyTimeoutIgnored(m)
        PROVE  Before'
    BY <2>2, <2>3, <2>4, <2>8, HelloBefore
  <2>9. ASSUME NEW c \in Client
        PROVE  ~RcvTask(c) /\ ~RcvUpdate(c)
    BY <2>6 DEF RcvTask, RcvUpdate
  <2>10. ASSUME NEW m \in Client
         PROVE  /\ ~RcvResult(m) /\ ~Monitor(m) /\ ~ForceCleanup(m)
                /\ \A c \in Client : ~Heartbeat(c, m)
    <3>1. ~RcvResult(m)
      BY <2>2 DEF Before, RcvResult
    <3>2. ~Monitor(m) /\ \A c \in Client : ~Heartbeat(c, m)
      BY <2>2 DEF Before, Monitor, Heartbeat
    <3>3. ~ForceCleanup(m)
      <4> SUFFICES ASSUME IsModerator(m)
                   PROVE  role[m].resp = <<>>
        BY DEF ForceCleanup
      <4>1. PICK r \in Roles({}) : r = role[m]
        BY <2>3, RoleOf
      <4> QED
        BY <4>1 DEF Roles
    <3> QED
      BY <3>1, <3>2, <3>3
  <2>11. ASSUME NEW e \in Client, Ended(e)
         PROVE  Before'
    <3>1. BagToSet(net') \subseteq BagToSet(net)
      BY <2>3, <2>11, ReachingNet DEF Ended
    <3>2. inbox'[e] = <<>> /\ \A c \in Client \ {e} : inbox'[c] = inbox[c]
      BY <2>3, <2>11 DEF Ended, Types, MailTypes
    <3>3. role'[e] = NULL /\ \A c \in Client \ {e} : role'[c] = role[c]
      BY <2>3, <2>11, RoleSet DEF Ended
    <3> QED
      BY <2>2, <2>4, <3>1, <3>2, <3>3, BeforeKept DEF IsModerator
  <2>12. ASSUME NEW e \in Client, LoseMulticast(e)
         PROVE  Before'
    <3>1. HasMail(e) /\ inbox' = Took(e) /\ UNCHANGED <<role, net>>
      BY <2>12 DEF LoseMulticast, clients
    <3>2. \A c \in Client \ {e} : inbox'[c] = inbox[c]
      BY <3>1, TookType
    <3> QED
      BY <2>2, <2>4, <3>1, <3>2, BeforeKept DEF IsModerator
  <2>13. ASSUME NEW d \in BagToSet(net), LoseDatagram(d)
         PROVE  Before'
    <3>1. UNCHANGED <<role, inbox>> /\ net' = BagRemove(net, d)
      BY <2>13 DEF LoseDatagram, clients
    <3>2. BagToSet(net') \subseteq BagToSet(net)
      BY <2>3, <3>1, BagRemoveNet
    <3> QED
      BY <2>2, <2>4, <3>1, <3>2, BeforeKept DEF IsModerator
  <2> QED
    BY <1>3, <2>5, <2>7, <2>8, <2>9, <2>10, <2>11, <2>12, <2>13, Endings
    DEF Next, ServerStep
<1> QED
  BY <1>1, <1>2, <1>3

----------------------------------------------------------------------------
(* The last that a client has been told of a moderator names the one that  *)
(* the server follows, and who has nothing more to hear of it knows.       *)
Names(d) == d.type \in {"notify", "update"}
LastNamed(c) ==
  \A i \in DOMAIN inbox[c] :
    Names(inbox[c][i]) /\ (\A j \in i + 1 .. Len(inbox[c]) : ~Names(inbox[c][j]))
      => inbox[c][i].mod = moderator_client
Knows(c) == IsModerator(c) => c = moderator_client \/ IsTold(c, {"update"})
Follows(c) == LastNamed(c) /\ Knows(c)
News ==
  fsm_state \in {"selected", "running"} =>
    \A c \in alive \ missed : Follows(c)

(* Nothing new for a client.                                               *)
LEMMA FollowsKept ==
  ASSUME NEW c, Follows(c), inbox'[c] = inbox[c], UNCHANGED moderator_client,
         IsModerator(c)' => IsModerator(c)
  PROVE  Follows(c)'
<1>1. LastNamed(c)'
  BY DEF Follows, LastNamed, Names
<1>2. Knows(c)'
  BY DEF Follows, Knows, IsTold
<1> QED
  BY <1>1, <1>2 DEF Follows

(* A client has taken the first datagram: what is last still is, and if    *)
(* nothing that names a moderator is left, it was the first that did.      *)
LEMMA TookFollows ==
  ASSUME Types(Client), NEW c \in Client, HasMail(c), LastNamed(c),
         UNCHANGED moderator_client, inbox' = Took(c)
  PROVE  /\ LastNamed(c)'
         /\ \A types : IsTold(c, types) =>
              Head(inbox[c]).type \in types \/ IsTold(c, types)'
         /\ \/ ~Names(Head(inbox[c]))
            \/ Head(inbox[c]).mod = moderator_client
            \/ \E i \in DOMAIN inbox'[c] : Names(inbox'[c][i])
<1> DEFINE box == inbox[c]
           rest == inbox'[c]
<1>1. box \in Seq(Mail(Client)) /\ box # <<>> /\ rest = Tail(box)
  BY TookType DEF Types, MailTypes, HasMail
<1>2. /\ Len(box) \in Nat /\ DOMAIN box = 1 .. Len(box) /\ Len(box) # 0
      /\ DOMAIN rest = 1 .. Len(rest) /\ Len(rest) = Len(box) - 1 /\ box[1] = Head(box)
      /\ \A i \in 1 .. Len(rest) : rest[i] = box[i + 1]
  BY <1>1
<1> HIDE DEF box, rest
<1>3. LastNamed(c)'
  <2> SUFFICES ASSUME NEW i \in DOMAIN rest, Names(rest[i]),
                      \A j \in i + 1 .. Len(rest) : ~Names(rest[j])
               PROVE  rest[i].mod = moderator_client
    BY DEF LastNamed, Names, rest
  <2>1. i + 1 \in DOMAIN box /\ rest[i] = box[i + 1]
    BY <1>2
  <2>2. ASSUME NEW j \in i + 2 .. Len(box)
        PROVE  ~Names(box[j])
    <3>1. j - 1 \in i + 1 .. Len(rest) /\ j - 1 \in 1 .. Len(rest) /\ box[(j - 1) + 1] = box[j]
      BY <1>2
    <3> QED
      BY <1>2, <3>1
  <2>3. \A j \in (i + 1) + 1 .. Len(box) : ~Names(box[j])
    BY <2>2
  <2> QED
    BY <2>1, <2>3 DEF LastNamed, box
<1>4. ASSUME NEW types, IsTold(c, types)
      PROVE  Head(inbox[c]).type \in types \/ IsTold(c, types)'
  <2>1. PICK i \in DOMAIN box : box[i].type \in types
    BY <1>4 DEF IsTold, box
  <2>2. CASE i = 1
    BY <1>2, <2>1, <2>2 DEF box
  <2>3. CASE i # 1
    <3>1. i - 1 \in DOMAIN rest /\ rest[i - 1] = box[(i - 1) + 1] /\ (i - 1) + 1 = i
      BY <1>2, <2>3
    <3> QED
      BY <2>1, <3>1 DEF IsTold, rest
  <2> QED
    BY <2>2, <2>3
<1>5. ASSUME Names(Head(box)), \A i \in DOMAIN rest : ~Names(rest[i])
      PROVE  Head(box).mod = moderator_client
  <2>1. ASSUME NEW j \in 2 .. Len(box)
        PROVE  ~Names(box[j])
    <3>1. j - 1 \in DOMAIN rest /\ rest[j - 1] = box[(j - 1) + 1] /\ (j - 1) + 1 = j
      BY <1>2
    <3> QED
      BY <1>5, <3>1
  <2>2. 1 \in DOMAIN box /\ \A j \in 1 + 1 .. Len(box) : ~Names(box[j])
    BY <1>2, <2>1
  <2> QED
    BY <1>2, <1>5, <2>2 DEF LastNamed, box
<1> QED
  BY <1>3, <1>4, <1>5 DEF box, rest

(* A client takes a notification, an update or a task request.             *)
LEMMA MailFollows ==
  ASSUME Types(Client), NEW e \in Client, HeartbeatsOf(e), Follows(e),
         RcvNotify(e) \/ RcvTask(e) \/ RcvUpdate(e)
  PROVE  Follows(e)'
<1> DEFINE d == Head(inbox[e])
<1>1. HasMail(e) /\ inbox' = Took(e) /\ UNCHANGED moderator_client
  BY DEF RcvNotify, RcvTask, RcvUpdate, Takes, server
<1>2. LastNamed(e) /\ Knows(e)
  BY DEF Follows
<1>3. /\ LastNamed(e)'
      /\ IsTold(e, {"update"}) => d.type = "update" \/ IsTold(e, {"update"})'
      /\ \/ ~Names(d) \/ d.mod = moderator_client
         \/ \E i \in DOMAIN inbox'[e] : Names(inbox'[e][i])
  BY <1>1, <1>2, TookFollows
<1>4. (\E i \in DOMAIN inbox'[e] : Names(inbox'[e][i])) => IsTold(e, {"update"})'
  <2>1. \A i \in DOMAIN inbox'[e] : inbox'[e][i].type # "notify"
    BY <1>1, TookNoNotify
  <2> QED
    BY <2>1 DEF Names, IsTold
<1> HIDE DEF d
<1>5. CASE RcvNotify(e)
  <2>1. d.type = "notify" /\ Names(d)
    BY <1>5 DEF RcvNotify, Takes, Names, d
  <2>2. ~Busy(e)
    <3>1. inbox[e] \in Seq(Mail(Client)) /\ inbox[e] # <<>>
      BY <1>1 DEF Types, MailTypes, HasMail
    <3>2. 1 \in DOMAIN inbox[e] /\ inbox[e][1].type = "notify"
      BY <2>1, <3>1 DEF d
    <3> QED
      BY <3>2 DEF HeartbeatsOf, NotifiedFirst, Idle, Busy
  <2>3. e = d.mod \/ UNCHANGED role
    BY <1>5, <2>2 DEF RcvNotify, d
  <2>4. Knows(e)'
    BY <1>1, <1>2, <1>3, <1>4, <2>1, <2>3 DEF Knows, IsModerator
  <2> QED
    BY <1>3, <2>4 DEF Follows
<1>6. CASE RcvTask(e)
  <2>1. d.type = "task"
    BY <1>6 DEF RcvTask, Takes, d
  <2>2. IsModerator(e)' => IsModerator(e)
    BY <1>6 DEF RcvTask, IsModerator
  <2>3. Knows(e)'
    BY <1>1, <1>2, <1>3, <2>1, <2>2 DEF Knows
  <2> QED
    BY <1>3, <2>3 DEF Follows
<1>7. CASE RcvUpdate(e)
  <2>1. d.type = "update" /\ Names(d)
    BY <1>7 DEF RcvUpdate, Takes, Names, d
  <2>2. \/ role' = [role EXCEPT ![e] = NULL]
        \/ ~IsModerator(e) /\ (e = d.mod \/ UNCHANGED role)
    BY <1>7 DEF RcvUpdate, d
  <2>3. IsModerator(e)' => e = d.mod
    BY <2>2, RoleSet DEF IsModerator
  <2>4. Knows(e)'
    BY <1>1, <1>3, <1>4, <2>1, <2>3 DEF Knows
  <2> QED
    BY <1>3, <2>4 DEF Follows
<1> QED
  BY <1>5, <1>6, <1>7

(* The server sends a task request, or tells of a new moderator.           *)
LEMMA ServerFollows ==
  ASSUME Types(Client), Before, News, ServerStep
  PROVE  News'
<1>1. /\ UNCHANGED <<role, alive>> /\ fsm_state' # "selected"
      /\ TellsTask \/ TellsModerator \/ TellsNothing
  BY ServerTells, ServerLeaves DEF clients
<1>2. missed' = missed
  BY DEF ServerStep, RcvReport, RcvDead, RcvAnswer, ModeratorSilent, NewModerator,
     environment
<1>3. CASE TellsTask
  <2>1. PICK t \in Mail(Client) : t.type = "task" /\ Multicast(<<t>>)
    BY <1>3 DEF TellsTask
  <2>2. UNCHANGED moderator_client /\ fsm_state \in {"selected", "running"}
    BY <1>3 DEF TellsTask
  <2> SUFFICES ASSUME NEW c \in alive \ missed
               PROVE  Follows(c)'
    BY <1>1, <1>2 DEF News
  <2>3. Follows(c) /\ c \in Client /\ c \in alive
    BY <2>2 DEF News, Types, ClientTypes
  <2>4. <<t>> \in Seq(Mail(Client)) /\ Len(<<t>>) = 1 /\ <<t>>[1] = t
    BY Single
  <2>5. /\ inbox[c] \in Seq(Mail(Client)) /\ inbox'[c] \in Seq(Mail(Client))
        /\ Len(inbox'[c]) = Len(inbox[c]) + 1
        /\ \A i \in 1 .. Len(inbox[c]) : inbox'[c][i] = inbox[c][i]
        /\ inbox'[c][Len(inbox[c]) + 1] = t
    <3>1. /\ inbox[c] \in Seq(Mail(Client)) /\ inbox'[c] \in Seq(Mail(Client))
          /\ Len(inbox'[c]) = Len(inbox[c]) + Len(<<t>>)
          /\ \A i \in 1 .. Len(inbox[c]) : inbox'[c][i] = inbox[c][i]
          /\ \A i \in 1 .. Len(<<t>>) : inbox'[c][Len(inbox[c]) + i] = <<t>>[i]
      BY <2>1, <2>3, <2>4, MulticastFrom
    <3> QED
      BY <2>4, <3>1
  <2>6. LastNamed(c)'
    <3> SUFFICES ASSUME NEW i \in DOMAIN inbox'[c], Names(inbox'[c][i]),
                        \A j \in i + 1 .. Len(inbox'[c]) : ~Names(inbox'[c][j])
                 PROVE  inbox'[c][i].mod = moderator_client
      BY <2>2 DEF LastNamed, Names
    <3>1. i # Len(inbox[c]) + 1
      BY <2>1, <2>5 DEF Names
    <3>2. i \in DOMAIN inbox[c] /\ inbox'[c][i] = inbox[c][i]
      BY <2>5, <3>1
    <3>3. \A j \in i + 1 .. Len(inbox[c]) : ~Names(inbox[c][j])
      <4>1. \A j \in i + 1 .. Len(inbox[c]) :
              j \in 1 .. Len(inbox[c]) /\ j \in i + 1 .. Len(inbox'[c])
        BY <2>5, <3>2
      <4> QED
        BY <2>5, <4>1
    <3> QED
      BY <2>3, <3>2, <3>3 DEF Follows, LastNamed
  <2>7. Knows(c)'
    <3>1. IsTold(c, {"update"}) => IsTold(c, {"update"})'
      <4>1. \A i \in DOMAIN inbox[c] : i \in DOMAIN inbox'[c] /\ inbox'[c][i] = inbox[c][i]
        BY <2>5
      <4> QED
        BY <4>1 DEF IsTold
    <3> QED
      BY <1>1, <2>2, <2>3, <3>1 DEF Follows, Knows, IsModerator
  <2> QED
    BY <2>6, <2>7 DEF Follows
<1>4. CASE TellsModerator
  <2>1. PICK e \in Client :
          /\ Takeover(e) \in Seq(Mail(Client)) /\ Len(Takeover(e)) = 2
          /\ Takeover(e)[1].type = "update" /\ Takeover(e)[1].mod = e
          /\ Takeover(e)[2].type = "task" /\ Multicast(Takeover(e))
          /\ moderator_client' = e
    BY <1>4 DEF TellsModerator
  <2> SUFFICES ASSUME NEW c \in alive \ missed
               PROVE  Follows(c)'
    BY <1>1, <1>2 DEF News
  <2>2. c \in Client /\ c \in alive
    BY DEF Types, ClientTypes
  <2>3. /\ inbox[c] \in Seq(Mail(Client)) /\ inbox'[c] \in Seq(Mail(Client))
        /\ Len(inbox'[c]) = Len(inbox[c]) + 2
        /\ inbox'[c][Len(inbox[c]) + 1] = Takeover(e)[1]
        /\ inbox'[c][Len(inbox[c]) + 2] = Takeover(e)[2]
    <3>1. /\ inbox[c] \in Seq(Mail(Client)) /\ inbox'[c] \in Seq(Mail(Client))
          /\ Len(inbox'[c]) = Len(inbox[c]) + Len(Takeover(e))
          /\ \A i \in 1 .. Len(Takeover(e)) :
               inbox'[c][Len(inbox[c]) + i] = Takeover(e)[i]
      BY <2>1, <2>2, MulticastFrom
    <3>2. 1 \in 1 .. Len(Takeover(e)) /\ 2 \in 1 .. Len(Takeover(e))
      BY <2>1
    <3> QED
      BY <2>1, <3>1, <3>2
  <2>4. LastNamed(c)'
    <3> SUFFICES ASSUME NEW i \in DOMAIN inbox'[c], Names(inbox'[c][i]),
                        \A j \in i + 1 .. Len(inbox'[c]) : ~Names(inbox'[c][j])
                 PROVE  inbox'[c][i].mod = e
      BY <2>1 DEF LastNamed, Names
    <3>1. Names(inbox'[c][Len(inbox[c]) + 1]) /\ ~Names(inbox'[c][Len(inbox[c]) + 2])
      BY <2>1, <2>3 DEF Names
    <3>2. i \in 1 .. Len(inbox[c]) + 2 /\ Len(inbox[c]) \in Nat
      BY <2>3
    <3>3. ~(i <= Len(inbox[c]))
      <4>1. i <= Len(inbox[c]) => Len(inbox[c]) + 1 \in i + 1 .. Len(inbox'[c])
        BY <2>3, <3>2
      <4> QED
        BY <3>1, <4>1
    <3>4. i = Len(inbox[c]) + 1
      <4>1. i = Len(inbox[c]) + 1 \/ i = Len(inbox[c]) + 2
        BY <3>2, <3>3
      <4> QED
        BY <3>1, <4>1
    <3> QED
      BY <2>1, <2>3, <3>4
  <2>5. IsTold(c, {"update"})'
    <3>1. Len(inbox[c]) + 1 \in DOMAIN inbox'[c]
      BY <2>3
    <3> QED
      BY <2>1, <2>3, <3>1 DEF IsTold
  <2> QED
    BY <2>4, <2>5 DEF Follows, Knows
<1>5. CASE TellsNothing
  <2>1. UNCHANGED inbox
    BY <1>5 DEF TellsNothing
  <2>2. CASE fsm_state' = "running"
    <3>1. fsm_state' = fsm_state /\ UNCHANGED moderator_client
      BY <1>5, <2>2 DEF TellsNothing
    <3> QED
      BY <1>1, <1>2, <2>1, <2>2, <3>1, FollowsKept DEF News, IsModerator
  <2>3. CASE fsm_state' # "running"
    BY <1>1, <2>3 DEF News
  <2> QED
    BY <2>2, <2>3
<1> QED
  BY <1>1, <1>3, <1>4, <1>5

(* Every step keeps what the clients know of the moderator.                *)
LEMMA NewsStep ==
  ASSUME Types(Client), \A c \in Client : HeartbeatsOf(c), Before, News, [Next]_vars
  PROVE  News'
<1>1. CASE ServerStep
  BY <1>1, ServerFollows
<1>2. CASE UNCHANGED vars
  <2>1. UNCHANGED <<fsm_state, moderator_client, alive, missed, inbox, role>>
    BY <1>2 DEF vars, server, clients, environment
  <2> QED
    BY <2>1, FollowsKept DEF News, IsModerator
<1>3. CASE Next /\ ~ServerStep
  <2>1. UNCHANGED <<fsm_state, moderator_client>>
    BY <1>3, ServerOrNot DEF server
  <2> SUFFICES ASSUME fsm_state \in {"selected", "running"},
                      NEW c \in alive' \ missed', c \in Client
               PROVE  Follows(c)'
    <3>1. alive' \subseteq Client
      BY TypesStep DEF Types, ClientTypes
    <3> QED
      BY <2>1, <3>1 DEF News
  <2>2. c \in alive \ missed => Follows(c)
    BY DEF News
  <2>3. ASSUME NEW m \in Client,
               \/ RcvHello(m) \/ NotifyTimeout(m) \/ NotifyTimeoutIgnored(m)
               \/ Monitor(m) \/ RcvResult(m) \/ ForceCleanup(m)
               \/ \E e \in Client : Heartbeat(e, m)
        PROVE  Follows(c)'
    <3>1. UNCHANGED <<inbox, alive, missed>> /\ (IsModerator(c)' => IsModerator(c))
      BY <2>3, RoleSteps
    <3> QED
      BY <2>1, <2>2, <3>1, FollowsKept
  <2>4. ASSUME NEW e \in Client, RcvNotify(e) \/ RcvTask(e) \/ RcvUpdate(e)
        PROVE  Follows(c)'
    <3>1. HasMail(e) /\ inbox' = Took(e) /\ UNCHANGED <<alive, missed>>
      BY <2>4 DEF RcvNotify, RcvTask, RcvUpdate, Takes, environment
    <3>2. CASE c = e
      BY <2>2, <2>4, <3>1, <3>2, MailFollows
    <3>3. CASE c # e
      <4>1. inbox'[c] = inbox[c]
        BY <3>1, <3>3, TookType
      <4>2. (\E r : role' = [role EXCEPT ![e] = r]) \/ UNCHANGED role
        BY <2>4 DEF RcvNotify, RcvTask, RcvUpdate, Reports
      <4>3. role'[c] = role[c]
        BY <3>3, <4>2, RoleSet
      <4> QED
        BY <2>1, <2>2, <3>1, <4>1, <4>3, FollowsKept DEF IsModerator
    <3> QED
      BY <3>2, <3>3
  <2>5. ASSUME NEW e \in Client, LoseMulticast(e)
        PROVE  Follows(c)'
    <3>1. /\ HasMail(e) /\ inbox' = Took(e) /\ UNCHANGED <<role, alive>>
          /\ missed' = missed \cup {e}
      BY <2>5 DEF LoseMulticast, clients
    <3>2. c # e /\ inbox'[c] = inbox[c]
      BY <3>1, TookType
    <3> QED
      BY <2>1, <2>2, <3>1, <3>2, FollowsKept DEF IsModerator
  <2>6. ASSUME NEW e \in Client, Ended(e)
        PROVE  Follows(c)'
    <3>1. alive' = alive \ {e} /\ UNCHANGED missed /\ c # e
      BY <2>6 DEF Ended
    <3>2. inbox'[c] = inbox[c]
      BY <2>6, <3>1 DEF Ended, Types, MailTypes
    <3>3. role'[c] = role[c]
      BY <2>6, <3>1, RoleSet DEF Ended
    <3> QED
      BY <2>1, <2>2, <3>1, <3>2, <3>3, FollowsKept DEF IsModerator
  <2>7. ASSUME NEW d \in BagToSet(net), LoseDatagram(d)
        PROVE  Follows(c)'
    <3>1. UNCHANGED <<role, inbox, alive>> /\ missed \subseteq missed'
      BY <2>7 DEF LoseDatagram, clients
    <3> QED
      BY <2>1, <2>2, <3>1, FollowsKept DEF IsModerator
  <2>8. ASSUME NEW w \in workers,
               \/ WorkerCounts(w) \/ WorkerChecks(w) \/ WorkerStopsTimer(w)
               \/ WorkerReports(w) \/ WorkerCaches(w) \/ FetchFails(w),
               ~Ended(w.by)
        PROVE  Follows(c)'
    <3>0. w.by \in Client
      BY DEF Types, WorkerTypes, Worker
    <3>1. UNCHANGED <<inbox, alive, missed>>
      BY <2>8 DEF WorkerCounts, WorkerChecks, WorkerStopsTimer, WorkerReports,
         WorkerCaches, FetchFails, environment
    <3>2. (\E r : IsModerator(w.by) /\ role' = [role EXCEPT ![w.by] = r])
          \/ UNCHANGED role
      BY <2>8 DEF WorkerCounts, WorkerChecks, WorkerStopsTimer, WorkerReports,
         WorkerCaches, FetchFails, CollectsFrom, Answers
    <3>3. IsModerator(c)' => IsModerator(c)
      BY <3>0, <3>2, RoleSet DEF IsModerator
    <3> QED
      BY <2>1, <2>2, <3>1, <3>3, FollowsKept
  <2>9. ASSUME NEW w \in workers, Ended(w.by)
        PROVE  Follows(c)'
    <3>0. w.by \in Client
      BY DEF Types, WorkerTypes, Worker
    <3> QED
      BY <2>6, <2>9, <3>0
  <2> QED
    BY <1>3, <2>3, <2>4, <2>5, <2>6, <2>7, <2>8, <2>9, Endings DEF Next, ServerStep
<1> QED
  BY <1>1, <1>2, <1>3

(* A moderator that the server has replaced is told                        *)
(* (send_new_moderator_info), in whatever order the datagrams arrive and   *)
(* whoever dies or is given up meanwhile, unless the datagram that tells   *)
(* it is lost.                                                             *)
THEOREM DeposedTold == Spec => []DeposedIsTold
<1> DEFINE Inv == /\ Types(Client) /\ Before /\ News
                  /\ \A c \in Client : HeartbeatsOf(c)
<1>1. Init => Inv
  <2> SUFFICES ASSUME Init
               PROVE  News
    BY InitTypes, MoreParts, InitHeartbeats, InitBefore
  <2>1. ASSUME NEW c \in Client
        PROVE  Follows(c)
    <3>1. /\ inbox[c] = <<[type |-> "notify", mod |-> moderator_client]>>
          /\ role[c] = NULL
      BY DEF Init
    <3> QED
      BY <3>1 DEF Follows, LastNamed, Knows, IsModerator
  <2> QED
    BY <2>1 DEF News, Init
<1>2. Inv /\ [Next]_vars => Inv'
  BY TypesStep, HeartbeatsStep, BeforeStep, NewsStep
<1>3. Inv => DeposedIsTold
  BY DEF DeposedIsTold, News, Follows, Knows
<1> QED
  BY <1>1, <1>2, <1>3, PTL DEF Spec

----------------------------------------------------------------------------
(* The moderator acts.  What is on its way of the answers of a client:     *)
(* none, or no more than one.                                              *)
AnswerOf(d, c) == d.type = "answer" /\ d.from = c
NoAnswer(c) == \A d \in BagToSet(net) : ~AnswerOf(d, c)
OneAnswer(c) ==
  \A d, e \in BagToSet(net) :
    AnswerOf(d, c) /\ AnswerOf(e, c) => d = e /\ net[d] = 1
Quiet(c) == ~IsModerator(c) /\ NoAnswer(c)
Answered(c) == ~IsModerator(c) /\ ~NoAnswer(c) /\ OneAnswer(c)

(* A client is called when it has yet to take a datagram that makes it the *)
(* moderator, and informed when none that names anybody is left.           *)
Calls(d, c) == Names(d) /\ d.mod = c
Called(c) == \E i \in DOMAIN inbox[c] : Calls(inbox[c][i], c)
Informed(c) == \A i \in DOMAIN inbox[c] : ~Names(inbox[c][i])

(* A client that the server does not follow is not called, has answered at *)
(* most once, and not while it still collects results.  Those the server   *)
(* may choose next have never been moderator, or have answered.            *)
Aside(c) ==
  /\ ~Called(c) /\ OneAnswer(c) /\ (IsModerator(c) => NoAnswer(c))
  /\ c \notin clbusy => Quiet(c)

(* The first moderator has had no successor: nobody else has been called.  *)
(* It is called by the notification, then it collects, then it has         *)
(* answered; before it is informed it is not given up.                     *)
Acts(c) ==
  \/ Called(c) /\ Quiet(c) /\ fsm_state # "searching"
  \/ Informed(c) /\ IsModerator(c) /\ NoAnswer(c)
  \/ Informed(c) /\ Answered(c)
FirstStill ==
  /\ clbusy = {moderator_client}
  /\ \A c \in Client :
       /\ \A i \in DOMAIN inbox[c] :
            Names(inbox[c][i]) => /\ inbox[c][i].type = "notify"
                                  /\ inbox[c][i].mod = moderator_client
       /\ c # moderator_client => Quiet(c)
  /\ Acts(moderator_client)

(* A client that was chosen is called by an update with a task request     *)
(* behind it; then it waits for that request, then its timer runs; then it *)
(* has answered.                                                           *)
Appointed(c) ==
  /\ Quiet(c) /\ Called(c)
  /\ \A i \in DOMAIN inbox[c] :
       Calls(inbox[c][i], c) =>
         /\ inbox[c][i].type = "update"
         /\ \A j \in i + 1 .. Len(inbox[c]) : ~Names(inbox[c][j])
         /\ \E j \in i + 1 .. Len(inbox[c]) : inbox[c][j].type = "task"
Tracks(c) == role[c].fsm = "task" /\ role[c].timer \in {"none", "monitor", "single"}
Serves(c) ==
  /\ Informed(c) /\ IsModerator(c) /\ NoAnswer(c) /\ Tracks(c)
  /\ role[c].timer = "none" => IsTold(c, {"task"})
Chosen(c) ==
  /\ fsm_state = "running"
  /\ Appointed(c) \/ Serves(c) \/ (Informed(c) /\ Answered(c))

Acting ==
  fsm_state \notin {"done", "ended"} =>
    \A c \in alive \ missed :
      IF c = moderator_client THEN FirstStill \/ Chosen(c) ELSE Aside(c)

(* What a step does to a client: nothing of this, or its role ends with an *)
(* answer, or it is no longer counted on.                                  *)
AnswersKept(c) == \A d : AnswerOf(d, c) => Alike(net, net', d)
RoleKept(c) ==
  /\ IsModerator(c)' <=> IsModerator(c)
  /\ IsModerator(c) /\ Tracks(c) => Tracks(c)' /\ role'[c].timer = role[c].timer
Kept(c) == inbox'[c] = inbox[c] /\ RoleKept(c) /\ AnswersKept(c)
Ends(c) ==
  /\ inbox'[c] = inbox[c] /\ IsModerator(c) /\ ~IsModerator(c)'
  /\ NoAnswer(c) => ~NoAnswer(c)' /\ OneAnswer(c)'
Leaves(c) ==
  /\ c \notin alive' \ missed' /\ (IsModerator(c)' => IsModerator(c))
  /\ NoAnswer(c) => NoAnswer(c)'
  /\ \A i \in DOMAIN inbox'[c] : \E j \in DOMAIN inbox[c] : inbox'[c][i] = inbox[c][j]

(* The answers of a client that a step leaves alone.                       *)
LEMMA AnswersAlike ==
  ASSUME NEW c, AnswersKept(c)
  PROVE  (NoAnswer(c)' <=> NoAnswer(c)) /\ (OneAnswer(c)' <=> OneAnswer(c))
<1>1. NoAnswer(c)' <=> NoAnswer(c)
  BY DEF AnswersKept, NoAnswer, AnswerOf, Alike
<1>2. OneAnswer(c)' <=> OneAnswer(c)
  BY DEF AnswersKept, OneAnswer, AnswerOf, Alike
<1> QED
  BY <1>1, <1>2

(* A client to which nothing of this has happened.                         *)
LEMMA KeptActs ==
  ASSUME NEW c, Kept(c), UNCHANGED <<fsm_state, clbusy>>
  PROVE  /\ Aside(c) => Aside(c)'
         /\ Chosen(c) => Chosen(c)'
         /\ Quiet(c) => Quiet(c)'
         /\ Acts(c) => Acts(c)'
<1>1. /\ inbox'[c] = inbox[c] /\ (IsModerator(c)' <=> IsModerator(c))
      /\ NoAnswer(c)' <=> NoAnswer(c)
      /\ OneAnswer(c)' <=> OneAnswer(c)
      /\ IsModerator(c) /\ Tracks(c) => Tracks(c)' /\ role'[c].timer = role[c].timer
  BY AnswersAlike DEF Kept, RoleKept
<1>2. Called(c)' <=> Called(c)
  BY <1>1 DEF Called, Calls, Names
<1>3. Informed(c)' <=> Informed(c)
  BY <1>1 DEF Informed, Names
<1>4. (Quiet(c)' <=> Quiet(c)) /\ (Answered(c)' <=> Answered(c))
  BY <1>1 DEF Quiet, Answered
<1>5. Aside(c) => Aside(c)'
  BY <1>1, <1>2, <1>4 DEF Aside
<1>6. Appointed(c) => Appointed(c)'
  BY <1>1, <1>2, <1>4 DEF Appointed, Calls, Names
<1>7. Serves(c) => Serves(c)'
  BY <1>1, <1>3 DEF Serves, IsTold
<1>8. Acts(c) => Acts(c)'
  BY <1>1, <1>2, <1>3, <1>4 DEF Acts
<1> QED
  BY <1>2, <1>3, <1>4, <1>5, <1>6, <1>7, <1>8 DEF Chosen

(* A step in which the server has no part, and in which nobody takes a     *)
(* datagram to the group.                                                  *)
LEMMA ActingKept ==
  ASSUME Types(Client), Acting, fsm_state \notin {"done", "ended"},
         UNCHANGED <<fsm_state, moderator_client, clbusy>>,
         alive' \ missed' \subseteq alive \ missed,
         \A c \in Client : Kept(c) \/ Ends(c) \/ Leaves(c)
  PROVE  Acting'
<1> SUFFICES ASSUME NEW c \in alive' \ missed'
             PROVE  IF c = moderator_client THEN FirstStill' \/ Chosen(c)' ELSE Aside(c)'
  BY DEF Acting
<1>1. c \in Client /\ c \in alive \ missed /\ (Kept(c) \/ Ends(c))
  BY DEF Types, ClientTypes, Leaves
<1>2. IF c = moderator_client THEN FirstStill \/ Chosen(c) ELSE Aside(c)
  BY <1>1 DEF Acting
<1>3. ASSUME Ends(c)
      PROVE  /\ Called(c)' <=> Called(c)
             /\ Informed(c)' <=> Informed(c)
             /\ NoAnswer(c) => Answered(c)'
             /\ IsModerator(c) /\ ~IsModerator(c)'
  BY <1>3 DEF Ends, Called, Informed, Calls, Names, Answered
<1>4. CASE c # moderator_client
  <2>1. Aside(c)
    BY <1>2, <1>4
  <2>2. CASE Kept(c)
    BY <1>4, <2>1, <2>2, KeptActs
  <2>3. CASE Ends(c)
    <3>1. c \in clbusy /\ NoAnswer(c) /\ ~Called(c)
      BY <1>3, <2>1, <2>3 DEF Aside, Quiet
    <3> QED
      BY <1>3, <1>4, <2>3, <3>1 DEF Aside, Answered
  <2> QED
    BY <1>1, <2>2, <2>3
<1>5. CASE c = moderator_client /\ Chosen(c)
  <2>1. CASE Kept(c)
    BY <1>5, <2>1, KeptActs
  <2>2. CASE Ends(c)
    BY <1>3, <1>5, <2>2 DEF Chosen, Appointed, Serves, Quiet, Answered
  <2> QED
    BY <1>1, <1>5, <2>1, <2>2
<1>6. CASE c = moderator_client /\ FirstStill
  <2>1. ASSUME NEW e \in Client
        PROVE  /\ \A i \in DOMAIN inbox'[e] :
                    Names(inbox'[e][i]) => /\ inbox'[e][i].type = "notify"
                                           /\ inbox'[e][i].mod = c
               /\ e # c => Quiet(e)'
    <3>1. \A i \in DOMAIN inbox[e] :
            Names(inbox[e][i]) => inbox[e][i].type = "notify" /\ inbox[e][i].mod = c
      BY <1>6 DEF FirstStill
    <3>2. e # c => Quiet(e)
      BY <1>6 DEF FirstStill
    <3>3. CASE Kept(e)
      <4>1. Quiet(e) => Quiet(e)'
        BY <3>3, KeptActs
      <4> QED
        BY <3>1, <3>2, <3>3, <4>1 DEF Kept
    <3>4. CASE Ends(e)
      BY <3>1, <3>2, <3>4 DEF Ends, Quiet
    <3>5. CASE Leaves(e)
      <4>1. \A i \in DOMAIN inbox'[e] : \E j \in DOMAIN inbox[e] : inbox'[e][i] = inbox[e][j]
        BY <3>5 DEF Leaves
      <4>2. Quiet(e) => Quiet(e)'
        BY <3>5 DEF Leaves, Quiet
      <4> QED
        BY <3>1, <3>2, <4>1, <4>2
    <3> QED
      BY <3>3, <3>4, <3>5
  <2>2. Acts(c)
    BY <1>6 DEF FirstStill
  <2>3. Acts(c)'
    <3>1. CASE Kept(c)
      BY <2>2, <3>1, KeptActs
    <3>2. CASE Ends(c)
      BY <1>3, <2>2, <3>2 DEF Acts, Quiet, Answered
    <3> QED
      BY <1>1, <3>1, <3>2
  <2>4. clbusy' = {c} /\ moderator_client' = c
    BY <1>6 DEF FirstStill
  <2>5. FirstStill'
    BY <2>1, <2>3, <2>4 DEF FirstStill, Names
  <2> QED
    BY <1>6, <2>5
<1> QED
  BY <1>2, <1>4, <1>5, <1>6

(* A moderator with another role.                                          *)
LEMMA RoleActs ==
  ASSUME Types(Client), NEW m \in Client, IsModerator(m), NEW r \in Roles(Client),
         role' = [role EXCEPT ![m] = r],
         Tracks(m) => r.fsm = "task" /\ r.timer = role[m].timer,
         UNCHANGED inbox, \A d : d.type = "answer" => Alike(net, net', d)
  PROVE  \A c \in Client : Kept(c)
<1> SUFFICES ASSUME NEW c \in Client
             PROVE  Kept(c)
  OBVIOUS
<1>1. role'[m] = r /\ \A e \in Client \ {m} : role'[e] = role[e]
  BY RoleSet
<1>2. r # NULL
  BY RolesAreRole
<1>3. RoleKept(c)
  BY <1>1, <1>2 DEF RoleKept, IsModerator, Tracks
<1> QED
  BY <1>3 DEF Kept, AnswersKept, AnswerOf

(* Nothing of the roles.                                                   *)
LEMMA NothingActs ==
  ASSUME UNCHANGED <<role, inbox>>, \A d : d.type = "answer" => Alike(net, net', d)
  PROVE  \A c : Kept(c)
  BY DEF Kept, RoleKept, IsModerator, Tracks, AnswersKept, AnswerOf

(* A role ends with an answer.                                             *)
LEMMA AnswersActs ==
  ASSUME Types(Client), NEW m \in Client, IsModerator(m), NEW r \in Roles(Client),
         NEW B \in Nets(Client), Answers(m, r, B), UNCHANGED inbox,
         \A d : d.type = "answer" => Alike(net, B, d)
  PROVE  \A c \in Client : Kept(c) \/ Ends(c)
<1> DEFINE a == Sent("answer", m, NULL, r.resp)
<1>1. role' = [role EXCEPT ![m] = NULL] /\ net' = BagAdd(B, a)
  BY DEF Answers
<1>2. role'[m] = NULL /\ \A e \in Client \ {m} : role'[e] = role[e]
  BY <1>1, RoleSet
<1>3. AnswerOf(a, m) /\ a.type = "answer" /\ a.from = m /\ a \in Msg(Client)
  <2>1. a.type = "answer" /\ a.from = m
    BY DEF Sent
  <2>2. r.resp \in Seq(Client)
    BY DEF Roles
  <2> QED
    BY <2>1, <2>2, SentType DEF AnswerOf
<1>4. BagToSet(net') = BagToSet(B) \cup {a}
  BY <1>1, <1>3, BagAddNet
<1> HIDE DEF a
<1>5. ASSUME NEW d, d # a
      PROVE  Alike(B, net', d)
  BY <1>1, <1>5, OthersAlike
<1>6. ASSUME NEW c \in Client, c # m
      PROVE  Kept(c)
  <2>1. role'[c] = role[c]
    BY <1>2, <1>6
  <2>2. AnswersKept(c)
    BY <1>3, <1>5, <1>6 DEF AnswersKept, AnswerOf, Alike
  <2> QED
    BY <2>1, <2>2 DEF Kept, RoleKept, IsModerator, Tracks
<1>7. ASSUME NoAnswer(m)
      PROVE  ~NoAnswer(m)' /\ OneAnswer(m)'
  <2>1. ~NoAnswer(m)'
    BY <1>3, <1>4 DEF NoAnswer
  <2>2. \A d \in BagToSet(B) : ~AnswerOf(d, m)
    BY <1>7 DEF NoAnswer, AnswerOf, Alike
  <2>3. net'[a] = 1
    BY <1>1, <1>3, <2>2, OneOfAKind
  <2>4. OneAnswer(m)'
    BY <1>4, <2>2, <2>3 DEF OneAnswer
  <2> QED
    BY <2>1, <2>4
<1>8. Ends(m)
  BY <1>2, <1>7 DEF Ends, IsModerator
<1> QED
  BY <1>6, <1>8

(* A result is collected.                                                  *)
LEMMA CollectsActs ==
  ASSUME Types(Client), NEW m \in Client, NEW c, NEW p \in Client,
         NEW B \in Nets(Client), CollectsFrom(m, c, p, B), UNCHANGED inbox,
         \A d : d.type = "answer" => Alike(net, B, d)
  PROVE  \A e \in Client : Kept(e) \/ Ends(e)
<1>1. CASE ~IsModerator(m) \/ Found(role[m].pending, c) = 0
  BY <1>1, NothingActs DEF CollectsFrom
<1>2. CASE IsModerator(m) /\ Found(role[m].pending, c) # 0
  <2> DEFINE r == Collected(role[m], c, p)
  <2>1. role[m] \in Roles(Client)
    BY <1>2, RoleOf
  <2>2. r \in Roles(Client) /\ r.fsm = role[m].fsm /\ r.timer = role[m].timer
    BY <1>2, <2>1, CollectedType
  <2>3. \/ Answers(m, r, B)
        \/ role' = [role EXCEPT ![m] = r] /\ net' = B
    BY <1>2 DEF CollectsFrom
  <2> HIDE DEF r
  <2>4. CASE Answers(m, r, B)
    BY <1>2, <2>2, <2>4, AnswersActs
  <2>5. CASE role' = [role EXCEPT ![m] = r] /\ net' = B
    <3>1. Tracks(m) => r.fsm = "task" /\ r.timer = role[m].timer
      BY <2>2 DEF Tracks
    <3> QED
      BY <1>2, <2>2, <2>5, <3>1, RoleActs
  <2> QED
    BY <2>3, <2>4, <2>5
<1> QED
  BY <1>1, <1>2

(* A report is sent.                                                       *)
LEMMA ReportsActs ==
  ASSUME Types(Client), NEW m \in Client, NEW r \in Roles(Client),
         NEW t \in {"none", "expired"}, NEW B \in Nets(Client), Reports(m, r, t, B),
         \A d : d.type = "answer" => Alike(net, B, d)
  PROVE  /\ \E q \in Roles(Client) : role' = [role EXCEPT ![m] = q]
         /\ \A d : d.type = "answer" => Alike(net, net', d)
<1> DEFINE q == [r EXCEPT !.fsm = "notified", !.timer = t, !.heard = <<>>]
           a == Sent("report", m, NULL, r.heard)
<1>1. role' = [role EXCEPT ![m] = q] /\ net' = BagAdd(B, a)
  BY DEF Reports
<1>2. q \in Roles(Client)
  <2>1. <<>> \in Seq(Client)
    OBVIOUS
  <2> QED
    BY <2>1 DEF Roles
<1>3. a.type = "report"
  BY DEF Sent
<1> HIDE DEF a, q
<1>4. \A d : d.type = "answer" => Alike(B, net', d)
  BY <1>1, <1>3, OthersAlike
<1>5. \A d : d.type = "answer" => Alike(net, net', d)
  BY <1>4 DEF Alike
<1> QED
  BY <1>1, <1>2, <1>5

(* A datagram that is no answer is taken.                                  *)
LEMMA TakenAlike ==
  ASSUME Types(Client), NEW d \in BagToSet(net), d.type # "answer"
  PROVE  /\ d \in Msg(Client) /\ BagRemove(net, d) \in Nets(Client)
         /\ \A e : e.type = "answer" => Alike(net, BagRemove(net, d), e)
<1>1. net \in Nets(Client)
  BY DEF Types, MailTypes
<1>2. d \in Msg(Client) /\ BagRemove(net, d) \in Nets(Client)
  BY <1>1, NetIsBag, BagRemoveNet
<1>3. \A e : e.type = "answer" => Alike(net, BagRemove(net, d), e)
  BY <1>1, OthersAlike
<1> QED
  BY <1>2, <1>3

(* An echo request, or the end of the time for them.                       *)
LEMMA HelloActs ==
  ASSUME Types(Client), NEW m \in Client,
         RcvHello(m) \/ NotifyTimeout(m) \/ NotifyTimeoutIgnored(m)
  PROVE  \A c \in Client : Kept(c)
<1>1. UNCHANGED inbox
  BY DEF RcvHello, NotifyTimeout, NotifyTimeoutIgnored
<1>2. net \in Nets(Client) /\ \A d : Alike(net, net, d)
  BY DEF Types, MailTypes, Alike
<1>3. CASE RcvHello(m)
  <2>1. PICK d \in BagToSet(net) :
          /\ d.type = "hello"
          /\ LET r == [role[m] EXCEPT !.heard = Append(role[m].heard, d.from)]
             IN IF ~IsModerator(m) \/ role[m].fsm = "notified"
                THEN net' = BagRemove(net, d) /\ UNCHANGED role
                ELSE IF role[m].fsm = "task"
                THEN /\ net' = BagRemove(net, d)
                     /\ role' = [role EXCEPT ![m] = Heard(role[m], d.from)]
                ELSE IF Len(r.heard) = r.active
                     THEN Reports(m, r, "none", BagRemove(net, d))
                     ELSE role' = [role EXCEPT ![m] = r] /\ net' = BagRemove(net, d)
    BY <1>3 DEF RcvHello
  <2>2. /\ d.from \in Client /\ BagRemove(net, d) \in Nets(Client)
        /\ \A e : e.type = "answer" => Alike(net, BagRemove(net, d), e)
    BY <2>1, TakenAlike, MsgFacts
  <2> DEFINE r == [role[m] EXCEPT !.heard = Append(role[m].heard, d.from)]
             rest == BagRemove(net, d)
  <2>3. CASE ~IsModerator(m) \/ role[m].fsm = "notified"
    BY <1>1, <2>1, <2>2, <2>3, NothingActs
  <2>4. CASE IsModerator(m) /\ role[m].fsm = "task"
    <3>1. role[m] \in Roles(Client)
      BY <2>4, RoleOf
    <3>2. /\ Heard(role[m], d.from) \in Roles(Client)
          /\ Heard(role[m], d.from).fsm = role[m].fsm
          /\ Heard(role[m], d.from).timer = role[m].timer
      BY <3>1, HeardType
    <3>3. net' = rest /\ role' = [role EXCEPT ![m] = Heard(role[m], d.from)]
      BY <2>1, <2>4
    <3> QED
      BY <1>1, <2>2, <2>4, <3>2, <3>3, RoleActs
  <2>5. CASE IsModerator(m) /\ role[m].fsm = "notify"
    <3>1. PICK q \in Roles(Client) : q = role[m]
      BY <2>5, RoleOf
    <3>2. r \in Roles(Client)
      <4> DEFINE h == Append(q.heard, d.from)
      <4>1. h \in Seq(Client)
        BY <2>2 DEF Roles
      <4> HIDE DEF h
      <4>2. [q EXCEPT !.heard = h] \in Roles(Client)
        BY <4>1 DEF Roles
      <4> QED
        BY <3>1, <4>2 DEF h
    <3>3. Reports(m, r, "none", rest) \/ (role' = [role EXCEPT ![m] = r] /\ net' = rest)
      BY <2>1, <2>5
    <3>4. ~Tracks(m)
      BY <2>5 DEF Tracks
    <3> HIDE DEF r, rest
    <3>5. CASE Reports(m, r, "none", rest)
      BY <1>1, <2>2, <2>5, <3>2, <3>4, <3>5, ReportsActs, RoleActs DEF rest
    <3>6. CASE role' = [role EXCEPT ![m] = r] /\ net' = rest
      BY <1>1, <2>2, <2>5, <3>2, <3>4, <3>6, RoleActs DEF rest
    <3> QED
      BY <3>3, <3>5, <3>6
  <2>6. IsModerator(m) => role[m].fsm \in {"notify", "notified", "task"}
    BY RoleOf DEF Roles
  <2> QED
    BY <2>3, <2>4, <2>5, <2>6
<1>4. CASE NotifyTimeout(m)
  <2>1. IsModerator(m) /\ ~Tracks(m) /\ Reports(m, role[m], "expired", net)
    BY <1>4 DEF NotifyTimeout, Tracks
  <2>2. role[m] \in Roles(Client)
    BY <2>1, RoleOf
  <2> QED
    BY <1>1, <1>2, <2>1, <2>2, ReportsActs, RoleActs
<1>5. CASE NotifyTimeoutIgnored(m)
  <2> DEFINE r == [role[m] EXCEPT !.timer = "expired"]
  <2>1. IsModerator(m) /\ ~Tracks(m) /\ UNCHANGED net
    BY <1>5 DEF NotifyTimeoutIgnored, Tracks
  <2>2. [role EXCEPT ![m].timer = "expired"] = [role EXCEPT ![m] = r]
    BY Zenon
  <2>3. role' = [role EXCEPT ![m] = r]
    BY <1>5, <2>2 DEF NotifyTimeoutIgnored
  <2>4. PICK q \in Roles(Client) : q = role[m]
    BY <2>1, RoleOf
  <2>5. r \in Roles(Client)
    BY <2>4 DEF Roles
  <2> HIDE DEF r
  <2> QED
    BY <1>1, <1>2, <2>1, <2>3, <2>5, RoleActs
<1> QED
  BY <1>3, <1>4, <1>5

(* A heartbeat, or the walk over the pending list.                         *)
LEMMA MonitorActs ==
  ASSUME Types(Client), NEW m \in Client,
         Monitor(m) \/ \E c \in Client : Heartbeat(c, m)
  PROVE  \A c \in Client : Kept(c)
<1>1. UNCHANGED inbox /\ IsModerator(m) /\ net \in Nets(Client)
  BY DEF Monitor, Heartbeat, Types, MailTypes
<1>2. role[m] \in Roles(Client)
  BY <1>1, RoleOf
<1>3. CASE Monitor(m)
  <2>1. PICK q \in Seq(Nodes) : role' = [role EXCEPT ![m].pending = q]
    BY <1>3, MonitorTypes
  <2> DEFINE r == [role[m] EXCEPT !.pending = q]
  <2>2. [role EXCEPT ![m].pending = q] = [role EXCEPT ![m] = r]
    BY Zenon
  <2>3. r \in Roles(Client) /\ r.fsm = role[m].fsm /\ r.timer = role[m].timer
    <3>1. PICK s \in Roles(Client) : s = role[m]
      BY <1>2
    <3> QED
      BY <3>1 DEF Roles
  <2>4. UNCHANGED net \/ \E id : net' = BagAdd(net, Sent("dead", m, NULL, id))
    BY <1>3 DEF Monitor
  <2>5. \A d : d.type = "answer" => Alike(net, net', d)
    <3>1. \A id : Sent("dead", m, NULL, id).type = "dead"
      BY DEF Sent
    <3>2. \A d : Alike(net, net, d)
      BY DEF Alike
    <3> QED
      BY <1>1, <2>4, <3>1, <3>2, OthersAlike
  <2>6. role' = [role EXCEPT ![m] = r]
    BY <2>1, <2>2
  <2> HIDE DEF r
  <2>7. Tracks(m) => r.fsm = "task" /\ r.timer = role[m].timer
    BY <2>3 DEF Tracks
  <2> QED
    BY <1>1, <2>3, <2>5, <2>6, <2>7, RoleActs
<1>4. CASE \E c \in Client : Heartbeat(c, m)
  <2>1. PICK c \in Client : role' = [role EXCEPT ![m] = Heard(role[m], c)] /\ UNCHANGED net
    BY <1>4 DEF Heartbeat
  <2>2. /\ Heard(role[m], c) \in Roles(Client)
        /\ Heard(role[m], c).fsm = role[m].fsm
        /\ Heard(role[m], c).timer = role[m].timer
    BY <1>2, HeardType
  <2>3. Tracks(m) => Heard(role[m], c).fsm = "task" /\ Heard(role[m], c).timer = role[m].timer
    BY <2>2 DEF Tracks
  <2>4. \A d : Alike(net, net', d)
    BY <2>1 DEF Alike
  <2> QED
    BY <1>1, <2>1, <2>2, <2>3, <2>4, RoleActs
<1> QED
  BY <1>3, <1>4

(* A result, or a cleanup.                                                 *)
LEMMA ResultActs ==
  ASSUME Types(Client), NEW m \in Client, RcvResult(m) \/ ForceCleanup(m)
  PROVE  \A c \in Client : Kept(c) \/ Ends(c)
<1>1. UNCHANGED inbox /\ net \in Nets(Client)
  BY DEF RcvResult, ForceCleanup, Types, MailTypes
<1>2. CASE RcvResult(m)
  <2>1. PICK d \in BagToSet(net) :
          d.type = "result" /\ CollectsFrom(m, d.from, d.data, BagRemove(net, d))
    BY <1>2 DEF RcvResult
  <2>2. /\ d.data \in Client /\ BagRemove(net, d) \in Nets(Client)
        /\ \A e : e.type = "answer" => Alike(net, BagRemove(net, d), e)
    BY <2>1, TakenAlike, MsgFacts
  <2> QED
    BY <1>1, <2>1, <2>2, CollectsActs
<1>3. CASE ForceCleanup(m)
  <2>1. IsModerator(m) /\ Answers(m, role[m], net)
    BY <1>3 DEF ForceCleanup
  <2>2. role[m] \in Roles(Client)
    BY <2>1, RoleOf
  <2>3. \A d : Alike(net, net, d)
    BY DEF Alike
  <2> QED
    BY <1>1, <2>1, <2>2, <2>3, AnswersActs
<1> QED
  BY <1>2, <1>3

(* A process ends.                                                         *)
LEMMA EndedActs ==
  ASSUME Types(Client), NEW e \in Client, Ended(e)
  PROVE  \A c \in Client : Kept(c) \/ Leaves(c)
<1>1. /\ alive' = alive \ {e} /\ role' = [role EXCEPT ![e] = NULL]
      /\ inbox' = [inbox EXCEPT ![e] = <<>>] /\ net' = Reaching(net, alive \ {e})
  BY DEF Ended
<1>2. net \in Nets(Client) /\ inbox \in [Client -> Seq(Mail(Client))]
  BY DEF Types, MailTypes
<1>3. ASSUME NEW c \in Client, NEW d, AnswerOf(d, c)
      PROVE  Alike(net, net', d) \/ (d \notin BagToSet(net) /\ d \notin BagToSet(net'))
  <2>1. CASE d \in BagToSet(net)
    <3>1. d \in Msg(Client)
      BY <1>2, <2>1, NetIsBag
    <3>2. d.to = NULL
      BY <1>3, <3>1 DEF Msg, AnswerOf
    <3> QED
      BY <1>1, <1>2, <3>2, ReachingAlike
  <2>2. CASE d \notin BagToSet(net)
    BY <1>1, <1>2, <2>2, ReachingNet
  <2> QED
    BY <2>1, <2>2
<1>4. \A c \in Client : AnswersKept(c)
  BY <1>3 DEF AnswersKept, Alike
<1>5. ASSUME NEW c \in Client, c # e
      PROVE  Kept(c)
  <2>1. role'[c] = role[c]
    BY <1>1, <1>5, RoleSet
  <2>2. inbox'[c] = inbox[c]
    BY <1>1, <1>2, <1>5
  <2> QED
    BY <1>4, <2>1, <2>2 DEF Kept, RoleKept, IsModerator, Tracks
<1>6. Leaves(e)
  <2>1. inbox'[e] = <<>> /\ e \notin alive'
    BY <1>1, <1>2
  <2>2. ~IsModerator(e)'
    BY <1>1, RoleSet DEF IsModerator
  <2>3. NoAnswer(e) => NoAnswer(e)'
    BY <1>4, AnswersAlike
  <2> QED
    BY <2>1, <2>2, <2>3 DEF Leaves
<1> QED
  BY <1>5, <1>6

(* A thread.                                                               *)
LEMMA WorkerActs ==
  ASSUME Types(Client), NEW w \in workers,
         \/ WorkerCounts(w) \/ WorkerChecks(w) \/ WorkerStopsTimer(w)
         \/ WorkerReports(w) \/ WorkerCaches(w) \/ FetchFails(w),
         ~Ended(w.by)
  PROVE  /\ \A c \in Client : Kept(c) \/ Ends(c)
         /\ UNCHANGED <<fsm_state, moderator_client, clbusy, alive, missed>>
<1>1. w.by \in Client /\ w.part \in Client /\ net \in Nets(Client)
  BY DEF Types, WorkerTypes, Worker, MailTypes
<1>2. UNCHANGED <<fsm_state, moderator_client, clbusy, alive, missed, inbox>>
  BY DEF WorkerCounts, WorkerChecks, WorkerStopsTimer, WorkerReports, WorkerCaches,
     FetchFails, server, environment
<1>3. \A d : Alike(net, net, d)
  BY DEF Alike
<1>4. CASE WorkerReports(w) /\ IsModerator(w.by)
  <2>1. CollectsFrom(w.by, w.by, w.part, net)
    BY <1>4 DEF WorkerReports
  <2> QED
    BY <1>1, <1>2, <1>3, <2>1, CollectsActs
<1>5. CASE WorkerReports(w) /\ ~IsModerator(w.by)
  <2>1. /\ UNCHANGED role
        /\ net' = Posted(net, Sent("result", w.by, moderator[w.by], w.part))
    BY <1>5 DEF WorkerReports
  <2>2. Sent("result", w.by, moderator[w.by], w.part).type = "result"
    BY DEF Sent
  <2>3. \A d : d.type = "answer" => Alike(net, net', d)
    BY <1>1, <2>1, <2>2, OthersAlike
  <2> QED
    BY <1>2, <2>1, <2>3, NothingActs
<1>6. CASE UNCHANGED <<role, net>>
  BY <1>2, <1>3, <1>6, NothingActs
<1>7. UNCHANGED <<role, net>> \/ WorkerReports(w)
  BY DEF WorkerCounts, WorkerChecks, WorkerStopsTimer, WorkerCaches, FetchFails
<1> QED
  BY <1>2, <1>4, <1>5, <1>6, <1>7

(* A datagram is lost.                                                     *)
LEMMA LossActs ==
  ASSUME Types(Client),
         \/ \E e \in Client : LoseMulticast(e)
         \/ \E d \in BagToSet(net) : LoseDatagram(d)
  PROVE  \A c \in Client : Kept(c) \/ Leaves(c)
<1>1. CASE \E e \in Client : LoseMulticast(e)
  <2>1. PICK e \in Client : /\ HasMail(e) /\ inbox' = Took(e) /\ UNCHANGED <<role, net>>
                            /\ missed' = missed \cup {e}
    BY <1>1 DEF LoseMulticast, clients
  <2>2. \A d : Alike(net, net', d)
    BY <2>1 DEF Alike
  <2>3. ASSUME NEW c \in Client, c # e
        PROVE  Kept(c)
    <3>1. inbox'[c] = inbox[c]
      BY <2>1, <2>3, TookType
    <3> QED
      BY <2>1, <2>2, <3>1 DEF Kept, RoleKept, IsModerator, Tracks, AnswersKept
  <2>4. Leaves(e)
    <3>1. inbox[e] \in Seq(Mail(Client)) /\ inbox[e] # <<>> /\ inbox'[e] = Tail(inbox[e])
      BY <2>1, TookType DEF Types, MailTypes, HasMail
    <3>2. \A i \in DOMAIN inbox'[e] :
            i + 1 \in DOMAIN inbox[e] /\ inbox'[e][i] = inbox[e][i + 1]
      BY <3>1
    <3>3. NoAnswer(e) => NoAnswer(e)'
      BY <2>1 DEF NoAnswer
    <3> QED
      BY <2>1, <3>2, <3>3 DEF Leaves, IsModerator
  <2> QED
    BY <2>3, <2>4
<1>2. CASE \E d \in BagToSet(net) : LoseDatagram(d)
  <2>1. PICK d \in BagToSet(net) : /\ net' = BagRemove(net, d) /\ UNCHANGED <<role, inbox>>
                                   /\ missed' = missed \cup {d.from}
    BY <1>2 DEF LoseDatagram, clients
  <2>2. net \in Nets(Client)
    BY DEF Types, MailTypes
  <2>3. ASSUME NEW c \in Client, c # d.from
        PROVE  Kept(c)
    <3>1. \A e : AnswerOf(e, c) => Alike(net, net', e)
      BY <2>1, <2>2, <2>3, OthersAlike DEF AnswerOf
    <3> QED
      BY <2>1, <3>1 DEF Kept, RoleKept, IsModerator, Tracks, AnswersKept
  <2>4. ASSUME NEW c \in Client, c = d.from
        PROVE  Leaves(c)
    <3>1. NoAnswer(c) => NoAnswer(c)'
      BY <2>1, <2>2, BagRemoveNet DEF NoAnswer
    <3> QED
      BY <2>1, <2>4, <3>1 DEF Leaves, IsModerator
  <2> QED
    BY <2>3, <2>4
<1> QED
  BY <1>1, <1>2

(* A client takes the first datagram: what it is told by those behind it   *)
(* stays.                                                                  *)
LEMMA TookActs ==
  ASSUME Types(Client), NEW c \in Client, HasMail(c), inbox' = Took(c)
  PROVE  /\ inbox'[c] \in Seq(Mail(Client)) /\ Len(inbox[c]) = Len(inbox'[c]) + 1
         /\ 1 \in DOMAIN inbox[c] /\ inbox[c][1] = Head(inbox[c])
         /\ \A i \in DOMAIN inbox'[c] :
              i + 1 \in DOMAIN inbox[c] /\ inbox'[c][i] = inbox[c][i + 1]
         /\ \A i \in DOMAIN inbox[c] :
              i = 1 \/ (i - 1 \in DOMAIN inbox'[c] /\ inbox[c][i] = inbox'[c][i - 1])
         /\ \A e \in Client \ {c} : inbox'[e] = inbox[e]
<1>1. inbox[c] \in Seq(Mail(Client)) /\ inbox[c] # <<>> /\ inbox'[c] = Tail(inbox[c])
      /\ \A e \in Client \ {c} : inbox'[e] = inbox[e]
  BY TookType DEF Types, MailTypes, HasMail
<1>2. /\ inbox'[c] \in Seq(Mail(Client)) /\ Len(inbox[c]) = Len(inbox'[c]) + 1
      /\ 1 \in DOMAIN inbox[c] /\ inbox[c][1] = Head(inbox[c])
      /\ \A i \in DOMAIN inbox'[c] :
           i + 1 \in DOMAIN inbox[c] /\ inbox'[c][i] = inbox[c][i + 1]
  BY <1>1
<1>3. ASSUME NEW i \in DOMAIN inbox[c], i # 1
      PROVE  i - 1 \in DOMAIN inbox'[c] /\ inbox[c][i] = inbox'[c][i - 1]
  <2>1. i - 1 \in DOMAIN inbox'[c] /\ (i - 1) + 1 = i
    BY <1>1, <1>3
  <2> QED
    BY <1>2, <2>1
<1> QED
  BY <1>1, <1>2, <1>3

(* What that says of who is called.                                        *)
LEMMA TookCalls ==
  ASSUME Types(Client), NEW c \in Client, HasMail(c), inbox' = Took(c)
  PROVE  /\ Called(c)' => Called(c)
         /\ Informed(c) => Informed(c)'
         /\ Called(c) => Calls(Head(inbox[c]), c) \/ Called(c)'
         /\ \A types : IsTold(c, types) =>
              Head(inbox[c]).type \in types \/ IsTold(c, types)'
<1>1. /\ 1 \in DOMAIN inbox[c] /\ inbox[c][1] = Head(inbox[c])
      /\ \A i \in DOMAIN inbox'[c] :
           i + 1 \in DOMAIN inbox[c] /\ inbox'[c][i] = inbox[c][i + 1]
      /\ \A i \in DOMAIN inbox[c] :
           i = 1 \/ (i - 1 \in DOMAIN inbox'[c] /\ inbox[c][i] = inbox'[c][i - 1])
  BY TookActs
<1>2. Called(c)' => Called(c)
  BY <1>1 DEF Called, Calls, Names
<1>3. Informed(c) => Informed(c)'
  BY <1>1 DEF Informed, Names
<1>4. Called(c) => Calls(Head(inbox[c]), c) \/ Called(c)'
  BY <1>1 DEF Called, Calls, Names
<1>5. \A types : IsTold(c, types) =>
        Head(inbox[c]).type \in types \/ IsTold(c, types)'
  BY <1>1 DEF IsTold
<1> QED
  BY <1>2, <1>3, <1>4, <1>5

(* A client that was appointed, and has yet to take the update.            *)
LEMMA TookAppointed ==
  ASSUME Types(Client), NEW c \in Client, HasMail(c), inbox' = Took(c),
         Appointed(c), ~Calls(Head(inbox[c]), c), Quiet(c)'
  PROVE  Appointed(c)'
<1>1. /\ inbox[c] \in Seq(Mail(Client))
      /\ inbox'[c] \in Seq(Mail(Client)) /\ Len(inbox[c]) = Len(inbox'[c]) + 1
      /\ \A i \in DOMAIN inbox'[c] :
           i + 1 \in DOMAIN inbox[c] /\ inbox'[c][i] = inbox[c][i + 1]
  BY TookActs DEF Types, MailTypes
<1>2. Called(c)'
  BY TookCalls DEF Appointed
<1>3. ASSUME NEW i \in DOMAIN inbox'[c], Calls(inbox'[c][i], c)
      PROVE  /\ inbox'[c][i].type = "update"
             /\ \A j \in i + 1 .. Len(inbox'[c]) : ~Names(inbox'[c][j])
             /\ \E j \in i + 1 .. Len(inbox'[c]) : inbox'[c][j].type = "task"
  <2>1. i + 1 \in DOMAIN inbox[c] /\ inbox'[c][i] = inbox[c][i + 1] /\ i \in Nat
        /\ Len(inbox'[c]) \in Nat
    BY <1>1
  <2>2. /\ inbox[c][i + 1].type = "update"
        /\ \A j \in (i + 1) + 1 .. Len(inbox[c]) : ~Names(inbox[c][j])
        /\ \E j \in (i + 1) + 1 .. Len(inbox[c]) : inbox[c][j].type = "task"
    BY <1>3, <2>1 DEF Appointed
  <2>3. ASSUME NEW j \in i + 1 .. Len(inbox'[c])
        PROVE  ~Names(inbox'[c][j])
    <3>1. j \in DOMAIN inbox'[c] /\ j + 1 \in (i + 1) + 1 .. Len(inbox[c])
      BY <1>1, <2>1
    <3> QED
      BY <1>1, <2>2, <3>1
  <2>4. PICK j \in (i + 1) + 1 .. Len(inbox[c]) : inbox[c][j].type = "task"
    BY <2>2
  <2>5. j - 1 \in i + 1 .. Len(inbox'[c]) /\ j - 1 \in DOMAIN inbox'[c] /\ (j - 1) + 1 = j
    BY <1>1, <2>1
  <2>6. inbox'[c][j - 1].type = "task"
    BY <1>1, <2>4, <2>5
  <2> QED
    BY <2>1, <2>2, <2>3, <2>5, <2>6
<1> QED
  BY <1>2, <1>3 DEF Appointed, Names, Calls

(* A client takes a datagram that leaves its role and its answers alone.   *)
LEMMA TookQuietly ==
  ASSUME Types(Client), NEW c \in Client, HasMail(c), inbox' = Took(c),
         UNCHANGED <<fsm_state, clbusy>>, RoleKept(c), AnswersKept(c),
         ~Calls(Head(inbox[c]), c), Head(inbox[c]).type # "task" \/ ~IsModerator(c)
  PROVE  /\ Aside(c) => Aside(c)'
         /\ Chosen(c) => Chosen(c)'
         /\ Quiet(c) => Quiet(c)'
         /\ Acts(c) => Acts(c)'
<1>1. /\ Called(c)' <=> Called(c)
      /\ Informed(c) => Informed(c)'
      /\ IsTold(c, {"task"}) => Head(inbox[c]).type = "task" \/ IsTold(c, {"task"})'
  BY TookCalls
<1>2. /\ IsModerator(c)' <=> IsModerator(c)
      /\ NoAnswer(c)' <=> NoAnswer(c)
      /\ OneAnswer(c)' <=> OneAnswer(c)
      /\ IsModerator(c) /\ Tracks(c) => Tracks(c)' /\ role'[c].timer = role[c].timer
  BY AnswersAlike DEF RoleKept
<1>3. (Quiet(c)' <=> Quiet(c)) /\ (Answered(c)' <=> Answered(c))
  BY <1>2 DEF Quiet, Answered
<1>4. Aside(c) => Aside(c)'
  BY <1>1, <1>2, <1>3 DEF Aside
<1>5. Appointed(c) => Appointed(c)'
  BY <1>3, TookAppointed DEF Appointed
<1>6. Serves(c) => Serves(c)'
  BY <1>1, <1>2 DEF Serves
<1>7. Acts(c) => Acts(c)'
  BY <1>1, <1>2, <1>3 DEF Acts
<1> QED
  BY <1>1, <1>3, <1>4, <1>5, <1>6, <1>7 DEF Chosen

(* A step of one client, and what is to be shown of it.                    *)
LEMMA ActingMail ==
  ASSUME Types(Client), Acting, fsm_state \notin {"done", "ended"},
         UNCHANGED <<fsm_state, moderator_client, clbusy, alive, missed>>,
         NEW e \in Client, HasMail(e), inbox' = Took(e),
         \A c \in Client \ {e} : Kept(c),
         e # moderator_client /\ Aside(e) => Aside(e)',
         e = moderator_client /\ Chosen(e) => Chosen(e)',
         FirstStill => /\ e # moderator_client /\ Quiet(e) => Quiet(e)'
                       /\ e = moderator_client => Acts(e)'
  PROVE  Acting'
<1> SUFFICES ASSUME NEW c \in alive \ missed
             PROVE  IF c = moderator_client THEN FirstStill' \/ Chosen(c)' ELSE Aside(c)'
  BY DEF Acting
<1>1. c \in Client /\ (c = e \/ Kept(c))
  BY DEF Types, ClientTypes
<1>2. IF c = moderator_client THEN FirstStill \/ Chosen(c) ELSE Aside(c)
  BY DEF Acting
<1>3. CASE c # moderator_client
  BY <1>1, <1>2, <1>3, KeptActs
<1>4. CASE c = moderator_client /\ Chosen(c)
  BY <1>1, <1>4, KeptActs
<1>5. CASE c = moderator_client /\ FirstStill
  <2>1. ASSUME NEW b \in Client
        PROVE  /\ \A i \in DOMAIN inbox'[b] :
                    Names(inbox'[b][i]) => /\ inbox'[b][i].type = "notify"
                                           /\ inbox'[b][i].mod = c
               /\ b # c => Quiet(b)'
    <3>1. \A i \in DOMAIN inbox[b] :
            Names(inbox[b][i]) => inbox[b][i].type = "notify" /\ inbox[b][i].mod = c
      BY <1>5 DEF FirstStill
    <3>2. b # c => Quiet(b)
      BY <1>5 DEF FirstStill
    <3>3. \A i \in DOMAIN inbox'[b] : \E j \in DOMAIN inbox[b] : inbox'[b][i] = inbox[b][j]
      <4>1. CASE b = e
        BY <4>1, TookActs
      <4>2. CASE b # e
        BY <4>2, TookActs
      <4> QED
        BY <4>1, <4>2
    <3>4. Kept(b) /\ Quiet(b) => Quiet(b)'
      BY KeptActs
    <3> QED
      BY <1>5, <3>1, <3>2, <3>3, <3>4
  <2>2. Acts(c)'
    <3>1. Acts(c)
      BY <1>5 DEF FirstStill
    <3> QED
      BY <1>1, <1>5, <3>1, KeptActs
  <2>3. clbusy' = {c} /\ moderator_client' = c
    BY <1>5 DEF FirstStill
  <2>4. FirstStill'
    BY <2>1, <2>2, <2>3 DEF FirstStill, Names
  <2> QED
    BY <1>5, <2>4
<1> QED
  BY <1>2, <1>3, <1>4, <1>5

(* A client that is not concerned has neither another role nor answers.    *)
LEMMA OthersKept ==
  ASSUME Types(Client), NEW e \in Client, HasMail(e), inbox' = Took(e),
         UNCHANGED role \/ \E r : role' = [role EXCEPT ![e] = r],
         \A d : d.type = "answer" => Alike(net, net', d)
  PROVE  /\ \A c \in Client \ {e} : Kept(c)
         /\ \A c : AnswersKept(c)
<1>1. \A c \in Client \ {e} : role'[c] = role[c] /\ inbox'[c] = inbox[c]
  <2>1. \A c \in Client \ {e} : inbox'[c] = inbox[c]
    BY TookActs
  <2>2. \A c \in Client \ {e} : role'[c] = role[c]
    <3>1. CASE UNCHANGED role
      BY <3>1
    <3>2. ASSUME NEW r, role' = [role EXCEPT ![e] = r]
          PROVE  \A c \in Client \ {e} : role'[c] = role[c]
      BY <3>2, RoleSet
    <3> QED
      BY <3>1, <3>2
  <2> QED
    BY <2>1, <2>2
<1>2. \A c : AnswersKept(c)
  BY DEF AnswersKept, AnswerOf
<1>3. \A c \in Client \ {e} : RoleKept(c)
  BY <1>1 DEF RoleKept, IsModerator, Tracks
<1> QED
  BY <1>1, <1>2, <1>3 DEF Kept

(* A notification is taken.                                                *)
LEMMA NotifyActs ==
  ASSUME Types(Client), Acting, fsm_state \notin {"done", "ended"},
         NEW e \in Client, HeartbeatsOf(e), RcvNotify(e)
  PROVE  Acting'
<1> DEFINE d == Head(inbox[e])
<1>1. /\ HasMail(e) /\ inbox' = Took(e) /\ d.type = "notify"
      /\ UNCHANGED <<fsm_state, moderator_client, clbusy, alive, missed>>
  BY DEF RcvNotify, Takes, server, environment
<1>2. net \in Nets(Client) /\ d \in Mail(Client)
  BY <1>1, TookType DEF Types, MailTypes
<1>3. ~Busy(e)
  <2>1. 1 \in DOMAIN inbox[e] /\ inbox[e][1].type = "notify"
    BY <1>1, TookActs
  <2> QED
    BY <2>1 DEF HeartbeatsOf, NotifiedFirst, Idle, Busy
<1> HIDE DEF d
<1>4. CASE e # d.mod
  <2>1. UNCHANGED role /\ net' = Posted(net, Sent("hello", e, d.mod, <<>>))
    BY <1>3, <1>4 DEF RcvNotify, d
  <2>2. Sent("hello", e, d.mod, <<>>).type = "hello"
    BY DEF Sent
  <2>3. \A b : b.type = "answer" => Alike(net, net', b)
    BY <1>2, <2>1, <2>2, OthersAlike
  <2>4. (\A c \in Client \ {e} : Kept(c)) /\ AnswersKept(e)
    BY <1>1, <2>1, <2>3, OthersKept
  <2>5. RoleKept(e) /\ ~Calls(d, e)
    BY <1>4, <2>1 DEF RoleKept, IsModerator, Tracks, Calls
  <2>6. /\ Aside(e) => Aside(e)'
        /\ Chosen(e) => Chosen(e)'
        /\ Quiet(e) => Quiet(e)'
        /\ Acts(e) => Acts(e)'
    BY <1>1, <2>4, <2>5, TookQuietly DEF d
  <2>7. FirstStill => Acts(moderator_client)
    BY DEF FirstStill
  <2> QED
    BY <1>1, <2>4, <2>6, <2>7, ActingMail
<1>5. CASE e = d.mod
  <2>1. Calls(d, e) /\ Called(e)
    <3>1. Calls(d, e)
      BY <1>1, <1>5 DEF Calls, Names
    <3>2. 1 \in DOMAIN inbox[e] /\ inbox[e][1] = d
      BY <1>1, TookActs DEF d
    <3> QED
      BY <3>1, <3>2 DEF Called
  <2>2. \/ Reports(e, Notified(e), "none", net)
        \/ role' = [role EXCEPT ![e] = [Notified(e) EXCEPT !.timer = "oneshot"]] /\ UNCHANGED net
    BY <1>3, <1>5 DEF RcvNotify, d, Notified, Size
  <2>3. /\ \E q \in Roles(Client) : role' = [role EXCEPT ![e] = q]
        /\ \A b : b.type = "answer" => Alike(net, net', b)
    <3>1. /\ Notified(e) \in Roles(Client)
          /\ [Notified(e) EXCEPT !.timer = "oneshot"] \in Roles(Client)
      BY NotifiedType
    <3>2. \A b : Alike(net, net, b)
      BY DEF Alike
    <3> QED
      BY <1>2, <2>2, <3>1, <3>2, ReportsActs
  <2>4. IsModerator(e)'
    BY <2>3, RoleSet, RolesAreRole DEF IsModerator
  <2>5. (\A c \in Client \ {e} : Kept(c)) /\ AnswersKept(e)
    BY <1>1, <2>3, OthersKept
  <2>6. ~Aside(e)
    BY <2>1 DEF Aside
  <2>7. ~Chosen(e)
    <3>1. ~Informed(e)
      BY <2>1 DEF Informed, Called, Calls
    <3>2. 1 \in DOMAIN inbox[e] /\ inbox[e][1] = d
      BY <1>1, TookActs DEF d
    <3>3. ~Appointed(e)
      BY <1>1, <2>1, <3>2 DEF Appointed
    <3> QED
      BY <3>1, <3>3 DEF Chosen, Serves
  <2>8. ASSUME FirstStill
        PROVE  e = moderator_client /\ Acts(e)'
    <3>1. 1 \in DOMAIN inbox[e] /\ inbox[e][1] = d
      BY <1>1, TookActs DEF d
    <3>2. d.mod = moderator_client
      BY <2>1, <2>8, <3>1 DEF FirstStill, Calls
    <3>3. NoAnswer(e)
      <4>1. ~Informed(e)
        BY <2>1 DEF Informed, Called, Calls
      <4> QED
        BY <1>5, <2>8, <3>2, <4>1 DEF FirstStill, Acts, Quiet
    <3>4. Informed(e)'
      <4>1. \A i \in DOMAIN inbox'[e] : inbox'[e][i].type # "notify"
        BY <1>1, TookNoNotify
      <4>2. \A i \in DOMAIN inbox'[e] : Names(inbox'[e][i]) => inbox'[e][i].type = "notify"
        BY <1>1, <2>8, TookActs DEF FirstStill
      <4> QED
        BY <4>1, <4>2 DEF Informed, Names
    <3>5. NoAnswer(e)'
      BY <2>5, <3>3, AnswersAlike
    <3> QED
      BY <1>5, <2>4, <3>2, <3>4, <3>5 DEF Acts
  <2> QED
    BY <1>1, <2>5, <2>6, <2>7, <2>8, ActingMail
<1> QED
  BY <1>4, <1>5

(* A task request is taken.                                                *)
LEMMA TaskActs ==
  ASSUME Types(Client), Acting, fsm_state \notin {"done", "ended"},
         NEW e \in Client, RcvTask(e)
  PROVE  Acting'
<1> DEFINE d == Head(inbox[e])
<1>1. /\ HasMail(e) /\ inbox' = Took(e) /\ d.type = "task" /\ UNCHANGED net
      /\ UNCHANGED <<fsm_state, moderator_client, clbusy, alive, missed>>
  BY DEF RcvTask, Takes, server, environment
<1>2. d \in Mail(Client) /\ ~Calls(d, e)
  BY <1>1, TookType DEF Calls, Names
<1>3. PICK included \in BOOLEAN :
        role' = IF IsModerator(e)
                THEN [role EXCEPT ![e] = Tracking(role[e], d, included)] ELSE role
  BY DEF RcvTask
<1>4. \A b : Alike(net, net', b)
  BY <1>1 DEF Alike
<1> HIDE DEF d
<1>5. (\A c \in Client \ {e} : Kept(c)) /\ AnswersKept(e)
  BY <1>1, <1>3, <1>4, OthersKept
<1>6. FirstStill => Acts(moderator_client)
  BY DEF FirstStill
<1>7. CASE ~IsModerator(e)
  <2>1. RoleKept(e)
    BY <1>3, <1>7 DEF RoleKept, IsModerator, Tracks
  <2>2. /\ Aside(e) => Aside(e)'
        /\ Chosen(e) => Chosen(e)'
        /\ Quiet(e) => Quiet(e)'
        /\ Acts(e) => Acts(e)'
    BY <1>1, <1>2, <1>5, <1>7, <2>1, TookQuietly DEF d
  <2> QED
    BY <1>1, <1>5, <1>6, <2>2, ActingMail
<1>8. CASE IsModerator(e)
  <2> DEFINE r == Tracking(role[e], d, included)
  <2>1. role[e] \in Roles(Client) /\ role'= [role EXCEPT ![e] = r]
    BY <1>3, <1>8, RoleOf
  <2>2. /\ r \in Roles(Client) /\ r.fsm = "task"
        /\ IF role[e].timer = "none" THEN r.timer \in {"monitor", "single"}
           ELSE r.timer = role[e].timer
    BY <1>1, <1>2, <2>1, TrackingType
  <2> HIDE DEF r
  <2>3. role'[e] = r /\ IsModerator(e)'
    BY <2>1, <2>2, RoleSet, RolesAreRole DEF IsModerator
  <2>4. /\ NoAnswer(e)' <=> NoAnswer(e)
        /\ OneAnswer(e)' <=> OneAnswer(e)
        /\ Called(e)' => Called(e)
        /\ Informed(e) => Informed(e)'
    BY <1>1, <1>5, AnswersAlike, TookCalls
  <2>5. Aside(e) => Aside(e)'
    BY <1>1, <1>8, <2>3, <2>4 DEF Aside, Quiet
  <2>6. Chosen(e) => Chosen(e)'
    <3>1. Tracks(e) => Tracks(e)' /\ role'[e].timer # "none"
      BY <2>2, <2>3 DEF Tracks
    <3>2. Serves(e) => Serves(e)'
      BY <2>3, <2>4, <3>1 DEF Serves
    <3> QED
      BY <1>1, <1>8, <3>2 DEF Chosen, Appointed, Quiet, Answered
  <2>7. ~Quiet(e) /\ (Acts(e) => Acts(e)')
    BY <1>8, <2>3, <2>4 DEF Acts, Quiet, Answered
  <2> QED
    BY <1>1, <1>5, <1>6, <2>5, <2>6, <2>7, ActingMail
<1> QED
  BY <1>7, <1>8

(* An update is taken.                                                     *)
LEMMA UpdateActs ==
  ASSUME Types(Client), Acting, fsm_state \notin {"done", "ended"},
         NEW e \in Client, HeartbeatsOf(e), RcvUpdate(e)
  PROVE  Acting'
<1> DEFINE d == Head(inbox[e])
<1>1. /\ HasMail(e) /\ inbox' = Took(e) /\ d.type = "update"
      /\ UNCHANGED <<fsm_state, moderator_client, clbusy, alive, missed>>
  BY DEF RcvUpdate, Takes, server, environment
<1>2. d \in Mail(Client) /\ d.mod \in Client /\ Names(d)
  BY <1>1, TookType, MailFacts DEF Names
<1>3. \/ IsModerator(e) /\ role' = [role EXCEPT ![e] = NULL] /\ UNCHANGED net
      \/ /\ ~IsModerator(e) /\ net' = Resent(e, d.mod)
         /\ role' = IF e = d.mod THEN [role EXCEPT ![e] = Appointee(d)] ELSE role
  BY DEF RcvUpdate, Appointee
<1>4. 1 \in DOMAIN inbox[e] /\ inbox[e][1] = d
  BY <1>1, TookActs
<1> HIDE DEF d
<1>5. \A b : b.type = "answer" => Alike(net, net', b)
  BY <1>2, <1>3, ResentNet DEF Ids, Alike
<1>6. (\A c \in Client \ {e} : Kept(c)) /\ AnswersKept(e)
  BY <1>1, <1>3, <1>5, OthersKept
<1>7. ~FirstStill
  BY <1>1, <1>2, <1>4 DEF FirstStill
<1>8. CASE ~IsModerator(e) /\ e # d.mod
  <2>1. RoleKept(e) /\ ~Calls(d, e)
    BY <1>3, <1>8 DEF RoleKept, IsModerator, Tracks, Calls
  <2>2. /\ Aside(e) => Aside(e)'
        /\ Chosen(e) => Chosen(e)'
    BY <1>1, <1>6, <1>8, <2>1, TookQuietly DEF d
  <2> QED
    BY <1>1, <1>6, <1>7, <2>2, ActingMail
<1>9. CASE ~IsModerator(e) /\ e = d.mod
  <2>1. Calls(d, e) /\ Called(e)
    BY <1>2, <1>4, <1>9 DEF Calls, Called
  <2>2. ~Aside(e)
    BY <2>1 DEF Aside
  <2>3. ASSUME Chosen(e)
        PROVE  Chosen(e)'
    <3>1. Appointed(e) /\ fsm_state' = "running"
      BY <1>1, <2>1, <2>3 DEF Chosen, Serves, Informed, Called, Calls
    <3>2. /\ \A j \in 1 + 1 .. Len(inbox[e]) : ~Names(inbox[e][j])
          /\ \E j \in 1 + 1 .. Len(inbox[e]) : inbox[e][j].type = "task"
      BY <1>4, <2>1, <3>1 DEF Appointed
    <3>3. /\ inbox[e] \in Seq(Mail(Client))
          /\ inbox'[e] \in Seq(Mail(Client)) /\ Len(inbox[e]) = Len(inbox'[e]) + 1
          /\ \A i \in DOMAIN inbox'[e] :
               i + 1 \in DOMAIN inbox[e] /\ inbox'[e][i] = inbox[e][i + 1]
      BY <1>1, TookActs DEF Types, MailTypes
    <3>4. Informed(e)'
      <4>1. \A i \in DOMAIN inbox'[e] : i + 1 \in 1 + 1 .. Len(inbox[e])
        BY <3>3
      <4> QED
        BY <3>2, <3>3, <4>1 DEF Informed, Names
    <3>5. IsTold(e, {"task"})'
      <4>1. PICK j \in 1 + 1 .. Len(inbox[e]) : inbox[e][j].type = "task"
        BY <3>2
      <4>2. j - 1 \in DOMAIN inbox'[e] /\ (j - 1) + 1 = j
        BY <3>3
      <4>3. inbox'[e][j - 1] = inbox[e][j]
        BY <3>3, <4>2
      <4> QED
        BY <4>1, <4>2, <4>3 DEF IsTold
    <3>6. /\ Appointee(d) \in Roles(Client)
          /\ Appointee(d).fsm = "task" /\ Appointee(d).timer = "none"
      BY <1>1, <1>2, AppointeeType DEF d
    <3>7. role'[e] = Appointee(d)
      BY <1>3, <1>9, RoleSet
    <3>8. IsModerator(e)' /\ Tracks(e)'
      BY <3>6, <3>7, RolesAreRole DEF IsModerator, Tracks
    <3>9. NoAnswer(e)'
      BY <1>6, <3>1, AnswersAlike DEF Appointed, Quiet
    <3> QED
      BY <3>1, <3>4, <3>5, <3>8, <3>9 DEF Chosen, Serves
  <2> QED
    BY <1>1, <1>6, <1>7, <2>2, <2>3, ActingMail
<1>10. CASE IsModerator(e)
  <2>1. ~IsModerator(e)'
    BY <1>3, <1>10, RoleSet DEF IsModerator
  <2>2. /\ NoAnswer(e)' <=> NoAnswer(e)
        /\ OneAnswer(e)' <=> OneAnswer(e)
        /\ Called(e)' => Called(e)
    BY <1>1, <1>6, AnswersAlike, TookCalls
  <2>3. Aside(e) => Aside(e)'
    BY <1>1, <1>10, <2>1, <2>2 DEF Aside, Quiet
  <2>4. ~Chosen(e)
    BY <1>2, <1>4, <1>10 DEF Chosen, Appointed, Serves, Quiet, Answered, Informed
  <2> QED
    BY <1>1, <1>6, <1>7, <2>3, <2>4, ActingMail
<1> QED
  BY <1>8, <1>9, <1>10

(* Something that names nobody is sent to the group.                       *)
LEMMA ToldActs ==
  ASSUME Types(Client), NEW t \in Mail(Client), t.type = "task", Multicast(<<t>>),
         UNCHANGED role, \A d : d.type = "answer" => Alike(net, net', d),
         UNCHANGED clbusy, fsm_state' = "running", NEW c \in Client, c \in alive
  PROVE  /\ Aside(c) => Aside(c)'
         /\ Chosen(c) => Chosen(c)'
         /\ Acts(c) => Acts(c)'
<1>1. <<t>> \in Seq(Mail(Client)) /\ Len(<<t>>) = 1 /\ <<t>>[1] = t
  BY Single
<1>2. /\ inbox[c] \in Seq(Mail(Client)) /\ inbox'[c] \in Seq(Mail(Client))
      /\ Len(inbox'[c]) = Len(inbox[c]) + 1
      /\ \A i \in 1 .. Len(inbox[c]) : inbox'[c][i] = inbox[c][i]
      /\ inbox'[c][Len(inbox[c]) + 1] = t
  <2>1. /\ inbox[c] \in Seq(Mail(Client)) /\ inbox'[c] \in Seq(Mail(Client))
        /\ Len(inbox'[c]) = Len(inbox[c]) + Len(<<t>>)
        /\ \A i \in 1 .. Len(inbox[c]) : inbox'[c][i] = inbox[c][i]
        /\ \A i \in 1 .. Len(<<t>>) : inbox'[c][Len(inbox[c]) + i] = <<t>>[i]
    BY <1>1, MulticastFrom
  <2> QED
    BY <1>1, <2>1
<1>3. /\ \A i \in DOMAIN inbox[c] : i \in DOMAIN inbox'[c] /\ inbox'[c][i] = inbox[c][i]
      /\ \A i \in DOMAIN inbox'[c] : inbox'[c][i] = t \/ i \in DOMAIN inbox[c]
      /\ ~Names(t)
  <2>1. DOMAIN inbox[c] = 1 .. Len(inbox[c]) /\ Len(inbox[c]) \in Nat
    BY <1>2
  <2>2. DOMAIN inbox'[c] = 1 .. Len(inbox[c]) + 1
    BY <1>2
  <2>3. \A i \in DOMAIN inbox'[c] : inbox'[c][i] = t \/ i \in DOMAIN inbox[c]
    BY <1>2, <2>1, <2>2
  <2> QED
    BY <1>2, <2>1, <2>2, <2>3 DEF Names
<1>4. /\ Called(c)' <=> Called(c)
      /\ Informed(c)' <=> Informed(c)
      /\ IsTold(c, {"task"})'
  <2>1. Len(inbox[c]) + 1 \in DOMAIN inbox'[c]
    BY <1>2
  <2>2. IsTold(c, {"task"})'
    <3>1. inbox'[c][Len(inbox[c]) + 1].type \in {"task"}
      BY <1>2
    <3> QED
      BY <2>1, <3>1 DEF IsTold
  <2>3. Called(c)' <=> Called(c)
    BY <1>3 DEF Called, Calls, Names
  <2>4. Informed(c)' <=> Informed(c)
    BY <1>3 DEF Informed, Names
  <2> QED
    BY <2>2, <2>3, <2>4
<1>5. /\ IsModerator(c)' <=> IsModerator(c)
      /\ NoAnswer(c)' <=> NoAnswer(c)
      /\ OneAnswer(c)' <=> OneAnswer(c)
  BY AnswersAlike DEF IsModerator, AnswersKept, AnswerOf
<1>6. (Quiet(c)' <=> Quiet(c)) /\ (Answered(c)' <=> Answered(c))
  BY <1>5 DEF Quiet, Answered
<1>7. ASSUME Appointed(c)
      PROVE  Appointed(c)'
  <2>1. ASSUME NEW i \in DOMAIN inbox'[c], Calls(inbox'[c][i], c)
        PROVE  /\ inbox'[c][i].type = "update"
               /\ \A j \in i + 1 .. Len(inbox'[c]) : ~Names(inbox'[c][j])
               /\ \E j \in i + 1 .. Len(inbox'[c]) : inbox'[c][j].type = "task"
    <3>1. i \in DOMAIN inbox[c] /\ inbox'[c][i] = inbox[c][i]
      BY <1>3, <2>1 DEF Calls
    <3>2. /\ inbox[c][i].type = "update"
          /\ \A j \in i + 1 .. Len(inbox[c]) : ~Names(inbox[c][j])
      BY <1>7, <2>1, <3>1 DEF Appointed
    <3>3. ASSUME NEW j \in i + 1 .. Len(inbox'[c])
          PROVE  ~Names(inbox'[c][j])
      <4>1. j = Len(inbox[c]) + 1 \/ (j \in i + 1 .. Len(inbox[c]) /\ j \in 1 .. Len(inbox[c]))
        BY <1>2, <3>1
      <4> QED
        BY <1>2, <1>3, <3>2, <4>1
    <3>4. Len(inbox[c]) + 1 \in i + 1 .. Len(inbox'[c])
      BY <1>2, <3>1
    <3> QED
      BY <1>2, <3>1, <3>2, <3>3, <3>4
  <2> QED
    BY <1>4, <1>6, <1>7, <2>1 DEF Appointed, Calls, Names
<1>8. Serves(c) => Serves(c)'
  BY <1>4, <1>5 DEF Serves, Tracks
<1>9. Aside(c) => Aside(c)'
  BY <1>4, <1>5, <1>6 DEF Aside
<1>10. Acts(c) => Acts(c)'
  BY <1>4, <1>5, <1>6 DEF Acts
<1> QED
  BY <1>4, <1>6, <1>7, <1>8, <1>9, <1>10 DEF Chosen

(* A report, or that of a death.                                           *)
LEMMA ReportActs ==
  ASSUME Types(Client), Acting, fsm_state \notin {"done", "ended"},
         RcvReport \/ RcvDead
  PROVE  Acting'
<1> SUFFICES ASSUME fsm_state' \notin {"done", "ended"}
             PROVE  Acting'
  BY DEF Acting
<1>1. /\ UNCHANGED <<moderator_client, clbusy, role, alive, missed>>
      /\ \A d : d.type = "answer" => Alike(net, net', d)
  <2>1. UNCHANGED <<moderator_client, clbusy, role, alive, missed>>
    BY DEF RcvReport, RcvDead, ServerEnds, server, clients, environment
  <2>2. PICK d \in BagToSet(net) : d.type \in {"report", "dead"} /\ net' = BagRemove(net, d)
    BY DEF RcvReport, RcvDead, ToServer
  <2> QED
    BY <2>1, <2>2, TakenAlike
<1>2. ServerStep
  BY DEF ServerStep
<1>3. TellsTask \/ (UNCHANGED inbox /\ fsm_state' = fsm_state)
  <2>1. TellsTask \/ TellsModerator \/ TellsNothing
    BY <1>2, ServerTells
  <2>2. UNCHANGED moderator_client /\ (fsm_state' = "running" \/ fsm_state' = fsm_state)
    BY DEF RcvReport, RcvDead, ServerEnds, server
  <2>3. ~TellsModerator
    BY DEF RcvReport, RcvDead, ServerEnds, server, TellsModerator
  <2> QED
    BY <2>1, <2>2, <2>3 DEF TellsNothing
<1>4. CASE TellsTask
  <2>1. PICK t \in Mail(Client) : t.type = "task" /\ Multicast(<<t>>)
    BY <1>4 DEF TellsTask
  <2>2. fsm_state' = "running"
    BY <1>4 DEF TellsTask
  <2> SUFFICES ASSUME NEW c \in alive \ missed
               PROVE  IF c = moderator_client THEN FirstStill' \/ Chosen(c)' ELSE Aside(c)'
    BY <1>1 DEF Acting
  <2>3. c \in Client /\ c \in alive
    BY DEF Types, ClientTypes
  <2>4. IF c = moderator_client THEN FirstStill \/ Chosen(c) ELSE Aside(c)
    BY DEF Acting
  <2>5. /\ Aside(c) => Aside(c)'
        /\ Chosen(c) => Chosen(c)'
        /\ Acts(c) => Acts(c)'
    BY <1>1, <2>1, <2>2, <2>3, ToldActs
  <2>6. ASSUME c = moderator_client, FirstStill
        PROVE  FirstStill'
    <3>1. ASSUME NEW b \in Client
          PROVE  /\ \A i \in DOMAIN inbox'[b] :
                      Names(inbox'[b][i]) => /\ inbox'[b][i].type = "notify"
                                             /\ inbox'[b][i].mod = c
                 /\ b # c => Quiet(b)'
      <4>1. \A i \in DOMAIN inbox[b] :
              Names(inbox[b][i]) => inbox[b][i].type = "notify" /\ inbox[b][i].mod = c
        BY <2>6 DEF FirstStill
      <4>2. b # c => Quiet(b)
        BY <2>6 DEF FirstStill
      <4>3. \A i \in DOMAIN inbox'[b] : Names(inbox'[b][i]) =>
              \E j \in DOMAIN inbox[b] : inbox'[b][i] = inbox[b][j]
        <5>1. CASE b \in alive
          <6>1. inbox'[b] = inbox[b] \o <<t>> /\ inbox[b] \in Seq(Mail(Client)) /\ ~Names(t)
            BY <2>1, <5>1 DEF Multicast, Names, Types, MailTypes
          <6>2. \A i \in DOMAIN inbox'[b] :
                  inbox'[b][i] = t \/ (i \in DOMAIN inbox[b] /\ inbox'[b][i] = inbox[b][i])
            BY <6>1
          <6> QED
            BY <6>1, <6>2
        <5>2. CASE b \notin alive
          BY <2>1, <5>2 DEF Multicast
        <5> QED
          BY <5>1, <5>2
      <4>4. Quiet(b) => Quiet(b)'
        BY <1>1, AnswersAlike DEF Quiet, IsModerator, AnswersKept, AnswerOf
      <4> QED
        BY <4>1, <4>2, <4>3, <4>4
    <3>2. Acts(c)' /\ clbusy' = {c} /\ moderator_client' = c
      BY <1>1, <2>5, <2>6 DEF FirstStill
    <3> QED
      BY <3>1, <3>2 DEF FirstStill, Names
  <2> QED
    BY <1>1, <2>4, <2>5, <2>6
<1>5. CASE UNCHANGED inbox /\ fsm_state' = fsm_state
  <2>1. \A c : Kept(c)
    BY <1>1, <1>5, NothingActs
  <2> QED
    BY <1>1, <1>5, <2>1, ActingKept
<1> QED
  BY <1>3, <1>4, <1>5

(* An answer comes while the server follows a moderator that is gone, or   *)
(* none.                                                                   *)
LEMMA AnswerActs ==
  ASSUME Types(Client), Acting, fsm_state \notin {"done", "ended"}, RcvAnswer
  PROVE  Acting'
<1> SUFFICES ASSUME fsm_state' \notin {"done", "ended"},
                    NEW c \in alive \ missed
             PROVE  Aside(c)'
  <2>1. UNCHANGED <<alive, missed>> /\ moderator_client' = NULL
    BY DEF RcvAnswer, environment
  <2>2. \A c \in alive : c # NULL
    BY ClientAssumption DEF Types, ClientTypes
  <2> QED
    BY <2>1, <2>2 DEF Acting
<1>1. PICK d \in BagToSet(net) :
        /\ d.type = "answer" /\ net' = BagRemove(net, d)
        /\ clbusy' = clbusy \ (IF moderator_client = NULL THEN {d.from} ELSE {moderator_client})
        /\ fsm_state # "running" /\ UNCHANGED <<inbox, role>>
  BY DEF RcvAnswer, ToServer, clients
<1>2. net \in Nets(Client) /\ c \in Client /\ d \in Msg(Client) /\ d.from \in Client
  <2>1. net \in Nets(Client) /\ c \in Client
    BY DEF Types, MailTypes, ClientTypes
  <2>2. d \in Msg(Client)
    BY <2>1, NetIsBag
  <2> QED
    BY <2>1, <2>2, MsgFacts
<1>3. IF c = moderator_client THEN FirstStill ELSE Aside(c)
  BY <1>1 DEF Acting, Chosen
<1>4. Called(c)' <=> Called(c)
  BY <1>1 DEF Called, Calls, Names
<1>5. IsModerator(c)' <=> IsModerator(c)
  BY <1>1 DEF IsModerator
<1>6. (NoAnswer(c) => NoAnswer(c)') /\ (c = d.from => ~NoAnswer(c))
  BY <1>1, <1>2, BagRemoveNet DEF NoAnswer, AnswerOf
<1>7. ASSUME c # d.from
      PROVE  OneAnswer(c)' <=> OneAnswer(c)
  <2>1. AnswersKept(c)
    BY <1>1, <1>2, <1>7, OthersAlike DEF AnswersKept, AnswerOf
  <2> QED
    BY <2>1, AnswersAlike
<1>8. ASSUME c = d.from, OneAnswer(c)
      PROVE  NoAnswer(c)'
  <2>1. AnswerOf(d, c) /\ net[d] = 1
    BY <1>1, <1>8 DEF OneAnswer, AnswerOf
  <2>2. d \notin BagToSet(net')
    BY <1>1, <1>2, <2>1, OneOfAKind
  <2>3. BagToSet(net') \subseteq BagToSet(net)
    BY <1>1, <1>2, BagRemoveNet
  <2> QED
    BY <1>8, <2>1, <2>2, <2>3 DEF NoAnswer, OneAnswer
<1>9. NoAnswer(c)' => OneAnswer(c)'
  BY DEF NoAnswer, OneAnswer
<1>10. CASE c # moderator_client
  <2>1. Aside(c)
    BY <1>3, <1>10
  <2>2. CASE c = d.from
    BY <1>4, <1>5, <1>6, <1>8, <1>9, <2>1, <2>2 DEF Aside, Quiet
  <2>3. CASE c # d.from
    <3>1. c \notin clbusy' => c \notin clbusy
      BY <1>1, <1>10, <2>3
    <3> QED
      BY <1>4, <1>5, <1>6, <1>7, <2>1, <2>3, <3>1 DEF Aside, Quiet
  <2> QED
    BY <2>2, <2>3
<1>11. CASE c = moderator_client
  <2>1. FirstStill
    BY <1>3, <1>11
  <2>2. c = d.from
    <3>1. ~NoAnswer(d.from)
      BY <1>1 DEF NoAnswer, AnswerOf
    <3> QED
      BY <1>2, <1>11, <2>1, <3>1 DEF FirstStill, Quiet
  <2>3. Informed(c) /\ Answered(c)
    BY <1>6, <1>11, <2>1, <2>2 DEF FirstStill, Acts, Quiet
  <2> QED
    BY <1>4, <1>5, <1>8, <1>9, <2>2, <2>3
       DEF Aside, Quiet, Answered, Informed, Called, Calls
<1> QED
  BY <1>10, <1>11

(* Who has no mail is told nothing.                                        *)
LEMMA NoMail ==
  ASSUME NEW S, NEW s \in Seq(S), s = <<>>
  PROVE  DOMAIN s = {}
  OBVIOUS

(* The server gives up a moderator that is silent: one that is not dead    *)
(* and not cut off is the first one, and is informed.                      *)
LEMMA SilentActs ==
  ASSUME "late moderator" \notin Mishap,
         Types(Client), Acting, fsm_state \notin {"done", "ended"}, ModeratorSilent
  PROVE  Acting'
<1> SUFFICES ASSUME fsm_state' \notin {"done", "ended"}
             PROVE  Acting'
  BY DEF Acting
<1>1. /\ fsm_state = "running" /\ fsm_state' = "searching"
      /\ UNCHANGED <<moderator_client, clbusy, role, inbox, net, alive, missed>>
  BY DEF ModeratorSilent, ServerEnds, clients
<1>2. ~ModeratorLate
  BY DEF ModeratorSilent, FaultIf, Fault
<1>3. /\ \A c : Called(c)' <=> Called(c)
      /\ \A c : Informed(c)' <=> Informed(c)
      /\ \A c : IsModerator(c)' <=> IsModerator(c)
      /\ \A c : NoAnswer(c)' <=> NoAnswer(c)
      /\ \A c : OneAnswer(c)' <=> OneAnswer(c)
  BY <1>1 DEF Called, Calls, Names, Informed, IsModerator, NoAnswer, OneAnswer, AnswerOf
<1> SUFFICES ASSUME NEW c \in alive \ missed
             PROVE  IF c = moderator_client THEN FirstStill' ELSE Aside(c)'
  BY <1>1 DEF Acting
<1>4. IF c = moderator_client THEN FirstStill \/ Chosen(c) ELSE Aside(c)
  BY DEF Acting
<1>5. CASE c # moderator_client
  BY <1>1, <1>3, <1>4, <1>5 DEF Aside, Quiet
<1>6. CASE c = moderator_client
  <2>1. /\ ~HasMail(c) /\ NoAnswer(c)
        /\ IsModerator(c) => role[c].timer \notin {"monitor", "single"}
    BY <1>2, <1>6 DEF ModeratorLate, NoAnswer, AnswerOf
  <2>2. DOMAIN inbox[c] = {}
    <3>1. inbox[c] \in Seq(Mail(Client)) /\ inbox[c] = <<>>
      BY <2>1 DEF HasMail, Types, MailTypes, ClientTypes
    <3> QED
      BY <3>1, NoMail
  <2>3. ~Called(c) /\ ~IsTold(c, {"task"})
    BY <2>2 DEF Called, IsTold
  <2>4. ~Chosen(c)
    BY <2>1, <2>3 DEF Chosen, Appointed, Serves, Tracks, Answered
  <2>5. FirstStill /\ Acts(c)
    BY <1>4, <1>6, <2>4 DEF FirstStill
  <2>6. Acts(c)'
    BY <1>3, <2>3, <2>5 DEF Acts, Answered
  <2>7. FirstStill'
    BY <1>1, <1>3, <1>6, <2>5, <2>6 DEF FirstStill, Names, Quiet
  <2> QED
    BY <1>6, <2>7
<1> QED
  BY <1>5, <1>6

(* The server tells the group of a new moderator.                          *)
LEMMA NewModeratorActs ==
  ASSUME Types(Client), Acting, fsm_state \notin {"done", "ended"},
         NEW e \in Client, NewModerator(e)
  PROVE  Acting'
<1> SUFFICES ASSUME fsm_state' \notin {"done", "ended"}
             PROVE  Acting'
  BY DEF Acting
<1>1. /\ fsm_state = "searching" /\ e \in alive \ clbusy
      /\ UNCHANGED <<net, alive, missed, role>>
      /\ fsm_state' = "running" /\ moderator_client' = e /\ clbusy' = clbusy \cup {e}
      /\ Multicast(Takeover(e)) /\ ~RetransmitFails(map, working, e, dead_files)
  BY DEF NewModerator, ServerEnds, environment, clients
<1>2. /\ Takeover(e) \in Seq(Mail(Client)) /\ Len(Takeover(e)) = 2
      /\ Takeover(e)[1].type = "update" /\ Takeover(e)[1].mod = e
      /\ Takeover(e)[2].type = "task"
  BY <1>1, TakeoverType
<1> SUFFICES ASSUME NEW c \in alive \ missed
             PROVE  IF c = e THEN Chosen(c)' ELSE Aside(c)'
  BY <1>1 DEF Acting
<1>3. c \in Client /\ c \in alive
  BY DEF Types, ClientTypes
<1>4. Aside(c) /\ (c = e => Quiet(c))
  <2>1. IF c = moderator_client THEN FirstStill ELSE Aside(c)
    BY <1>1 DEF Acting, Chosen
  <2>2. CASE c # moderator_client
    BY <1>1, <2>1, <2>2 DEF Aside
  <2>3. CASE c = moderator_client
    <3>1. FirstStill /\ c # e
      BY <1>1, <2>1, <2>3 DEF FirstStill
    <3>2. /\ Informed(c) /\ c \in clbusy
          /\ (IsModerator(c) /\ NoAnswer(c)) \/ Answered(c)
      BY <1>1, <2>3, <3>1 DEF FirstStill, Acts
    <3>3. OneAnswer(c) /\ ~Called(c)
      BY <3>2 DEF Answered, NoAnswer, OneAnswer, Informed, Called, Calls
    <3> QED
      BY <3>1, <3>2, <3>3 DEF Aside, Answered
  <2> QED
    BY <2>2, <2>3
<1>5. /\ inbox[c] \in Seq(Mail(Client)) /\ inbox'[c] \in Seq(Mail(Client))
      /\ Len(inbox'[c]) = Len(inbox[c]) + 2
      /\ \A i \in 1 .. Len(inbox[c]) : inbox'[c][i] = inbox[c][i]
      /\ inbox'[c][Len(inbox[c]) + 1] = Takeover(e)[1]
      /\ inbox'[c][Len(inbox[c]) + 2] = Takeover(e)[2]
  <2>1. /\ inbox[c] \in Seq(Mail(Client)) /\ inbox'[c] \in Seq(Mail(Client))
        /\ Len(inbox'[c]) = Len(inbox[c]) + Len(Takeover(e))
        /\ \A i \in 1 .. Len(inbox[c]) : inbox'[c][i] = inbox[c][i]
        /\ \A i \in 1 .. Len(Takeover(e)) :
             inbox'[c][Len(inbox[c]) + i] = Takeover(e)[i]
    BY <1>1, <1>2, <1>3, MulticastFrom
  <2>2. 1 \in 1 .. Len(Takeover(e)) /\ 2 \in 1 .. Len(Takeover(e))
    BY <1>2
  <2> QED
    BY <1>2, <2>1, <2>2
<1> DEFINE n == Len(inbox[c])
<1>6. /\ n \in Nat /\ DOMAIN inbox[c] = 1 .. n /\ DOMAIN inbox'[c] = 1 .. n + 2
      /\ Len(inbox'[c]) = n + 2 /\ n + 1 \in DOMAIN inbox'[c]
      /\ \A i \in DOMAIN inbox'[c] : i \in 1 .. n \/ i = n + 1 \/ i = n + 2
  BY <1>5
<1>7. /\ inbox'[c][n + 1].type = "update" /\ inbox'[c][n + 1].mod = e
      /\ inbox'[c][n + 2].type = "task" /\ ~Names(inbox'[c][n + 2])
  BY <1>2, <1>5 DEF Names
<1>8. \A i \in 1 .. n : inbox'[c][i] = inbox[c][i]
  BY <1>5
<1> HIDE DEF n
<1>9. \A i \in DOMAIN inbox'[c] : Calls(inbox'[c][i], c) => i = n + 1 /\ c = e
  BY <1>4, <1>6, <1>7, <1>8 DEF Aside, Called, Calls
<1>10. /\ IsModerator(c)' <=> IsModerator(c)
       /\ NoAnswer(c)' <=> NoAnswer(c)
       /\ OneAnswer(c)' <=> OneAnswer(c)
  BY <1>1 DEF IsModerator, NoAnswer, OneAnswer
<1>11. CASE c # e
  <2>1. ~Called(c)'
    BY <1>9, <1>11 DEF Called, Calls, Names
  <2> QED
    BY <1>1, <1>4, <1>10, <1>11, <2>1 DEF Aside, Quiet
<1>12. CASE c = e
  <2>1. Quiet(c)' /\ Called(c)'
    <3>1. Calls(inbox'[c][n + 1], c)
      BY <1>7, <1>12 DEF Calls, Names
    <3> QED
      BY <1>4, <1>6, <1>10, <1>12, <3>1 DEF Quiet, Called, Calls, Names
  <2>2. /\ \A j \in (n + 1) + 1 .. Len(inbox'[c]) : ~Names(inbox'[c][j])
        /\ \E j \in (n + 1) + 1 .. Len(inbox'[c]) : inbox'[c][j].type = "task"
    <3>1. \A j \in (n + 1) + 1 .. Len(inbox'[c]) : j = n + 2
      BY <1>6
    <3>2. n + 2 \in (n + 1) + 1 .. Len(inbox'[c])
      BY <1>6
    <3> QED
      BY <1>7, <3>1, <3>2
  <2>3. \A i \in DOMAIN inbox'[c] :
          Calls(inbox'[c][i], c) =>
            /\ inbox'[c][i].type = "update"
            /\ \A j \in i + 1 .. Len(inbox'[c]) : ~Names(inbox'[c][j])
            /\ \E j \in i + 1 .. Len(inbox'[c]) : inbox'[c][j].type = "task"
    BY <1>7, <1>9, <2>2
  <2>4. Appointed(c)'
    BY <2>1, <2>3 DEF Appointed, Calls, Names
  <2> QED
    BY <1>1, <1>12, <2>4 DEF Chosen
<1> QED
  BY <1>11, <1>12

(* At first the group is notified.                                         *)
LEMMA InitActs ==
  ASSUME Init
  PROVE  Acting
<1>1. /\ clbusy = {moderator_client} /\ moderator_client \in Client
      /\ fsm_state = "selected" /\ BagToSet(net) = {}
      /\ \A c \in Client : /\ ~IsModerator(c)
                           /\ inbox[c] = <<[type |-> "notify", mod |-> moderator_client]>>
  BY DEF Init, IsModerator, EmptyBag, SetToBag, BagToSet
<1>2. \A c \in Client :
        /\ DOMAIN inbox[c] = {1} /\ inbox[c][1].type = "notify"
        /\ inbox[c][1].mod = moderator_client
  BY <1>1
<1>3. \A c \in Client : Quiet(c) /\ OneAnswer(c)
  BY <1>1 DEF Quiet, NoAnswer, OneAnswer
<1>4. Called(moderator_client)
  BY <1>1, <1>2 DEF Called, Calls, Names
<1>5. FirstStill
  BY <1>1, <1>2, <1>3, <1>4 DEF FirstStill, Acts
<1>6. \A c \in Client : c # moderator_client => Aside(c)
  BY <1>2, <1>3 DEF Aside, Quiet, Called, Calls
<1> QED
  BY <1>5, <1>6 DEF Init, Acting

(* Every step keeps it.                                                    *)
LEMMA ActingStep ==
  ASSUME "late moderator" \notin Mishap,
         Types(Client), \A c \in Client : HeartbeatsOf(c), Acting, [Next]_vars
  PROVE  Acting'
<1>1. CASE UNCHANGED vars
  <2>1. /\ UNCHANGED <<fsm_state, moderator_client, clbusy, alive, missed, inbox, role, net>>
    BY <1>1 DEF vars, server, clients, environment
  <2>2. \A d : Alike(net, net', d)
    BY <2>1 DEF Alike
  <2>3. \A c : Kept(c)
    BY <2>1, <2>2, NothingActs
  <2>4. CASE fsm_state \in {"done", "ended"}
    BY <2>1, <2>4 DEF Acting
  <2>5. CASE fsm_state \notin {"done", "ended"}
    BY <2>1, <2>3, <2>5, ActingKept
  <2> QED
    BY <2>4, <2>5
<1>2. CASE Next
  <2>0. fsm_state \notin {"done", "ended"}
    BY <1>2 DEF Next
  <2>1. ASSUME NEW c \in Client, RcvNotify(c) \/ RcvTask(c) \/ RcvUpdate(c)
        PROVE  Acting'
    BY <2>0, <2>1, NotifyActs, TaskActs, UpdateActs
  <2>2. ASSUME NEW m \in Client,
               \/ RcvHello(m) \/ NotifyTimeout(m) \/ NotifyTimeoutIgnored(m)
               \/ Monitor(m) \/ RcvResult(m) \/ ForceCleanup(m)
               \/ \E c \in Client : Heartbeat(c, m)
        PROVE  Acting'
    <3>1. UNCHANGED <<fsm_state, moderator_client, clbusy, alive, missed>>
      <4>1. UNCHANGED server /\ UNCHANGED <<alive, missed>>
        BY <2>2, RoleSteps
      <4> QED
        BY <4>1 DEF server
    <3>2. \A c \in Client : Kept(c) \/ Ends(c)
      BY <2>2, HelloActs, MonitorActs, ResultActs
    <3> QED
      BY <2>0, <3>1, <3>2, ActingKept
  <2>3. ASSUME NEW e \in Client, Ended(e)
        PROVE  Acting'
    <3>1. /\ UNCHANGED <<fsm_state, moderator_client, clbusy, missed>>
          /\ alive' \subseteq alive
      BY <2>3 DEF Ended, server
    <3> QED
      BY <2>0, <2>3, <3>1, EndedActs, ActingKept
  <2>4. ASSUME \/ \E e \in Client : LoseMulticast(e)
               \/ \E d \in BagToSet(net) : LoseDatagram(d)
        PROVE  Acting'
    <3>1. /\ UNCHANGED <<fsm_state, moderator_client, clbusy, alive>>
          /\ missed \subseteq missed'
      BY <2>4 DEF LoseMulticast, LoseDatagram, server
    <3> QED
      BY <2>0, <2>4, <3>1, LossActs, ActingKept
  <2>5. ASSUME NEW w \in workers,
               \/ WorkerCounts(w) \/ WorkerChecks(w) \/ WorkerStopsTimer(w)
               \/ WorkerReports(w) \/ WorkerCaches(w) \/ FetchFails(w)
        PROVE  Acting'
    <3>0. w.by \in Client
      BY DEF Types, WorkerTypes, Worker
    <3>1. CASE Ended(w.by)
      BY <2>3, <3>0, <3>1
    <3>2. CASE ~Ended(w.by)
      BY <2>0, <2>5, <3>2, WorkerActs, ActingKept
    <3> QED
      BY <3>1, <3>2
  <2>6. RcvReport \/ RcvDead \/ RcvAnswer \/ ModeratorSilent => Acting'
    BY <2>0, ReportActs, AnswerActs, SilentActs
  <2>7. ASSUME NEW c \in Client, NewModerator(c)
        PROVE  Acting'
    BY <2>0, <2>7, NewModeratorActs
  <2> QED
    BY <1>2, <2>1, <2>2, <2>3, <2>4, <2>5, <2>6, <2>7, Endings DEF Next
<1> QED
  BY <1>1, <1>2

(* While a task runs, the client the server follows acts as moderator, or  *)
(* is going to be told, or has answered (send_new_moderator_info,          *)
(* handle_moderator_update), whoever dies, is late or is given up          *)
(* meanwhile; only that the server itself does not give up a moderator     *)
(* that still works (MOD_RSP_TIMEOUT) is assumed.                          *)
THEOREM ModeratorAlwaysActs ==
  ASSUME "late moderator" \notin Mishap
  PROVE  Spec => []ModeratorActs
<1> DEFINE Inv == Types(Client) /\ Acting /\ \A c \in Client : HeartbeatsOf(c)
<1>1. Init => Inv
  BY InitTypes, MoreParts, InitHeartbeats, InitActs
<1>2. Inv /\ [Next]_vars => Inv'
  BY TypesStep, HeartbeatsStep, ActingStep
<1>3. Inv => ModeratorActs
  <2> SUFFICES ASSUME Inv, fsm_state = "running", moderator_client \in alive \ missed
               PROVE  \/ IsModerator(moderator_client)
                      \/ IsTold(moderator_client, {"notify", "update"})
                      \/ \E d \in BagToSet(net) :
                           d.type = "answer" /\ d.from = moderator_client
    BY DEF ModeratorActs
  <2> DEFINE c == moderator_client
  <2>1. FirstStill \/ Chosen(c)
    BY DEF Acting
  <2>2. Called(c) \/ IsModerator(c) \/ ~NoAnswer(c)
    BY <2>1 DEF FirstStill, Acts, Chosen, Appointed, Serves, Answered
  <2>3. Called(c) => IsTold(c, {"notify", "update"})
    BY DEF Called, Calls, Names, IsTold
  <2> QED
    BY <2>2, <2>3 DEF NoAnswer, AnswerOf
<1> QED
  BY <1>1, <1>2, <1>3, PTL DEF Spec

----------------------------------------------------------------------------
(* How many results are wanted.  The moderator of the first report waits   *)
(* for as many results as the group has clients, until the task request    *)
(* tells it how many there are; who has missed that request may never get  *)
(* so many, but a complete response does not come from anyone else.        *)
Wanted(r) ==
  /\ r.expected = Size \/ (fsm_state # "selected" /\ r.expected = expected)
  /\ IsInjective(r.resp)
  /\ Len(r.heard) <= Size
  /\ r.fsm = "notify" => r.active = Size /\ Len(r.heard) < Size
AskedFor(n, d) ==
  /\ d.type = "update" => d.expected = n
  /\ d.type = "task" /\ ~d.again => Len(d.ids) = n
Asked(d) == AskedFor(expected, d)
Delivered(d) ==
  /\ d.type = "report" => Len(d.data) <= Size
  /\ d.type = "answer" /\ forced = "no" =>
       Len(d.data) = expected /\ IsInjective(d.data)
Expectations ==
  /\ expected <= Size
  /\ \A c \in Client :
       /\ IsModerator(c) => Wanted(role[c])
       /\ \A i \in DOMAIN inbox[c] : Asked(inbox[c][i])
  /\ \A d \in BagToSet(net) : Delivered(d)

(* The parts that are known are no more than the results that are wanted.  *)
Known == \E K \in SUBSET Client : Cardinality(K) <= expected /\ Types(K)

(* At first nothing is expected, and nobody waits.                         *)
LEMMA InitExpectations ==
  ASSUME Init
  PROVE  Known /\ Expectations
<1>1. Known
  BY InitTypes, FS_EmptySet DEF Known, Init
<1>2. BagToSet(net) = {} /\ expected = 0
  BY DEF Init, EmptyBag, SetToBag, BagToSet
<1>3. \A c \in Client : inbox[c] = <<[type |-> "notify", mod |-> moderator_client]>>
                        /\ role[c] = NULL
  BY DEF Init
<1> QED
  BY <1>1, <1>2, <1>3, SizeIsNat DEF Expectations, IsModerator, Asked, AskedFor

(* Only the report of a selected group sets how many results are expected, *)
(* and only the answer ends a task.                                        *)
LEMMA ServerCounts ==
  ASSUME Next
  PROVE  /\ expected' = expected \/ (RcvReport /\ fsm_state = "selected")
         /\ fsm_state' # "done" \/ RcvAnswer
<1>1. fsm_state # "done"
  BY DEF Next
<1>2. UNCHANGED server \/ ServerStep
  BY ServerOrNot
<1>3. CASE UNCHANGED server
  BY <1>1, <1>3 DEF server
<1>4. CASE RcvReport
  BY <1>1, <1>4 DEF RcvReport
<1>5. CASE RcvDead
  BY <1>1, <1>5 DEF RcvDead, ServerEnds, server
<1>6. CASE RcvAnswer
  BY <1>6 DEF RcvAnswer
<1>7. CASE ModeratorSilent
  BY <1>7 DEF ModeratorSilent, ServerEnds
<1>8. ASSUME NEW c \in Client, NewModerator(c)
      PROVE  expected' = expected /\ fsm_state' # "done"
  BY <1>8 DEF NewModerator, ServerEnds
<1> QED
  BY <1>2, <1>3, <1>4, <1>5, <1>6, <1>7, <1>8 DEF ServerStep

(* The first report names the parts and sets how many results are          *)
(* expected; no other step adds a part.                                    *)
LEMMA KnownStep ==
  ASSUME Known, Types(Client), Before, [Next]_vars
  PROVE  Known'
<1>1. PICK K \in SUBSET Client : Cardinality(K) <= expected /\ Types(K)
  BY DEF Known
<1>2. CASE UNCHANGED vars
  <2>1. Types(K)' /\ expected' = expected
    BY <1>1, <1>2, Untouched DEF vars, server, clients, environment, Types
  <2> QED
    BY <1>1, <2>1 DEF Known
<1>3. CASE RcvReport /\ fsm_state = "selected"
  <2>1. Types({})
    BY <1>3 DEF Before
  <2>2. PICK s \in Seq(Client) : Types({} \cup Range(s))' /\ expected' = Len(s)
    BY <1>3, <2>1, ReportTypes
  <2>3. Range(s) \in SUBSET Client /\ Cardinality(Range(s)) <= Len(s)
    BY RangeIsFinite
  <2>4. {} \cup Range(s) = Range(s)
    OBVIOUS
  <2> QED
    BY <2>2, <2>3, <2>4 DEF Known
<1>4. CASE Next /\ ~(RcvReport /\ fsm_state = "selected")
  <2>1. Types(K)'
    BY <1>1, <1>4, StepTypes
  <2>2. expected' = expected
    BY <1>4, ServerCounts
  <2> QED
    BY <1>1, <2>1, <2>2 DEF Known
<1> QED
  BY <1>2, <1>3, <1>4

(* What a step of a client may do to what is wanted.                       *)
LEMMA ExpectationsKept ==
  ASSUME Expectations, UNCHANGED server, forced' = forced \/ forced' = "yes",
         \A c \in Client :
           /\ role'[c] = role[c] \/ (IsModerator(c)' => Wanted(role'[c]))
           /\ inbox'[c] = inbox[c] \/ (\A i \in DOMAIN inbox'[c] : Asked(inbox'[c][i])),
         \A d \in BagToSet(net') :
           \/ d \in BagToSet(net) \/ d.type \notin {"report", "answer"}
           \/ d.type = "report" /\ Len(d.data) <= Size
           \/ d.type = "answer" /\ (forced' = "no" =>
                Len(d.data) = expected /\ IsInjective(d.data))
  PROVE  Expectations'
<1>1. expected' = expected /\ fsm_state' = fsm_state
  BY DEF server
<1>2. ASSUME NEW c \in Client, IsModerator(c)'
      PROVE  Wanted(role[c])'
  <2>1. Wanted(role'[c])
    BY <1>2 DEF Expectations, IsModerator
  <2> QED
    BY <1>1, <2>1 DEF Wanted
<1>3. ASSUME NEW c \in Client, NEW i \in DOMAIN inbox'[c]
      PROVE  Asked(inbox[c][i])'
  <2>1. Asked(inbox'[c][i])
    BY <1>3 DEF Expectations
  <2> QED
    BY <1>1, <2>1 DEF Asked, AskedFor
<1>4. ASSUME NEW d \in BagToSet(net')
      PROVE  Delivered(d)'
  BY <1>1, <1>4 DEF Expectations, Delivered
<1> QED
  BY <1>1, <1>2, <1>3, <1>4 DEF Expectations

(* A datagram that is taken was asked for as expected.                     *)
LEMMA TookAsked ==
  ASSUME Types(Client), Expectations, NEW e \in Client, HasMail(e), inbox' = Took(e)
  PROVE  /\ Asked(Head(inbox[e]))
         /\ \A c \in Client :
              inbox'[c] = inbox[c] \/ \A i \in DOMAIN inbox'[c] : Asked(inbox'[c][i])
<1>1. inbox[e] \in Seq(Mail(Client)) /\ inbox[e] # <<>>
  BY DEF Types, MailTypes, HasMail
<1>2. inbox'[e] = Tail(inbox[e]) /\ \A c \in Client \ {e} : inbox'[c] = inbox[c]
  BY TookType
<1>3. 1 \in DOMAIN inbox[e] /\ Head(inbox[e]) = inbox[e][1]
  BY <1>1
<1>4. \A i \in DOMAIN Tail(inbox[e]) :
        i + 1 \in DOMAIN inbox[e] /\ Tail(inbox[e])[i] = inbox[e][i + 1]
  BY <1>1
<1>5. \A i \in DOMAIN inbox[e] : Asked(inbox[e][i])
  BY DEF Expectations
<1>6. \A i \in DOMAIN inbox'[e] : Asked(inbox'[e][i])
  BY <1>2, <1>4, <1>5
<1>7. Asked(Head(inbox[e]))
  BY <1>3, <1>5
<1> QED
  BY <1>2, <1>6, <1>7

(* The parts in a response are parts that are known, and none is twice.    *)
LEMMA NoMoreThanKnown ==
  ASSUME Types(Client), NEW K \in SUBSET Client, Cardinality(K) <= expected,
         NEW s \in Seq(K), IsInjective(s)
  PROVE  Len(s) <= expected
<1>1. IsFiniteSet(K) /\ Cardinality(K) \in Nat
  BY ClientAssumption, FS_Subset, FS_CardinalityType
<1>2. Len(s) <= Cardinality(K) /\ Len(s) \in Nat
  BY <1>1, InjectiveLen
<1> QED
  BY <1>1, <1>2 DEF Types, ServerTypes

(* A result that is collected once, and an answer with the last of them.   *)
LEMMA CollectsExpected ==
  ASSUME TypeFile, Types(Client), Expectations,
         NEW K \in SUBSET Client, Cardinality(K) <= expected, Types(K),
         NEW m \in Client, NEW c, NEW p \in K, NEW B \in Nets(K), CollectsFrom(m, c, p, B)
  PROVE  /\ \A e \in Client : role'[e] = role[e] \/ (IsModerator(e)' => Wanted(role'[e]))
         /\ \A d \in BagToSet(net') :
              \/ d \in BagToSet(B)
              \/ d.type = "answer" /\ Len(d.data) = expected /\ IsInjective(d.data)
<1>1. CASE ~IsModerator(m) \/ Found(role[m].pending, c) = 0
  BY <1>1 DEF CollectsFrom
<1>2. CASE IsModerator(m) /\ Found(role[m].pending, c) # 0
  <2> DEFINE q == role[m]
             r == Collected(q, c, p)
  <2>1. q \in Roles(K) /\ Wanted(q)
    BY <1>2, RoleOf DEF Expectations
  <2>2. /\ r \in Roles(K)
        /\ r.resp = IF Contains(q.resp, p) THEN q.resp ELSE Append(q.resp, p)
        /\ r.expected = q.expected /\ r.active = q.active
        /\ r.fsm = q.fsm /\ r.heard = q.heard
    BY <1>2, <2>1, CollectedType
  <2>3. q.resp \in Seq(K) /\ r.resp \in Seq(K) /\ r.expected \in Nat
    BY <2>1, <2>2 DEF Roles
  <2> HIDE DEF q, r
  <2>4. IsInjective(r.resp)
    BY <2>1, <2>2, <2>3, InjectiveAppend DEF Wanted
  <2>5. Wanted(r)
    BY <2>1, <2>2, <2>4 DEF Wanted
  <2>6. IF Len(r.resp) = r.expected
        THEN Answers(m, r, B) ELSE role' = [role EXCEPT ![m] = r] /\ net' = B
    BY <1>2 DEF CollectsFrom, q, r
  <2>7. CASE Answers(m, r, B) /\ Len(r.resp) = r.expected
    <3>1. role' = [role EXCEPT ![m] = NULL]
          /\ net' = BagAdd(B, Sent("answer", m, NULL, r.resp))
      BY <2>7 DEF Answers
    <3>2. role'[m] = NULL /\ \A e \in Client \ {m} : role'[e] = role[e]
      BY <3>1, RoleSet
    <3>3. Sent("answer", m, NULL, r.resp) \in Msg(K)
      BY <2>3, SentType
    <3>4. BagToSet(net') = BagToSet(B) \cup {Sent("answer", m, NULL, r.resp)}
      BY <3>1, <3>3, BagAddNet
    <3>5. Sent("answer", m, NULL, r.resp).type = "answer"
          /\ Sent("answer", m, NULL, r.resp).data = r.resp
      BY DEF Sent
    <3>6. Len(r.resp) = expected
      <4>1. Len(r.resp) <= expected
        BY <2>3, <2>4, NoMoreThanKnown
      <4>2. expected \in Nat /\ expected <= Size /\ Size \in Nat
        BY SizeIsNat DEF Types, ServerTypes, Expectations
      <4> QED
        BY <2>3, <2>5, <2>7, <4>1, <4>2 DEF Wanted
    <3> QED
      BY <2>4, <3>2, <3>4, <3>5, <3>6 DEF IsModerator
  <2>8. CASE role' = [role EXCEPT ![m] = r] /\ net' = B
    <3>1. role'[m] = r /\ \A e \in Client \ {m} : role'[e] = role[e]
      BY <2>8, RoleSet
    <3> QED
      BY <2>5, <2>8, <3>1
  <2> QED
    BY <2>6, <2>7, <2>8
<1> QED
  BY <1>1, <1>2

(* A moderator with a changed role.                                        *)
LEMMA RoleExpected ==
  ASSUME Types(Client), NEW m \in Client, NEW r, r = NULL \/ Wanted(r),
         role' = [role EXCEPT ![m] = r]
  PROVE  \A e \in Client : role'[e] = role[e] \/ (IsModerator(e)' => Wanted(role'[e]))
<1>1. role'[m] = r /\ \A e \in Client \ {m} : role'[e] = role[e]
  BY RoleSet
<1> QED
  BY <1>1 DEF IsModerator

(* A moderator that reports names no more clients than there are.          *)
LEMMA ReportsExpected ==
  ASSUME Types(Client), NEW m \in Client, NEW r \in Roles(Client),
         r.expected = Size \/ (fsm_state # "selected" /\ r.expected = expected),
         IsInjective(r.resp), Len(r.heard) <= Size,
         NEW t \in {"none", "expired"}, NEW B \in Nets(Client),
         BagToSet(B) \subseteq BagToSet(net), Reports(m, r, t, B)
  PROVE  /\ \A e \in Client : role'[e] = role[e] \/ (IsModerator(e)' => Wanted(role'[e]))
         /\ \A d \in BagToSet(net') :
              \/ d \in BagToSet(net)
              \/ d.type = "report" /\ Len(d.data) <= Size
<1>1. /\ BagToSet(net') = BagToSet(B) \cup {Sent("report", m, NULL, r.heard)}
      /\ role'[m].fsm = "notified" /\ role'[m].heard = <<>>
      /\ role'[m].resp = r.resp /\ role'[m].expected = r.expected
      /\ \A e \in Client \ {m} : role'[e] = role[e]
  BY ReportsType
<1>2. Len(<<>>) = 0 /\ 0 <= Size
  BY SizeIsNat
<1>3. Wanted(role'[m])
  BY <1>1, <1>2 DEF Wanted
<1> QED
  BY <1>1, <1>3 DEF Sent

(* The notification of a moderator: it waits for the whole group.          *)
LEMMA NotifyExpected ==
  ASSUME Types(Client), Expectations, NEW c \in Client, RcvNotify(c)
  PROVE  Expectations'
<1> DEFINE d == Head(inbox[c])
           r == [NewRole EXCEPT !.active = Size, !.expected = Size, !.heard = <<c>>]
           One(e) == role'[e] = role[e] \/ (IsModerator(e)' => Wanted(role'[e]))
<1>1. /\ HasMail(c) /\ inbox' = Took(c) /\ UNCHANGED server /\ UNCHANGED forced
      /\ d.type = "notify"
  BY DEF RcvNotify, Takes, environment
<1>2. d.mod \in Client /\ net \in Nets(Client)
  BY <1>1, TookType, MailFacts DEF Types, MailTypes
<1>3. /\ r \in Roles(Client) /\ r.expected = Size /\ r.active = Size
      /\ r.resp = <<>> /\ r.heard = <<c>>
  <2>1. Size \in Nat /\ <<c>> \in Seq(Client) /\ <<>> \in Seq(Nodes) /\ <<>> \in Seq(Client)
    BY SizeIsNat
  <2> QED
    BY <2>1 DEF NewRole, Roles
<1>4. IsInjective(r.resp) /\ Len(r.heard) = 1 /\ Size \in Nat \ {0}
  BY <1>3, SizeIsNat DEF IsInjective
<1>5. \/ net' = Posted(net, Sent("hello", c, d.mod, <<>>)) /\ UNCHANGED role
      \/ Reports(c, r, "none", net)
      \/ Size # 1 /\ role' = [role EXCEPT ![c] = [r EXCEPT !.timer = "oneshot"]]
         /\ UNCHANGED net
  BY DEF RcvNotify, Size
<1> HIDE DEF d, r
<1>6. /\ \A e \in Client : One(e)
      /\ \A x \in BagToSet(net') : \/ x \in BagToSet(net) \/ x.type \notin {"report", "answer"}
                                   \/ x.type = "report" /\ Len(x.data) <= Size
  <2>1. CASE net' = Posted(net, Sent("hello", c, d.mod, <<>>)) /\ UNCHANGED role
    <3>1. Sent("hello", c, d.mod, <<>>) \in Msg(Client)
          /\ Sent("hello", c, d.mod, <<>>).type = "hello"
      <4>1. Sent("hello", c, d.mod, <<>>) \in Msg(Client)
        BY <1>2, SentType
      <4> QED
        BY <4>1 DEF Sent
    <3>2. BagToSet(net') \subseteq BagToSet(net) \cup {Sent("hello", c, d.mod, <<>>)}
      BY <1>2, <2>1, <3>1, PostedNet
    <3> QED
      BY <2>1, <3>1, <3>2
  <2>2. CASE Reports(c, r, "none", net)
    <3>1. Len(r.heard) <= Size /\ BagToSet(net) \subseteq BagToSet(net)
      BY <1>4
    <3>2. /\ \A e \in Client : role'[e] = role[e] \/ (IsModerator(e)' => Wanted(role'[e]))
          /\ \A x \in BagToSet(net') :
                x \in BagToSet(net) \/ (x.type = "report" /\ Len(x.data) <= Size)
      BY <1>2, <1>3, <1>4, <2>2, <3>1, ReportsExpected
    <3> QED
      BY <3>2
  <2>3. CASE Size # 1 /\ role' = [role EXCEPT ![c] = [r EXCEPT !.timer = "oneshot"]]
             /\ UNCHANGED net
    <3> DEFINE q == [r EXCEPT !.timer = "oneshot"]
    <3>1. q.expected = r.expected /\ q.resp = r.resp /\ q.heard = r.heard
          /\ q.active = r.active
      BY <1>3 DEF Roles
    <3> HIDE DEF q
    <3>2. Wanted(q)
      BY <1>3, <1>4, <2>3, <3>1 DEF Wanted
    <3> QED
      BY <2>3, <3>2, RoleExpected DEF q
  <2> QED
    BY <1>5, <2>1, <2>2, <2>3
<1>7. \A e \in Client :
        inbox'[e] = inbox[e] \/ \A i \in DOMAIN inbox'[e] : Asked(inbox'[e][i])
  BY <1>1, TookAsked
<1> QED
  BY <1>1, <1>6, <1>7, ExpectationsKept

(* The answers of the group to it, and the time it has for them.           *)
LEMMA HelloExpected ==
  ASSUME Types(Client), Expectations, NEW m \in Client,
         RcvHello(m) \/ NotifyTimeout(m) \/ NotifyTimeoutIgnored(m)
  PROVE  Expectations'
<1>1. UNCHANGED server /\ UNCHANGED inbox /\ UNCHANGED forced
  BY DEF RcvHello, NotifyTimeout, NotifyTimeoutIgnored, environment
<1>2. net \in Nets(Client)
  BY DEF Types, MailTypes
<1>3. ASSUME NEW r \in Roles(Client),
             r.expected = Size \/ (fsm_state # "selected" /\ r.expected = expected),
             IsInjective(r.resp), Len(r.heard) <= Size,
             NEW t \in {"none", "expired"}, NEW B \in Nets(Client),
             BagToSet(B) \subseteq BagToSet(net), Reports(m, r, t, B)
      PROVE  Expectations'
  <2>1. /\ \A e \in Client : role'[e] = role[e] \/ (IsModerator(e)' => Wanted(role'[e]))
        /\ \A d \in BagToSet(net') :
              \/ d \in BagToSet(net)
              \/ d.type = "report" /\ Len(d.data) <= Size
    BY <1>3, ReportsExpected
  <2> QED
    BY <1>1, <2>1, ExpectationsKept
<1>4. ASSUME NEW r, Wanted(r), role' = [role EXCEPT ![m] = r],
             BagToSet(net') \subseteq BagToSet(net)
      PROVE  Expectations'
  <2>1. \A e \in Client : role'[e] = role[e] \/ (IsModerator(e)' => Wanted(role'[e]))
    BY <1>4, RoleExpected
  <2> QED
    BY <1>1, <1>4, <2>1, ExpectationsKept
<1>5. IsModerator(m) => role[m] \in Roles(Client) /\ Wanted(role[m])
  BY RoleOf DEF Expectations
<1>6. CASE RcvHello(m)
  <2>1. PICK d \in BagToSet(net) :
          LET rest == BagRemove(net, d)
              r == [role[m] EXCEPT !.heard = Append(@, d.from)]
          IN IF ~IsModerator(m) \/ role[m].fsm = "notified"
             THEN net' = rest /\ UNCHANGED role
             ELSE IF role[m].fsm = "task"
             THEN net' = rest /\ role' = [role EXCEPT ![m] = Heard(@, d.from)]
             ELSE IF Len(r.heard) = r.active
                  THEN Reports(m, r, "none", rest)
                  ELSE role' = [role EXCEPT ![m] = r] /\ net' = rest
    BY <1>6 DEF RcvHello
  <2> DEFINE rest == BagRemove(net, d)
             r == [role[m] EXCEPT !.heard = Append(@, d.from)]
  <2>2. rest \in Nets(Client) /\ BagToSet(rest) \subseteq BagToSet(net)
    BY <1>2, BagRemoveNet
  <2>3. CASE net' = rest /\ UNCHANGED role
    <3> HIDE DEF rest
    <3> QED
      BY <1>1, <2>2, <2>3, ExpectationsKept
  <2>4. CASE IsModerator(m) /\ net' = rest /\ role' = [role EXCEPT ![m] = Heard(@, d.from)]
    <3>1. PICK q \in Roles(Client) : q = role[m]
      BY <1>5, <2>4
    <3>2. /\ Heard(q, d.from).resp = q.resp /\ Heard(q, d.from).fsm = q.fsm
          /\ Heard(q, d.from).expected = q.expected /\ Heard(q, d.from).active = q.active
          /\ Heard(q, d.from).heard = q.heard
      BY HeardType
    <3>3. Wanted(Heard(q, d.from))
      BY <1>5, <2>4, <3>1, <3>2 DEF Wanted
    <3> HIDE DEF rest
    <3> QED
      BY <1>4, <2>2, <2>4, <3>1, <3>3
  <2>5. CASE /\ IsModerator(m) /\ role[m].fsm \notin {"notified", "task"}
             /\ IF Len(r.heard) = r.active
                THEN Reports(m, r, "none", rest)
                ELSE role' = [role EXCEPT ![m] = r] /\ net' = rest
    <3>1. PICK q \in Roles(Client) : q = role[m]
      BY <1>5, <2>5
    <3>2. d.from \in Client
      BY <1>2, NetIsBag, MsgFacts
    <3>3. q.fsm = "notify" /\ q.heard \in Seq(Client)
      BY <2>5, <3>1 DEF Roles
    <3>4. /\ r \in Roles(Client) /\ r.fsm = q.fsm /\ r.active = q.active
          /\ r.expected = q.expected /\ r.resp = q.resp
          /\ Len(r.heard) = Len(q.heard) + 1
      <4> DEFINE h == Append(q.heard, d.from)
                 p == [q EXCEPT !.heard = h]
      <4>1. h \in Seq(Client) /\ Len(h) = Len(q.heard) + 1
        BY <3>2, <3>3
      <4> HIDE DEF h
      <4>2. p \in Roles(Client) /\ p.fsm = q.fsm /\ p.active = q.active
            /\ p.expected = q.expected /\ p.resp = q.resp /\ p.heard = h
        BY <4>1 DEF Roles
      <4>3. r = p
        BY <3>1 DEF h
      <4> HIDE DEF p
      <4> QED
        BY <4>1, <4>2, <4>3
    <3>5. Wanted(q) /\ Len(q.heard) \in Nat /\ Size \in Nat
      BY <1>5, <2>5, <3>1, <3>3, SizeIsNat
    <3> HIDE DEF r, rest
    <3>6. Len(r.heard) <= Size /\ r.active = Size
      BY <3>3, <3>4, <3>5 DEF Wanted
    <3>7. CASE Len(r.heard) = r.active /\ Reports(m, r, "none", rest)
      <4>1. /\ r.expected = Size \/ (fsm_state # "selected" /\ r.expected = expected)
            /\ IsInjective(r.resp)
        BY <3>4, <3>5 DEF Wanted
      <4> QED
        BY <1>3, <2>2, <3>4, <3>6, <3>7, <4>1
    <3>8. CASE Len(r.heard) # r.active /\ role' = [role EXCEPT ![m] = r] /\ net' = rest
      <4>1. Wanted(r)
        BY <3>4, <3>5, <3>6, <3>8 DEF Wanted
      <4> QED
        BY <1>4, <2>2, <3>8, <4>1
    <3> QED
      BY <2>5, <3>7, <3>8
  <2> HIDE DEF r, rest
  <2> QED
    BY <2>1, <2>3, <2>4, <2>5 DEF r, rest
<1>7. CASE NotifyTimeout(m)
  <2>1. IsModerator(m) /\ Reports(m, role[m], "expired", net)
    BY <1>7 DEF NotifyTimeout
  <2> QED
    BY <1>2, <1>3, <1>5, <2>1 DEF Wanted
<1>8. CASE NotifyTimeoutIgnored(m)
  <2>1. IsModerator(m) /\ UNCHANGED net /\ role' = [role EXCEPT ![m].timer = "expired"]
    BY <1>8 DEF NotifyTimeoutIgnored
  <2>2. PICK q \in Roles(Client) : q = role[m]
    BY <1>5, <2>1
  <2>3. [role EXCEPT ![m].timer = "expired"]
          = [role EXCEPT ![m] = [role[m] EXCEPT !.timer = "expired"]]
    BY Zenon
  <2> DEFINE p == [q EXCEPT !.timer = "expired"]
  <2>4. p.fsm = q.fsm /\ p.active = q.active /\ p.expected = q.expected
        /\ p.resp = q.resp /\ p.heard = q.heard
    BY DEF Roles
  <2>5. role' = [role EXCEPT ![m] = p]
    BY <2>1, <2>2, <2>3
  <2> HIDE DEF p
  <2>6. Wanted(p)
    BY <1>5, <2>1, <2>2, <2>4 DEF Wanted
  <2> QED
    BY <1>4, <2>1, <2>5, <2>6
<1> QED
  BY <1>6, <1>7, <1>8

(* A task request says how many results are wanted, and so does the news   *)
(* of a change of moderator.                                               *)
LEMMA TaskExpected ==
  ASSUME Types(Client), Before, Expectations, NEW c \in Client, RcvTask(c) \/ RcvUpdate(c)
  PROVE  Expectations'
<1> DEFINE d == Head(inbox[c])
<1>1. /\ HasMail(c) /\ inbox' = Took(c) /\ UNCHANGED server /\ UNCHANGED forced
      /\ d.type \in {"task", "update"}
  BY DEF RcvTask, RcvUpdate, Takes, environment
<1>2. /\ d \in Mail(Client) /\ Asked(d)
      /\ \A e \in Client :
           inbox'[e] = inbox[e] \/ \A i \in DOMAIN inbox'[e] : Asked(inbox'[e][i])
  BY <1>1, TookType, TookAsked
<1>3. fsm_state # "selected"
  <2>1. inbox[c] \in Seq(Mail(Client)) /\ inbox[c] # <<>>
    BY <1>1 DEF Types, MailTypes, HasMail
  <2>2. 1 \in DOMAIN inbox[c] /\ d = inbox[c][1]
    BY <2>1
  <2> HIDE DEF d
  <2> QED
    BY <1>1, <2>2 DEF Before
<1>4. CASE RcvTask(c)
  <2> DEFINE included == Hired(c, d) # {}
  <2>1. /\ role' = IF IsModerator(c)
                   THEN [role EXCEPT ![c] = Tracking(role[c], d, included)] ELSE role
        /\ UNCHANGED net /\ d.type = "task"
    BY <1>4 DEF RcvTask, Takes
  <2>2. included \in BOOLEAN
    OBVIOUS
  <2> HIDE DEF d, included
  <2>3. \A e \in Client : role'[e] = role[e] \/ (IsModerator(e)' => Wanted(role'[e]))
    <3>1. CASE IsModerator(c)
      <4> DEFINE q == role[c]
                 r == Tracking(q, d, included)
      <4>1. q \in Roles(Client) /\ Wanted(q)
        BY <3>1, RoleOf DEF Expectations
      <4> HIDE DEF q
      <4>2. /\ r.resp = q.resp /\ r.heard = q.heard /\ r.fsm = "task"
            /\ r.expected = IF d.again THEN q.expected ELSE Len(d.ids)
        BY <1>2, <2>1, <2>2, <4>1, TrackingType
      <4> HIDE DEF r
      <4>3. Wanted(r)
        BY <1>2, <1>3, <2>1, <4>1, <4>2 DEF Wanted, Asked, AskedFor
      <4>4. role' = [role EXCEPT ![c] = r]
        BY <2>1, <3>1 DEF q, r
      <4> QED
        BY <4>3, <4>4, RoleExpected
    <3>2. CASE ~IsModerator(c)
      BY <2>1, <3>2
    <3> QED
      BY <3>1, <3>2
  <2> QED
    BY <1>1, <1>2, <2>1, <2>3, ExpectationsKept
<1>5. CASE RcvUpdate(c)
  <2> DEFINE nodes == [i \in DOMAIN d.ids |-> NewNode(d.ids[i])]
             r == [NewRole EXCEPT
                     !.fsm = "task", !.active = Len(d.ids), !.expected = d.expected,
                     !.pending = Reverse(nodes)]
  <2>1. /\ d.type = "update"
        /\ \/ role' = [role EXCEPT ![c] = NULL] \/ UNCHANGED role
           \/ role' = [role EXCEPT ![c] = r]
        /\ UNCHANGED net \/ net' = Resent(c, d.mod)
    BY <1>5 DEF RcvUpdate, Takes
  <2>2. d.mod \in Ids
    BY <1>2, <2>1, MailFacts DEF Ids
  <2>3. r.expected = d.expected /\ r.resp = <<>> /\ r.heard = <<>> /\ r.fsm = "task"
    BY DEF NewRole
  <2> HIDE DEF d, r
  <2>4. Wanted(r)
    <3>1. r.expected = expected
      BY <1>2, <2>1, <2>3 DEF Asked, AskedFor
    <3>2. IsInjective(<<>>) /\ Len(<<>>) = 0 /\ 0 <= Size
      BY SizeIsNat DEF IsInjective
    <3> QED
      BY <1>3, <2>3, <3>1, <3>2 DEF Wanted
  <2>5. \A e \in Client : role'[e] = role[e] \/ (IsModerator(e)' => Wanted(role'[e]))
    BY <2>1, <2>4, RoleExpected
  <2>6. \A x \in BagToSet(net') : x \in BagToSet(net) \/ x.type \notin {"report", "answer"}
    BY <2>1, <2>2, ResentNet
  <2> QED
    BY <1>1, <1>2, <2>5, <2>6, ExpectationsKept
<1> QED
  BY <1>4, <1>5

(* The heartbeats of clients and a missing one.                            *)
LEMMA MonitorExpected ==
  ASSUME Types(Client), Expectations, NEW m \in Client,
         Monitor(m) \/ \E c \in Client : Heartbeat(c, m)
  PROVE  Expectations'
<1>1. /\ UNCHANGED server /\ UNCHANGED inbox /\ UNCHANGED forced
      /\ role[m] \in Roles(Client) /\ Wanted(role[m]) /\ net \in Nets(Client)
  BY RoleOf DEF Monitor, Heartbeat, environment, Expectations, Types, MailTypes
<1>2. ASSUME NEW c \in Client, Heartbeat(c, m)
      PROVE  Expectations'
  <2>1. UNCHANGED net /\ role' = [role EXCEPT ![m] = Heard(role[m], c)]
    BY <1>2 DEF Heartbeat
  <2>2. Wanted(Heard(role[m], c))
    BY <1>1, HeardType DEF Wanted
  <2> QED
    BY <1>1, <2>1, <2>2, RoleExpected, ExpectationsKept
<1>3. CASE Monitor(m)
  <2>1. /\ \E p : role' = [role EXCEPT ![m].pending = p]
        /\ UNCHANGED net \/ \E c : net' = BagAdd(net, Sent("dead", m, NULL, c))
    BY <1>3 DEF Monitor
  <2>2. PICK p : role' = [role EXCEPT ![m].pending = p]
    BY <2>1
  <2> DEFINE q == [role[m] EXCEPT !.pending = p]
  <2>3. role' = [role EXCEPT ![m] = q]
    <3>1. [role EXCEPT ![m].pending = p] = [role EXCEPT ![m] = [role[m] EXCEPT !.pending = p]]
      BY Zenon
    <3> QED
      BY <2>2, <3>1
  <2>4. Wanted(q)
    <3>1. PICK r \in Roles(Client) : r = role[m]
      BY <1>1
    <3> DEFINE s == [r EXCEPT !.pending = p]
    <3>2. s.fsm = r.fsm /\ s.active = r.active /\ s.expected = r.expected
          /\ s.resp = r.resp /\ s.heard = r.heard
      BY DEF Roles
    <3>3. s = q
      BY <3>1
    <3> HIDE DEF s, q
    <3>4. Wanted(s)
      BY <1>1, <3>1, <3>2 DEF Wanted
    <3> QED
      BY <3>3, <3>4
  <2> HIDE DEF q
  <2>5. \A d \in BagToSet(net') : d \in BagToSet(net) \/ d.type = "dead"
    <3>1. CASE UNCHANGED net
      BY <3>1
    <3>2. ASSUME NEW c, net' = BagAdd(net, Sent("dead", m, NULL, c))
          PROVE  \A d \in BagToSet(net') : d \in BagToSet(net) \/ d.type = "dead"
      <4>1. BagToSet(net') \subseteq BagToSet(net) \cup {Sent("dead", m, NULL, c)}
        BY <3>2 DEF BagAdd, BagToSet
      <4> QED
        BY <4>1 DEF Sent
    <3> QED
      BY <2>1, <3>1, <3>2
  <2> QED
    BY <1>1, <2>3, <2>4, <2>5, RoleExpected, ExpectationsKept
<1> QED
  BY <1>2, <1>3

(* The results that a moderator takes, and the answer that it is made to   *)
(* give before it has them all.                                            *)
LEMMA ResultExpected ==
  ASSUME TypeFile, Types(Client), Known, Expectations, NEW m \in Client,
         RcvResult(m) \/ ForceCleanup(m)
  PROVE  Expectations'
<1>1. UNCHANGED server /\ UNCHANGED inbox /\ net \in Nets(Client)
  BY DEF RcvResult, ForceCleanup, Types, MailTypes
<1>2. CASE RcvResult(m)
  <2>1. PICK d \in BagToSet(net) :
          d.type = "result" /\ CollectsFrom(m, d.from, d.data, BagRemove(net, d))
    BY <1>2 DEF RcvResult
  <2>2. PICK K \in SUBSET Client : Cardinality(K) <= expected /\ Types(K)
    BY DEF Known
  <2>3. net \in Nets(K)
    BY <2>2 DEF Types, MailTypes
  <2>4. d.data \in K
    BY <2>1, <2>3, NetIsBag, MsgFacts
  <2>5. BagRemove(net, d) \in Nets(K)
        /\ BagToSet(BagRemove(net, d)) \subseteq BagToSet(net)
    BY <2>3, BagRemoveNet
  <2>6. /\ \A e \in Client : role'[e] = role[e] \/ (IsModerator(e)' => Wanted(role'[e]))
        /\ \A x \in BagToSet(net') :
             \/ x \in BagToSet(BagRemove(net, d))
             \/ x.type = "answer" /\ Len(x.data) = expected /\ IsInjective(x.data)
    BY <2>1, <2>2, <2>4, <2>5, CollectsExpected
  <2>7. UNCHANGED forced
    BY <1>2 DEF RcvResult
  <2> QED
    BY <1>1, <2>5, <2>6, <2>7, ExpectationsKept
<1>3. CASE ForceCleanup(m)
  <2>1. /\ IsModerator(m) /\ forced' = "yes" /\ role' = [role EXCEPT ![m] = NULL]
        /\ net' = BagAdd(net, Sent("answer", m, NULL, role[m].resp))
    BY <1>3 DEF ForceCleanup, Answers
  <2>2. BagToSet(net') \subseteq BagToSet(net) \cup {Sent("answer", m, NULL, role[m].resp)}
    BY <2>1 DEF BagAdd, BagToSet
  <2>3. Sent("answer", m, NULL, role[m].resp).type = "answer"
    BY DEF Sent
  <2>4. \A e \in Client : role'[e] = role[e] \/ (IsModerator(e)' => Wanted(role'[e]))
    BY <2>1, RoleExpected
  <2>5. \A x \in BagToSet(net') : x \in BagToSet(net) \/ x.type = "answer"
    BY <2>2, <2>3
  <2>6. "yes" # "no"
    OBVIOUS
  <2> QED
    BY <1>1, <2>1, <2>4, <2>5, <2>6, ExpectationsKept
<1> QED
  BY <1>2, <1>3

(* A client ends.                                                          *)
LEMMA EndedExpected ==
  ASSUME Types(Client), Expectations, NEW c \in Client, Ended(c)
  PROVE  Expectations'
<1>1. /\ UNCHANGED server /\ UNCHANGED forced
      /\ role' = [role EXCEPT ![c] = NULL] /\ net' = Reaching(net, alive \ {c})
  BY DEF Ended
<1>2. net \in Nets(Client) /\ inbox \in [Client -> Seq(Mail(Client))]
  BY DEF Types, MailTypes
<1>3. BagToSet(net') \subseteq BagToSet(net)
  BY <1>1, <1>2, ReachingNet
<1>4. \A e \in Client : inbox'[e] = inbox[e] \/ inbox'[e] = <<>>
  BY <1>2 DEF Ended
<1>5. \A e \in Client : role'[e] = role[e] \/ (IsModerator(e)' => Wanted(role'[e]))
  BY <1>1, RoleExpected
<1> QED
  <2>1. DOMAIN <<>> = {}
    OBVIOUS
  <2>2. \A e \in Client :
          inbox'[e] = inbox[e] \/ \A i \in DOMAIN inbox'[e] : Asked(inbox'[e][i])
    BY <1>4, <2>1
  <2> QED
    BY <1>1, <1>3, <1>5, <2>2, ExpectationsKept

(* The threads, of which one may be the last that is waited for.           *)
LEMMA WorkerExpected ==
  ASSUME TypeFile, Types(Client), Known, Expectations, NEW w \in workers,
         \/ WorkerCounts(w) \/ WorkerChecks(w) \/ WorkerStopsTimer(w)
         \/ WorkerReports(w) \/ WorkerCaches(w) \/ FetchFails(w)
  PROVE  Expectations'
<1>0. w.by \in Client /\ net \in Nets(Client)
  BY DEF Types, WorkerTypes, Worker, MailTypes
<1>1. CASE Ended(w.by)
  BY <1>0, <1>1, EndedExpected
<1>2. CASE UNCHANGED <<role, net>> /\ ~Ended(w.by)
  <2>1. UNCHANGED server /\ UNCHANGED inbox /\ UNCHANGED forced
    BY <1>2 DEF WorkerCounts, WorkerChecks, WorkerStopsTimer, WorkerReports,
       WorkerCaches, FetchFails, environment
  <2> QED
    BY <1>2, <2>1, ExpectationsKept
<1>3. CASE WorkerReports(w)
  <2>1. UNCHANGED server /\ UNCHANGED inbox /\ UNCHANGED forced
    BY <1>3 DEF WorkerReports, environment
  <2>2. CASE CollectsFrom(w.by, w.by, w.part, net)
    <3>1. PICK K \in SUBSET Client : Cardinality(K) <= expected /\ Types(K)
      BY DEF Known
    <3>2. net \in Nets(K) /\ w.part \in K
      BY <3>1 DEF Types, MailTypes, WorkerTypes
    <3>3. /\ \A e \in Client : role'[e] = role[e] \/ (IsModerator(e)' => Wanted(role'[e]))
          /\ \A x \in BagToSet(net') :
               \/ x \in BagToSet(net)
               \/ x.type = "answer" /\ Len(x.data) = expected /\ IsInjective(x.data)
      BY <1>0, <2>2, <3>1, <3>2, CollectsExpected
    <3> QED
      BY <2>1, <3>3, ExpectationsKept
  <2>3. CASE /\ net' = Posted(net, Sent("result", w.by, moderator[w.by], w.part))
             /\ UNCHANGED role
    <3> DEFINE d == Sent("result", w.by, moderator[w.by], w.part)
    <3>1. d \in Msg(Client)
      <4>1. moderator[w.by] \in Ids /\ w.part \in Client
        BY <1>0 DEF Types, ClientTypes, WorkerTypes
      <4> QED
        BY <1>0, <4>1, SentType
    <3>2. d.type = "result"
      BY DEF Sent
    <3> HIDE DEF d
    <3>3. BagToSet(net') \subseteq BagToSet(net) \cup {d}
      BY <1>0, <2>3, <3>1, PostedNet DEF d
    <3> QED
      BY <2>1, <2>3, <3>2, <3>3, ExpectationsKept
  <2> QED
    BY <1>3, <2>2, <2>3 DEF WorkerReports
<1>4. Ended(w.by) \/ WorkerReports(w) \/ UNCHANGED <<role, net>>
  BY DEF WorkerCounts, WorkerChecks, WorkerStopsTimer, WorkerCaches, FetchFails
<1> QED
  BY <1>1, <1>2, <1>3, <1>4

(* The server says how many results are wanted with the first task request *)
(* and with every change of moderator.                                     *)
LEMMA ServerExpected ==
  ASSUME Types(Client), Before, Expectations, ServerStep
  PROVE  Expectations'
<1>1. /\ UNCHANGED <<role, alive>> /\ fsm_state' # "selected"
      /\ TellsTask \/ TellsModerator \/ TellsNothing
  BY ServerTells, ServerLeaves DEF clients
<1>2. net \in Nets(Client) /\ UNCHANGED forced
  BY DEF Types, MailTypes, ServerStep, RcvReport, RcvDead, RcvAnswer, ModeratorSilent,
     NewModerator, environment
<1>3. UNCHANGED net \/ \E d : net' = BagRemove(net, d)
  BY DEF ServerStep, RcvReport, RcvDead, RcvAnswer, ModeratorSilent, NewModerator
<1>4. BagToSet(net') \subseteq BagToSet(net)
  BY <1>2, <1>3, BagRemoveNet
<1>5. expected' = expected \/ (fsm_state = "selected" /\ expected' <= Size)
  <2>1. CASE RcvReport /\ fsm_state = "selected"
    <3>1. PICK s \in Seq(Client) :
            /\ expected' = Len(s)
            /\ \E d \in BagToSet(net) : d.type = "report" /\ d.data = s
      BY <2>1, ReportTypes
    <3> QED
      BY <2>1, <3>1 DEF Expectations, Delivered
  <2>2. CASE ~(RcvReport /\ fsm_state = "selected")
    BY <2>2 DEF ServerStep, RcvReport, RcvDead, RcvAnswer, ModeratorSilent, NewModerator,
       ServerEnds, server
  <2> QED
    BY <2>1, <2>2
<1>6. expected' <= Size
  BY <1>5 DEF Expectations
<1>7. ASSUME NEW c \in Client, IsModerator(c)'
      PROVE  Wanted(role[c])'
  <2>1. IsModerator(c) /\ Wanted(role[c])
    BY <1>1, <1>7 DEF Expectations, IsModerator
  <2> QED
    BY <1>1, <1>5, <2>1 DEF Wanted
<1>8. ASSUME NEW d \in BagToSet(net')
      PROVE  Delivered(d)'
  <2>1. d \in BagToSet(net) /\ Delivered(d)
    BY <1>4, <1>8 DEF Expectations
  <2>2. CASE expected' = expected
    BY <1>2, <2>1, <2>2 DEF Delivered
  <2>3. CASE fsm_state = "selected"
    <3>1. d.type # "answer"
      BY <2>1, <2>3 DEF Before
    <3> QED
      BY <2>1, <3>1 DEF Delivered
  <2> QED
    BY <1>5, <2>2, <2>3
<1>9. ASSUME NEW c \in Client, NEW i \in DOMAIN inbox[c]
      PROVE  AskedFor(expected', inbox[c][i])
  <2>1. CASE expected' = expected
    BY <1>9, <2>1 DEF Expectations, Asked, AskedFor
  <2>2. CASE fsm_state = "selected"
    BY <1>9, <2>2 DEF Before, AskedFor
  <2> QED
    BY <1>5, <2>1, <2>2
<1>10. ASSUME NEW ms \in Seq(Mail(Client)), Multicast(ms),
              \A j \in 1 .. Len(ms) : AskedFor(expected', ms[j]), NEW c \in Client,
              NEW i \in DOMAIN inbox'[c]
       PROVE  AskedFor(expected', inbox'[c][i])
  <2>1. \/ i \in DOMAIN inbox[c] /\ inbox'[c][i] = inbox[c][i]
        \/ \E j \in 1 .. Len(ms) : i = Len(inbox[c]) + j /\ inbox'[c][i] = ms[j]
    BY <1>10, MulticastFrom
  <2> QED
    BY <1>9, <1>10, <2>1
<1>11. ASSUME NEW c \in Client, NEW i \in DOMAIN inbox'[c]
       PROVE  AskedFor(expected', inbox'[c][i])
  <2>1. CASE TellsTask
    <3>1. PICK t \in Mail(Client) : /\ t.type = "task" /\ (t.again \/ Len(t.ids) = expected')
                                    /\ Multicast(<<t>>)
      BY <2>1 DEF TellsTask
    <3>2. <<t>> \in Seq(Mail(Client)) /\ \A j \in 1 .. Len(<<t>>) : <<t>>[j] = t
      BY Single
    <3>3. AskedFor(expected', t)
      BY <3>1 DEF AskedFor
    <3>4. \A j \in 1 .. Len(<<t>>) : AskedFor(expected', <<t>>[j])
      BY <3>2, <3>3
    <3> QED
      BY <1>10, <1>11, <3>1, <3>2, <3>4
  <2>2. CASE TellsModerator
    <3>1. PICK e \in Client :
            /\ Takeover(e) \in Seq(Mail(Client)) /\ Len(Takeover(e)) = 2
            /\ Takeover(e)[1].type = "update" /\ Takeover(e)[1].expected = expected
            /\ Takeover(e)[2].type = "task" /\ Takeover(e)[2].again = TRUE
            /\ Multicast(Takeover(e)) /\ UNCHANGED expected
      BY <2>2 DEF TellsModerator
    <3>2. AskedFor(expected', Takeover(e)[1]) /\ AskedFor(expected', Takeover(e)[2])
      BY <3>1 DEF AskedFor
    <3>3. \A j \in 1 .. Len(Takeover(e)) : j = 1 \/ j = 2
      BY <3>1
    <3>4. \A j \in 1 .. Len(Takeover(e)) : AskedFor(expected', Takeover(e)[j])
      BY <3>2, <3>3
    <3> QED
      BY <1>10, <1>11, <3>1, <3>4
  <2>3. CASE TellsNothing
    BY <1>9, <1>11, <2>3 DEF TellsNothing
  <2> QED
    BY <1>1, <2>1, <2>2, <2>3
<1>12. ASSUME NEW c \in Client, NEW i \in DOMAIN inbox'[c]
       PROVE  Asked(inbox[c][i])'
  <2>1. AskedFor(expected', inbox'[c][i])
    BY <1>11
  <2> QED
    BY <2>1 DEF Asked, AskedFor
<1> QED
  BY <1>6, <1>7, <1>8, <1>12 DEF Expectations

(* Every step keeps what is wanted.                                        *)
LEMMA ExpectationsStep ==
  ASSUME TypeFile, Types(Client), Before, Known, Expectations, [Next]_vars
  PROVE  Expectations'
<1>1. CASE UNCHANGED vars
  <2>1. UNCHANGED <<server, role, inbox, net, forced>>
    BY <1>1 DEF vars, clients, environment
  <2> QED
    BY <2>1, ExpectationsKept
<1>2. CASE ServerStep
  BY <1>2, ServerExpected
<1>3. ASSUME NEW c \in Client,
             \/ RcvNotify(c) \/ RcvHello(c) \/ RcvTask(c) \/ RcvUpdate(c)
             \/ RcvResult(c) \/ NotifyTimeout(c) \/ NotifyTimeoutIgnored(c)
             \/ Monitor(c) \/ ForceCleanup(c) \/ \E e \in Client : Heartbeat(e, c)
      PROVE  Expectations'
  BY <1>3, NotifyExpected, HelloExpected, TaskExpected, MonitorExpected, ResultExpected
<1>4. ASSUME NEW c \in Client, Ended(c)
      PROVE  Expectations'
  BY <1>4, EndedExpected
<1>5. ASSUME NEW w \in workers,
             \/ WorkerCounts(w) \/ WorkerChecks(w) \/ WorkerStopsTimer(w)
             \/ WorkerReports(w) \/ WorkerCaches(w) \/ FetchFails(w)
      PROVE  Expectations'
  BY <1>5, WorkerExpected
<1>6. ASSUME NEW c \in Client, LoseMulticast(c)
      PROVE  Expectations'
  <2>1. /\ HasMail(c) /\ inbox' = Took(c) /\ UNCHANGED server
        /\ UNCHANGED <<role, net, forced>>
    BY <1>6 DEF LoseMulticast, clients
  <2>2. \A e \in Client :
          inbox'[e] = inbox[e] \/ \A i \in DOMAIN inbox'[e] : Asked(inbox'[e][i])
    BY <2>1, TookAsked
  <2> QED
    BY <2>1, <2>2, ExpectationsKept
<1>7. ASSUME NEW d \in BagToSet(net), LoseDatagram(d)
      PROVE  Expectations'
  <2>1. UNCHANGED server /\ UNCHANGED <<role, inbox, forced>> /\ net' = BagRemove(net, d)
    BY <1>7 DEF LoseDatagram, clients
  <2>2. BagToSet(net') \subseteq BagToSet(net)
    BY <2>1, BagRemoveNet DEF Types, MailTypes
  <2> QED
    BY <2>1, <2>2, ExpectationsKept
<1> QED
  BY <1>1, <1>2, <1>3, <1>4, <1>5, <1>6, <1>7, Endings DEF Next, ServerStep

(* The server is done with the answer that it takes.                       *)
LEMMA ResultStep ==
  ASSUME Types(Client), Expectations, ResultComplete, [Next]_vars
  PROVE  ResultComplete'
<1> SUFFICES ASSUME fsm_state' = "done", forced' = "no"
             PROVE  Len(result') = expected' /\ IsInjective(result')
  BY DEF ResultComplete
<1>1. CASE UNCHANGED vars
  BY <1>1 DEF ResultComplete, vars, server, environment
<1>2. CASE Next /\ RcvAnswer
  <2>1. fsm_state # "done" /\ forced' = forced /\ expected' = expected
    BY <1>2 DEF Next, RcvAnswer, environment
  <2>2. PICK d \in BagToSet(net) : d.type = "answer" /\ result' = d.data
    BY <1>2, <2>1 DEF RcvAnswer, ToServer
  <2> QED
    BY <2>1, <2>2 DEF Expectations, Delivered
<1>3. CASE Next /\ ~RcvAnswer
  <2>1. fsm_state' # "done"
    BY <1>3, ServerCounts
  <2> QED
    BY <2>1
<1> QED
  BY <1>1, <1>2, <1>3

(* The result of a task whose results are files has every part once when   *)
(* the server takes it (mcast_handle_task_response), whoever died, was     *)
(* given up or was replaced on the way, unless an operator has forced the  *)
(* moderator to answer early.  Of sums it is not true:                     *)
(* update_moderator_info_with_task_response adds a sum that it is sent     *)
(* twice.                                                                  *)
THEOREM ResultsComplete ==
  ASSUME TypeFile
  PROVE  Spec => []ResultComplete
<1> DEFINE Inv == /\ Types(Client) /\ Before /\ Known /\ Expectations
                  /\ ResultComplete
<1>1. Init => Inv
  BY InitTypes, MoreParts, InitBefore, InitExpectations DEF Init, ResultComplete
<1>2. Inv /\ [Next]_vars => Inv'
  BY TypesStep, BeforeStep, KnownStep, ExpectationsStep, ResultStep
<1>3. Inv => ResultComplete
  OBVIOUS
<1> QED
  BY <1>1, <1>2, <1>3, PTL DEF Spec
=============================================================================
