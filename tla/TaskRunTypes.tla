----------------------------- MODULE TaskRunTypes -----------------------------
(***************************************************************************)
(* The types of TaskRun, for any number of clients, whatever the faults    *)
(* and however many of them.  The types depend on the parts of the task    *)
(* that are known: the proof that they are kept serves for all parts, and  *)
(* for those the report of the group has named.                            *)
(***************************************************************************)
EXTENDS TaskRun, FoldLemmas

Ids == Client \cup {NULL}

(* A client stays in the pending list while something of it is awaited.    *)
Nodes == [id : Ids, beats : 0 .. MaxBeats, refs : Nat \ {0}]

Roles(K) ==
         [fsm : {"notify", "notified", "task"},
          timer : {"none", "oneshot", "expired", "monitor", "single"},
          active : Nat, expected : Nat, heard : Seq(Client),
          pending : Seq(Nodes), resp : Seq(K)]

Entries(K) == [who : Ids, files : Seq(K)]

(* Datagrams to the group and between two processes.                       *)
Tasks(K) == [type : {"task"}, ids : Seq(Ids), parts : Seq(K), again : BOOLEAN]
Mail(K) == [type : {"notify"}, mod : Client]
          \cup {d \in Tasks(K) : Len(d.ids) = Len(d.parts)}
          \cup [type : {"update"}, mod : Client, ids : Seq(Ids), expected : Nat]
Msg(K) == [type : {"hello"}, from : Client, to : Client, data : {<<>>}]
         \cup [type : {"report"}, from : Client, to : {NULL}, data : Seq(Client)]
         \cup [type : {"answer"}, from : Client, to : {NULL}, data : Seq(K)]
         \cup [type : {"dead"}, from : Client, to : {NULL}, data : Ids]
         \cup [type : {"result"}, from : Client, to : Ids, data : K]
Nets(K) == UNION {[S -> Nat \ {0}] : S \in SUBSET Msg(K)}

ServerTypes(K) ==
  /\ fsm_state \in {"selected", "running", "searching", "done", "ended"}
  /\ moderator_client \in Ids /\ clbusy \subseteq Client
  /\ map \in Seq(Entries(K))
  /\ working \in Int /\ working <= Len(map) /\ expected \in Nat
  /\ dead_files \in Seq(K) /\ result \in Seq(K)
RoleTypes(K) == role \in [Client -> Roles(K) \cup {NULL}]
BeatTypes ==
  /\ pending_task_count \in [Client -> Nat]
  /\ timer_id \in [Client -> {"none", "armed", "deleted"}]
  /\ stray \subseteq Client /\ executing \subseteq Client
  /\ disturbed \subseteq Client
ClientTypes(K) ==
  /\ alive \subseteq Client /\ BeatTypes
  /\ moderator \in [Client -> Ids] /\ cached \in [Client -> Seq(K)]
WorkerTypes(K) == IsFiniteSet(workers) /\ \A w \in workers : w \in Worker /\ w.part \in K
MailTypes(K) == inbox \in [Client -> Seq(Mail(K))] /\ net \in Nets(K)
FaultTypes ==
  faults \in 0 .. MaxFaults /\ forced \in {"no", "yes"} /\ missed \subseteq Client

Types(K) == /\ ServerTypes(K) /\ RoleTypes(K) /\ ClientTypes(K) /\ WorkerTypes(K)
         /\ MailTypes(K) /\ FaultTypes

(* How many clients the group has.                                         *)
Size == Cardinality(Client)

----------------------------------------------------------------------------
(* The bounds are numbers; cited instead of the assumption about all of    *)
(* them.                                                                   *)
LEMMA Bounds == MaxBeats \in Nat /\ MaxFaults \in Nat
  BY BoundsAssumption

(* A group has clients, and finitely many.                                 *)
LEMMA SizeIsNat == Size \in Nat /\ Size # 0
<1>1. IsFiniteSet(Client) /\ Client # {}
  BY ClientAssumption
<1>2. Cardinality(Client) \in Nat /\ Cardinality(Client) # 0
  BY <1>1, FS_CardinalityType, FS_EmptySet
<1> QED
  BY <1>2 DEF Size

(* get_client_from_moderator_pending_list finds an index of the list, and  *)
(* there the client, or nothing.                                           *)
LEMMA FoundRange ==
  ASSUME NEW pending \in Seq(Nodes), NEW c
  PROVE  /\ Found(pending, c) \in 0 .. Len(pending)
         /\ Found(pending, c) # 0 => pending[Found(pending, c)].id = c
<1> DEFINE I == {i \in 1 .. Len(pending) : pending[i].id = c}
<1>1. Found(pending, c) = IF I # {} THEN Min(I) ELSE 0
  BY DEF Found, SelectInSeq
<1>2. I # {} => Min(I) \in I
  <2>1. I \subseteq Nat
    OBVIOUS
  <2> HIDE DEF I
  <2> QED
    BY <2>1, MinIn
<1> QED
  BY <1>1, <1>2

(* One more task of a client in the pending list to wait for.              *)
LEMMA RefsType ==
  ASSUME NEW n \in Nodes
  PROVE  [n EXCEPT !.refs = n.refs + 1] \in Nodes
  BY DEF Nodes

(* One more client in the pending list, or one more task of it.            *)
LEMMA AwaitingType ==
  ASSUME NEW pending \in Seq(Nodes), NEW c \in Ids
  PROVE  Awaiting(pending, c) \in Seq(Nodes)
<1>1. CASE Found(pending, c) = 0
  <2>1. NewNode(c) \in Nodes
    BY Bounds DEF Nodes, NewNode
  <2> QED
    BY <1>1, <2>1 DEF Awaiting
<1>2. CASE Found(pending, c) # 0
  <2>1. PICK i \in 1 .. Len(pending) : i = Found(pending, c)
    BY <1>2, FoundRange
  <2>2. [pending[i] EXCEPT !.refs = pending[i].refs + 1] \in Nodes
    <3>1. pending[i] \in Nodes
      BY <2>1
    <3> QED
      BY <3>1, RefsType
  <2>3. Awaiting(pending, c) = [pending EXCEPT ![i].refs = @ + 1]
    BY <1>2, <2>1 DEF Awaiting
  <2>4. [pending EXCEPT ![i].refs = @ + 1]
          = [pending EXCEPT ![i] = [pending[i] EXCEPT !.refs = pending[i].refs + 1]]
    BY Zenon
  <2> QED
    BY <2>1, <2>2, <2>3, <2>4
<1> QED
  BY <1>1, <1>2

(* All the clients of a task request enter the pending list: by induction  *)
(* on how many of them have.                                               *)
LEMMA AwaitingFold ==
  ASSUME NEW pending \in Seq(Nodes), NEW ids \in Seq(Ids)
  PROVE  FoldLeft(Awaiting, pending, ids) \in Seq(Nodes)
<1> DEFINE n == Len(ids)
           step == [x \in (1 .. n) \X Seq(Nodes) |-> Awaiting(x[2], ids[x[1]])]
           it == CHOOSE f : f = [s \in SUBSET (1 .. n) |->
                   IF s = {} THEN pending
                   ELSE Awaiting(f[s \ {Max(s)}], ids[Max(s)])]
<1>1. n \in Nat /\ DOMAIN ids = 1 .. n
  OBVIOUS
<1>2. step \in [(1 .. n) \X Seq(Nodes) -> Seq(Nodes)]
  <2>1. \A k \in 1 .. n, v \in Seq(Nodes) : Awaiting(v, ids[k]) \in Seq(Nodes)
    BY <1>1, AwaitingType
  <2> QED
    BY <2>1
<1>3. PICK f : IsFold(f, n, Seq(Nodes), pending, step)
  <2> HIDE DEF step, n
  <2> QED
    BY <1>1, <1>2, FoldExists
<1>4. \A s \in SUBSET (1 .. n) : s # {} =>
        Max(s) \in 1 .. n /\ s \ {Max(s)} \in SUBSET (1 .. n)
  <2>1. \A s \in SUBSET (1 .. n) : s \subseteq 0 .. n
    OBVIOUS
  <2> QED
    BY <1>1, <2>1, MaxIn
<1>5. f = [s \in SUBSET (1 .. n) |->
             IF s = {} THEN pending
             ELSE Awaiting(f[s \ {Max(s)}], ids[Max(s)])]
  BY <1>3, <1>4 DEF IsFold
<1>6. it = [s \in SUBSET (1 .. n) |->
              IF s = {} THEN pending
              ELSE Awaiting(it[s \ {Max(s)}], ids[Max(s)])]
  <2> HIDE DEF n
  <2> QED
    BY <1>5
<1>7. FoldLeft(Awaiting, pending, ids) = it[1 .. n]
  BY <1>1 DEF FoldLeft, MapThenFoldSet
<1> DEFINE T == {k \in 0 .. n : it[1 .. k] \in Seq(Nodes)}
<1>8. 0 \in T
  <2>1. 1 .. 0 = {} /\ {} \in SUBSET (1 .. n) /\ 0 \in 0 .. n
    OBVIOUS
  <2> HIDE DEF it, n
  <2> QED
    BY <1>6, <2>1
<1>9. ASSUME NEW k \in 0 .. n - 1, k \in T
      PROVE  k + 1 \in T
  <2>1. /\ Max(1 .. k + 1) = k + 1 /\ (1 .. k + 1) \ {k + 1} = 1 .. k
        /\ 1 .. k + 1 # {} /\ 1 .. k + 1 \in SUBSET (1 .. n) /\ k + 1 \in 1 .. n
    BY MaxOfInterval
  <2>2. ids[k + 1] \in Ids /\ it[1 .. k] \in Seq(Nodes)
    BY <1>9, <2>1
  <2> HIDE DEF it, n
  <2>3. it[1 .. k + 1] = Awaiting(it[1 .. k], ids[k + 1])
    BY <1>6, <2>1
  <2>4. it[1 .. k + 1] \in Seq(Nodes)
    BY <2>2, <2>3, AwaitingType
  <2>5. k + 1 \in 0 .. n
    BY <1>1
  <2> QED
    BY <2>4, <2>5
<1>10. n \in T
  <2>1. n \in Nat /\ n \in 0 .. n
    BY <1>1
  <2> HIDE DEF T, n
  <2>2. \A k \in 0 .. n : k \in T
    BY <2>1, <1>8, <1>9, Induction
  <2> QED
    BY <2>1, <2>2
<1> QED
  BY <1>1, <1>7, <1>10

----------------------------------------------------------------------------
(* Bags of datagrams: adding and removing one, and what is posted or stays *)
(* on its way.                                                             *)
LEMMA NetIsBag ==
  ASSUME NEW K, NEW B \in Nets(K)
  PROVE  /\ BagToSet(B) = DOMAIN B /\ DOMAIN B \subseteq Msg(K)
         /\ B \in [DOMAIN B -> Nat \ {0}]
<1>1. PICK S \in SUBSET Msg(K) : B \in [S -> Nat \ {0}]
  BY DEF Nets
<1>2. DOMAIN B = S
  BY <1>1
<1> QED
  BY <1>1, <1>2 DEF BagToSet

(* Whatever counts some datagrams is a bag of them.                        *)
LEMMA IsNet ==
  ASSUME NEW K, NEW S \in SUBSET Msg(K), NEW B \in [S -> Nat \ {0}]
  PROVE  B \in Nets(K) /\ BagToSet(B) = S
  BY DEF Nets, BagToSet

(* A datagram is sent.                                                     *)
LEMMA BagAddNet ==
  ASSUME NEW K, NEW B \in Nets(K), NEW d \in Msg(K)
  PROVE  BagAdd(B, d) \in Nets(K) /\ BagToSet(BagAdd(B, d)) = BagToSet(B) \cup {d}
<1>1. DOMAIN B \in SUBSET Msg(K) /\ B \in [DOMAIN B -> Nat \ {0}] /\ BagToSet(B) = DOMAIN B
  BY NetIsBag
<1>2. CASE d \in DOMAIN B
  <2>1. BagAdd(B, d) \in [DOMAIN B -> Nat \ {0}]
    BY <1>1, <1>2 DEF BagAdd
  <2>2. DOMAIN B = DOMAIN B \cup {d}
    BY <1>2
  <2> QED
    BY <1>1, <2>1, <2>2, IsNet
<1>3. CASE d \notin DOMAIN B
  <2>1. BagAdd(B, d) \in [DOMAIN B \cup {d} -> Nat \ {0}]
    BY <1>1, <1>3 DEF BagAdd
  <2>2. DOMAIN B \cup {d} \in SUBSET Msg(K)
    BY <1>1
  <2> QED
    BY <1>1, <2>1, <2>2, IsNet
<1> QED
  BY <1>2, <1>3

(* A datagram is taken.                                                    *)
LEMMA BagRemoveNet ==
  ASSUME NEW K, NEW B \in Nets(K), NEW d
  PROVE  BagRemove(B, d) \in Nets(K) /\ BagToSet(BagRemove(B, d)) \subseteq BagToSet(B)
<1>1. DOMAIN B \in SUBSET Msg(K) /\ B \in [DOMAIN B -> Nat \ {0}] /\ BagToSet(B) = DOMAIN B
  BY NetIsBag
<1>2. CASE d \notin DOMAIN B
  BY <1>2 DEF BagRemove
<1>3. CASE d \in DOMAIN B /\ B[d] = 1
  <2>1. BagRemove(B, d) \in [DOMAIN B \ {d} -> Nat \ {0}]
    BY <1>1, <1>3 DEF BagRemove
  <2>2. DOMAIN B \ {d} \in SUBSET Msg(K)
    BY <1>1
  <2> QED
    BY <1>1, <2>1, <2>2, IsNet
<1>4. CASE d \in DOMAIN B /\ B[d] # 1
  <2>1. BagRemove(B, d) \in [DOMAIN B -> Nat \ {0}]
    BY <1>1, <1>4 DEF BagRemove
  <2> QED
    BY <1>1, <2>1, IsNet
<1> QED
  BY <1>2, <1>3, <1>4

(* A datagram is sent to a process that may have ended.                    *)
LEMMA PostedNet ==
  ASSUME NEW K, NEW B \in Nets(K), NEW d \in Msg(K)
  PROVE  Posted(B, d) \in Nets(K) /\ BagToSet(Posted(B, d)) \subseteq BagToSet(B) \cup {d}
  BY BagAddNet DEF Posted

(* What still reaches a process when one has ended.                        *)
LEMMA ReachingNet ==
  ASSUME NEW K, NEW B \in Nets(K), NEW S
  PROVE  Reaching(B, S) \in Nets(K) /\ BagToSet(Reaching(B, S)) \subseteq BagToSet(B)
<1> DEFINE D == {d \in BagToSet(B) : d.to \in S \cup {NULL}}
<1>1. DOMAIN B \in SUBSET Msg(K) /\ B \in [DOMAIN B -> Nat \ {0}] /\ BagToSet(B) = DOMAIN B
  BY NetIsBag
<1>2. D \in SUBSET Msg(K) /\ D \subseteq DOMAIN B
  BY <1>1
<1>3. Reaching(B, S) \in [D -> Nat \ {0}]
  BY <1>1 DEF Reaching
<1> HIDE DEF D
<1>4. Reaching(B, S) \in Nets(K) /\ BagToSet(Reaching(B, S)) = D
  BY <1>2, <1>3, IsNet
<1> QED
  BY <1>1, <1>2, <1>4

(* As many of a datagram are in one bag as in another.                     *)
Alike(B, C, d) ==
  /\ d \in BagToSet(B) <=> d \in BagToSet(C)
  /\ d \in BagToSet(B) => B[d] = C[d]

(* A datagram that is sent, taken, posted or lost with its receiver says   *)
(* nothing of the others.                                                  *)
LEMMA OthersAlike ==
  ASSUME NEW K, NEW B \in Nets(K), NEW d, NEW e, d # e
  PROVE  /\ Alike(B, BagAdd(B, e), d) /\ Alike(B, BagRemove(B, e), d)
         /\ Alike(B, Posted(B, e), d)
<1>1. B \in [DOMAIN B -> Nat \ {0}]
  BY NetIsBag
<1>2. Alike(B, BagAdd(B, e), d)
  BY <1>1 DEF Alike, BagAdd, BagToSet
<1>3. Alike(B, BagRemove(B, e), d)
  <2>1. CASE e \in DOMAIN B /\ B[e] = 1
    BY <1>1, <2>1 DEF Alike, BagRemove, BagToSet
  <2>2. CASE e \in DOMAIN B /\ B[e] # 1
    BY <1>1, <2>2 DEF Alike, BagRemove, BagToSet
  <2>3. CASE e \notin DOMAIN B
    BY <1>1, <2>3 DEF Alike, BagRemove, BagToSet
  <2> QED
    BY <2>1, <2>2, <2>3
<1>4. Alike(B, B, d)
  BY DEF Alike
<1> QED
  BY <1>2, <1>3, <1>4 DEF Posted

(* The end of a process says nothing of what others are to take.            *)
LEMMA ReachingAlike ==
  ASSUME NEW K, NEW B \in Nets(K), NEW S, NEW d, d.to \in S \cup {NULL}
  PROVE  Alike(B, Reaching(B, S), d)
<1>1. B \in [DOMAIN B -> Nat \ {0}]
  BY NetIsBag
<1> QED
  BY <1>1 DEF Alike, Reaching, BagToSet

(* The first of its kind that is sent is the only one, and when the only   *)
(* one is taken there is none.                                             *)
LEMMA OneOfAKind ==
  ASSUME NEW K, NEW B \in Nets(K), NEW d
  PROVE  /\ d \notin BagToSet(B) => BagAdd(B, d)[d] = 1
         /\ B[d] = 1 => d \notin BagToSet(BagRemove(B, d))
  BY NetIsBag DEF BagAdd, BagRemove, BagToSet

(* The datagrams themselves.                                               *)
LEMMA SentType ==
  ASSUME NEW K
  PROVE
  /\ \A c, m \in Client : Sent("hello", c, m, <<>>) \in Msg(K)
  /\ \A m \in Client, s \in Seq(Client) : Sent("report", m, NULL, s) \in Msg(K)
  /\ \A m \in Client, s \in Seq(K) : Sent("answer", m, NULL, s) \in Msg(K)
  /\ \A m \in Client, c \in Ids : Sent("dead", m, NULL, c) \in Msg(K)
  /\ \A c \in Client, m \in Ids, p \in K : Sent("result", c, m, p) \in Msg(K)
  BY DEF Sent, Msg

(* What the datagrams between two processes carry.                         *)
LEMMA MsgFacts ==
  ASSUME NEW K, NEW d \in Msg(K)
  PROVE  /\ d.from \in Client
         /\ d.type = "report" => d.data \in Seq(Client)
         /\ d.type = "answer" => d.data \in Seq(K)
         /\ d.type = "dead" => d.data \in Ids
         /\ d.type = "result" => d.data \in K
  BY DEF Msg

(* What the datagrams to the group carry.                                  *)
LEMMA MailFacts ==
  ASSUME NEW K, NEW d \in Mail(K)
  PROVE  /\ d.type \in {"notify", "task", "update"}
         /\ d.type = "notify" => d.mod \in Client
         /\ d.type = "task" => /\ d.ids \in Seq(Ids) /\ d.parts \in Seq(K)
                               /\ Len(d.ids) = Len(d.parts) /\ d.again \in BOOLEAN
         /\ d.type = "update" => /\ d.mod \in Client /\ d.ids \in Seq(Ids)
                                 /\ d.expected \in Nat
  BY DEF Mail, Tasks

----------------------------------------------------------------------------
(* What becomes of the role of a moderator.                                *)
LEMMA CollectedType ==
  ASSUME NEW K, NEW r \in Roles(K), NEW c, NEW p \in K, Found(r.pending, c) # 0
  PROVE  /\ Collected(r, c, p) \in Roles(K)
         /\ Collected(r, c, p).resp
              = IF TypeFile /\ Contains(r.resp, p) THEN r.resp ELSE Append(r.resp, p)
         /\ Collected(r, c, p).expected = r.expected
         /\ Collected(r, c, p).active = r.active
         /\ Collected(r, c, p).fsm = r.fsm /\ Collected(r, c, p).timer = r.timer
         /\ Collected(r, c, p).heard = r.heard
<1> DEFINE resp == IF TypeFile /\ Contains(r.resp, p) THEN r.resp ELSE Append(r.resp, p)
<1>0. r.pending \in Seq(Nodes) /\ r.resp \in Seq(K)
  BY DEF Roles
<1>1. PICK i \in 1 .. Len(r.pending) : i = Found(r.pending, c)
  BY <1>0, FoundRange
<1>2. PICK n \in Nodes : n = r.pending[i]
  BY <1>0, <1>1
<1>3. n.refs \in Nat \ {0}
  BY DEF Nodes
<1> DEFINE left == n.refs - 1
           pending == IF left = 0 THEN RemoveAt(r.pending, i)
                      ELSE [r.pending EXCEPT ![i].refs = left]
<1>4. pending \in Seq(Nodes)
  <2>1. CASE left = 0
    BY <1>0, <1>1, <2>1, RemoveAtType
  <2>2. CASE left # 0
    <3>1. left \in Nat \ {0}
      BY <1>3, <2>2
    <3>2. [n EXCEPT !.refs = left] \in Nodes
      <4> HIDE DEF left
      <4> QED
        BY <3>1 DEF Nodes
    <3> HIDE DEF left
    <3>3. [r.pending EXCEPT ![i].refs = left]
            = [r.pending EXCEPT ![i] = [r.pending[i] EXCEPT !.refs = left]]
      BY Zenon
    <3>4. [r.pending EXCEPT ![i] = [r.pending[i] EXCEPT !.refs = left]] \in Seq(Nodes)
      BY <1>0, <1>1, <1>2, <3>2
    <3> QED
      BY <2>2, <3>3, <3>4
  <2> QED
    BY <2>1, <2>2
<1>5. resp \in Seq(K)
  BY <1>0
<1>6. Collected(r, c, p) = [r EXCEPT !.pending = pending, !.resp = resp]
  BY <1>1, <1>2 DEF Collected
<1> HIDE DEF pending, resp
<1>7. [r EXCEPT !.pending = pending, !.resp = resp] \in Roles(K)
  BY <1>4, <1>5 DEF Roles
<1>8. /\ [r EXCEPT !.pending = pending, !.resp = resp].resp = resp
      /\ [r EXCEPT !.pending = pending, !.resp = resp].expected = r.expected
      /\ [r EXCEPT !.pending = pending, !.resp = resp].active = r.active
      /\ [r EXCEPT !.pending = pending, !.resp = resp].fsm = r.fsm
      /\ [r EXCEPT !.pending = pending, !.resp = resp].timer = r.timer
      /\ [r EXCEPT !.pending = pending, !.resp = resp].heard = r.heard
  BY DEF Roles
<1> QED
  BY <1>6, <1>7, <1>8 DEF resp

(* A heartbeat changes nothing but the pending list of a moderator.        *)
LEMMA HeardType ==
  ASSUME NEW K, NEW r \in Roles(K), NEW c
  PROVE  /\ Heard(r, c) \in Roles(K) /\ Heard(r, c).resp = r.resp
         /\ Heard(r, c).expected = r.expected /\ Heard(r, c).active = r.active
         /\ Heard(r, c).fsm = r.fsm /\ Heard(r, c).heard = r.heard
         /\ Heard(r, c).timer = r.timer
<1>0. r.pending \in Seq(Nodes)
  BY DEF Roles
<1>1. CASE Found(r.pending, c) = 0
  BY <1>1 DEF Heard
<1>2. CASE Found(r.pending, c) # 0
  <2>1. PICK i \in 1 .. Len(r.pending) : i = Found(r.pending, c)
    BY <1>0, <1>2, FoundRange
  <2>2. PICK n \in Nodes : n = r.pending[i]
    BY <1>0, <2>1
  <2>3. [n EXCEPT !.beats = MaxBeats] \in Nodes
    BY Bounds DEF Nodes
  <2> DEFINE pending == [r.pending EXCEPT ![i] = [r.pending[i] EXCEPT !.beats = MaxBeats]]
  <2>4. pending \in Seq(Nodes)
    BY <1>0, <2>1, <2>2, <2>3
  <2>5. Heard(r, c) = [r EXCEPT !.pending = pending]
    <3>1. Heard(r, c) = [r EXCEPT !.pending[i].beats = MaxBeats]
      BY <1>2, <2>1 DEF Heard
    <3>2. [r EXCEPT !.pending[i].beats = MaxBeats] = [r EXCEPT !.pending = pending]
      BY Zenon
    <3> QED
      BY <3>1, <3>2
  <2> HIDE DEF pending
  <2>6. [r EXCEPT !.pending = pending] \in Roles(K)
    BY <2>4 DEF Roles
  <2>7. /\ [r EXCEPT !.pending = pending].resp = r.resp
        /\ [r EXCEPT !.pending = pending].expected = r.expected
        /\ [r EXCEPT !.pending = pending].active = r.active
        /\ [r EXCEPT !.pending = pending].fsm = r.fsm
        /\ [r EXCEPT !.pending = pending].heard = r.heard
        /\ [r EXCEPT !.pending = pending].timer = r.timer
    BY DEF Roles
  <2> QED
    BY <2>5, <2>6, <2>7
<1> QED
  BY <1>1, <1>2

(* A task request leaves the response of a moderator alone.                *)
LEMMA TrackingType ==
  ASSUME NEW K, NEW r \in Roles(K), NEW d \in Mail(K), d.type = "task", NEW included \in BOOLEAN
  PROVE  /\ Tracking(r, d, included) \in Roles(K)
         /\ Tracking(r, d, included).resp = r.resp
         /\ Tracking(r, d, included).heard = r.heard
         /\ Tracking(r, d, included).expected = IF d.again THEN r.expected ELSE Len(d.ids)
         /\ Tracking(r, d, included).fsm = "task"
         /\ IF r.timer = "none" THEN Tracking(r, d, included).timer \in {"monitor", "single"}
            ELSE Tracking(r, d, included).timer = r.timer
<1> DEFINE count == IF d.again THEN r.active ELSE Len(d.ids)
           wanted == IF d.again THEN r.expected ELSE count
           pending == FoldLeft(Awaiting, r.pending, d.ids)
           t == IF r.timer # "none" THEN r.timer
                ELSE IF count = 1 /\ included THEN "single" ELSE "monitor"
           q == [r EXCEPT !.fsm = "task", !.active = count, !.expected = wanted,
                          !.pending = pending, !.timer = t]
<1>0. /\ r.pending \in Seq(Nodes) /\ r.active \in Nat /\ r.expected \in Nat
      /\ r.timer \in {"none", "oneshot", "expired", "monitor", "single"}
  BY DEF Roles
<1>1. d.ids \in Seq(Ids) /\ d.again \in BOOLEAN
  BY MailFacts
<1>2. count \in Nat /\ wanted \in Nat
  BY <1>0, <1>1
<1>3. pending \in Seq(Nodes)
  BY <1>0, <1>1, AwaitingFold
<1>4. /\ t \in {"none", "oneshot", "expired", "monitor", "single"}
      /\ IF r.timer = "none" THEN t \in {"monitor", "single"} ELSE t = r.timer
  BY <1>0
<1>5. Tracking(r, d, included) = q
  BY DEF Tracking
<1> HIDE DEF count, pending, t
<1>6. q \in Roles(K)
  BY <1>2, <1>3, <1>4 DEF Roles
<1>7. /\ q.resp = r.resp /\ q.heard = r.heard /\ q.expected = wanted /\ q.fsm = "task"
      /\ q.timer = t
  BY DEF Roles
<1> QED
  BY <1>1, <1>4, <1>5, <1>6, <1>7 DEF count

----------------------------------------------------------------------------
(* What a step leaves alone keeps its type.                                *)
LEMMA Untouched ==
  ASSUME NEW K, Types(K)
  PROVE  /\ UNCHANGED server => ServerTypes(K)'
         /\ UNCHANGED role => RoleTypes(K)'
         /\ UNCHANGED <<alive, heartbeats, moderator, cached>> => ClientTypes(K)'
         /\ UNCHANGED heartbeats => BeatTypes'
         /\ UNCHANGED workers => WorkerTypes(K)'
         /\ UNCHANGED <<inbox, net>> => MailTypes(K)'
         /\ UNCHANGED <<faults, forced, missed>> => FaultTypes'
<1>1. UNCHANGED server => ServerTypes(K)'
  BY DEF Types, ServerTypes, server
<1>2. UNCHANGED role => RoleTypes(K)'
  BY DEF Types, RoleTypes
<1>0. UNCHANGED heartbeats => BeatTypes'
  BY DEF Types, ClientTypes, BeatTypes, heartbeats
<1>3. UNCHANGED <<alive, heartbeats, moderator, cached>> => ClientTypes(K)'
  BY <1>0 DEF Types, ClientTypes
<1>4. UNCHANGED workers => WorkerTypes(K)'
  BY DEF Types, WorkerTypes
<1>5. UNCHANGED <<inbox, net>> => MailTypes(K)'
  BY DEF Types, MailTypes
<1>6. UNCHANGED <<faults, forced, missed>> => FaultTypes'
  BY DEF Types, FaultTypes
<1> QED
  BY <1>0, <1>1, <1>2, <1>3, <1>4, <1>5, <1>6

(* A fault counts, and only one.                                           *)
LEMMA FaultsType ==
  ASSUME NEW K, Types(K), NEW kind, NEW late,
         Fault(kind) \/ FaultIf(kind, late) \/ UNCHANGED faults,
         forced' \in {"no", "yes"}, missed' \subseteq Client
  PROVE  FaultTypes'
<1>1. faults \in 0 .. MaxFaults
  BY DEF Types, FaultTypes
<1>2. faults' = faults \/ (faults < MaxFaults /\ faults' = faults + 1)
  BY DEF Fault, FaultIf
<1>3. faults' \in 0 .. MaxFaults
  BY <1>1, <1>2, Bounds
<1> QED
  BY <1>3 DEF FaultTypes

(* The datagram that a client takes from those to the group.               *)
LEMMA TookType ==
  ASSUME NEW K, Types(K), NEW c \in Client, HasMail(c)
  PROVE  /\ Took(c) \in [Client -> Seq(Mail(K))]
         /\ Head(inbox[c]) \in Mail(K)
         /\ Took(c)[c] = Tail(inbox[c])
         /\ \A e \in Client \ {c} : Took(c)[e] = inbox[e]
<1>1. inbox \in [Client -> Seq(Mail(K))]
  BY DEF Types, MailTypes
<1>2. inbox[c] \in Seq(Mail(K)) /\ inbox[c] # <<>>
  BY <1>1 DEF HasMail
<1>3. Tail(inbox[c]) \in Seq(Mail(K)) /\ Head(inbox[c]) \in Mail(K)
  BY <1>2
<1> QED
  BY <1>1, <1>3 DEF Took

(* A sequence of one element.                                              *)
LEMMA Single ==
  ASSUME NEW S, NEW x \in S
  PROVE  <<x>> \in Seq(S)
  OBVIOUS

(* What the server sends to the group.                                     *)
LEMMA MulticastType ==
  ASSUME NEW K, Types(K), NEW ms \in Seq(Mail(K)), Multicast(ms)
  PROVE  inbox' \in [Client -> Seq(Mail(K))]
<1>1. \A c \in Client : inbox[c] \in Seq(Mail(K))
  BY DEF Types, MailTypes
<1>2. \A c \in Client : inbox[c] \o ms \in Seq(Mail(K)) /\ <<>> \in Seq(Mail(K))
  BY <1>1
<1>3. inbox' = [c \in Client |-> IF c \in alive THEN inbox[c] \o ms ELSE <<>>]
  BY DEF Multicast
<1>4. \A c \in Client :
        (IF c \in alive THEN inbox[c] \o ms ELSE <<>>) \in Seq(Mail(K))
  BY <1>2
<1> QED
  BY <1>3, <1>4

(* The role of a client is set or ends.                                    *)
LEMMA RoleSet ==
  ASSUME NEW K, Types(K), NEW c \in Client, NEW r,
         role' = [role EXCEPT ![c] = r]
  PROVE  /\ r \in Roles(K) \cup {NULL} => RoleTypes(K)'
         /\ role'[c] = r /\ \A e \in Client \ {c} : role'[e] = role[e]
  BY DEF Types, RoleTypes

(* The role of a client that is moderator.                                 *)
LEMMA RoleOf ==
  ASSUME NEW K, Types(K), NEW c \in Client, IsModerator(c)
  PROVE  role[c] \in Roles(K)
  BY DEF Types, RoleTypes, IsModerator

(* Who has a role is a moderator.                                          *)
LEMMA RolesAreRole == Roles(Client) \subseteq Role /\ NULL \notin Roles(Client)
<1>1. Nodes \subseteq Node
  BY DEF Nodes, Node, Ids
<1>2. Seq(Nodes) \subseteq Seq(Node)
  <2> HIDE DEF Nodes
  <2> QED
    BY <1>1
<1>3. Roles(Client) \subseteq Role
  BY <1>1, <1>2 DEF Roles, Role, Part
<1> QED
  BY <1>3, NullAssumption

(* The pending list of a moderator.                                        *)
LEMMA PendingSet ==
  ASSUME NEW K, Types(K), NEW m \in Client, IsModerator(m),
         NEW pending \in Seq(Nodes),
         role' = [role EXCEPT ![m].pending = pending]
  PROVE  /\ RoleTypes(K)'
         /\ role'[m] = [role[m] EXCEPT !.pending = pending]
         /\ \A e \in Client \ {m} : role'[e] = role[e]
<1>1. PICK r \in Roles(K) : r = role[m]
  BY RoleOf
<1>2. [r EXCEPT !.pending = pending] \in Roles(K)
  BY DEF Roles
<1>3. [role EXCEPT ![m].pending = pending]
        = [role EXCEPT ![m] = [role[m] EXCEPT !.pending = pending]]
  BY Zenon
<1>4. role' = [role EXCEPT ![m] = [role[m] EXCEPT !.pending = pending]]
  BY <1>3
<1> QED
  BY <1>1, <1>2, <1>4, RoleSet

(* A report or an answer, and with it the new role.                        *)
LEMMA ReportsType ==
  ASSUME NEW K, Types(K), NEW m \in Client, NEW r \in Roles(K),
         NEW t \in {"none", "expired"}, NEW B \in Nets(K), Reports(m, r, t, B)
  PROVE  /\ RoleTypes(K)' /\ net' \in Nets(K)
         /\ BagToSet(net') = BagToSet(B) \cup {Sent("report", m, NULL, r.heard)}
         /\ role'[m] \in Roles(K) /\ role'[m].fsm = "notified" /\ role'[m].heard = <<>>
         /\ role'[m].resp = r.resp /\ role'[m].expected = r.expected
         /\ \A e \in Client \ {m} : role'[e] = role[e]
<1> DEFINE q == [r EXCEPT !.fsm = "notified", !.timer = t, !.heard = <<>>]
<1>1. q \in Roles(K) /\ r.heard \in Seq(Client)
  <2>1. <<>> \in Seq(Client)
    OBVIOUS
  <2> QED
    BY <2>1 DEF Roles
<1>2. /\ q.fsm = "notified" /\ q.heard = <<>> /\ q.resp = r.resp
      /\ q.expected = r.expected
  BY DEF Roles
<1>3. role' = [role EXCEPT ![m] = q]
      /\ net' = BagAdd(B, Sent("report", m, NULL, r.heard))
  BY DEF Reports
<1>4. Sent("report", m, NULL, r.heard) \in Msg(K)
  BY <1>1, SentType
<1>5. net' \in Nets(K)
      /\ BagToSet(net') = BagToSet(B) \cup {Sent("report", m, NULL, r.heard)}
  BY <1>3, <1>4, BagAddNet
<1> HIDE DEF q
<1>7. RoleTypes(K)' /\ role'[m] = q /\ \A e \in Client \ {m} : role'[e] = role[e]
  BY <1>1, <1>3, RoleSet
<1> QED
  BY <1>1, <1>2, <1>5, <1>7

(* The role of a client that is notified.                                  *)
Notified(c) == [NewRole EXCEPT !.active = Size, !.expected = Size, !.heard = <<c>>]

(* It is a role, with the timer of a notification or without.              *)
LEMMA NotifiedType ==
  ASSUME NEW K, NEW c \in Client
  PROVE  Notified(c) \in Roles(K) /\ [Notified(c) EXCEPT !.timer = "oneshot"] \in Roles(K)
<1>1. Size \in Nat
  BY SizeIsNat
<1>2. <<c>> \in Seq(Client) /\ <<>> \in Seq(Nodes) /\ <<>> \in Seq(K)
  OBVIOUS
<1> QED
  BY <1>1, <1>2 DEF Notified, NewRole, Roles

(* A notification makes a client the moderator, or sends an echo request.  *)
LEMMA NotifyTypes ==
  ASSUME NEW K, Types(K), NEW c \in Client, RcvNotify(c)
  PROVE  Types(K)'
<1> DEFINE d == Head(inbox[c])
           r == Notified(c)
<1>1. /\ HasMail(c) /\ d.type = "notify" /\ inbox' = Took(c)
      /\ moderator' = [moderator EXCEPT ![c] = d.mod]
      /\ UNCHANGED server /\ UNCHANGED cached /\ UNCHANGED workers
      /\ executing' = executing \ {c}
      /\ UNCHANGED <<pending_task_count, timer_id, stray, disturbed>>
      /\ UNCHANGED <<alive, faults, forced, missed>>
  BY DEF RcvNotify, Takes, environment
<1>2. d \in Mail(K) /\ inbox' \in [Client -> Seq(Mail(K))]
  BY <1>1, TookType
<1>3. d.mod \in Client
  BY <1>1, <1>2, MailFacts
<1>4. r \in Roles(K) /\ [r EXCEPT !.timer = "oneshot"] \in Roles(K)
  BY NotifiedType
<1>5. RoleTypes(K)' /\ net' \in Nets(K)
  <2>0. net \in Nets(K)
    BY DEF Types, MailTypes
  <2>1. CASE net' = Posted(net, Sent("hello", c, d.mod, <<>>)) /\ UNCHANGED role
    <3>1. Sent("hello", c, d.mod, <<>>) \in Msg(K)
      BY <1>3, SentType
    <3> QED
      BY <2>0, <2>1, <3>1, PostedNet, Untouched
  <2>2. CASE Reports(c, r, "none", net)
    BY <1>4, <2>0, <2>2, ReportsType
  <2>3. CASE role' = [role EXCEPT ![c] = [r EXCEPT !.timer = "oneshot"]] /\ UNCHANGED net
    <3> HIDE DEF r
    <3> QED
      BY <1>4, <2>0, <2>3, RoleSet
  <2>4. \/ net' = Posted(net, Sent("hello", c, d.mod, <<>>)) /\ UNCHANGED role
        \/ Reports(c, r, "none", net)
        \/ role' = [role EXCEPT ![c] = [r EXCEPT !.timer = "oneshot"]] /\ UNCHANGED net
    BY DEF RcvNotify, Size, Notified
  <2> QED
    BY <2>1, <2>2, <2>3, <2>4
<1>6. MailTypes(K)'
  BY <1>2, <1>5 DEF MailTypes
<1>7. ClientTypes(K)'
  <2>1. BeatTypes'
    BY <1>1 DEF Types, ClientTypes, BeatTypes
  <2> QED
    BY <1>1, <1>3, <2>1 DEF Types, ClientTypes, Ids
<1> QED
  BY <1>1, <1>5, <1>6, <1>7, Untouched DEF Types

(* The answer to a notification.                                           *)
LEMMA HelloTypes ==
  ASSUME NEW K, Types(K), NEW m \in Client, RcvHello(m)
  PROVE  Types(K)'
<1>1. /\ UNCHANGED server /\ UNCHANGED <<alive, heartbeats, moderator, cached>>
      /\ UNCHANGED workers /\ UNCHANGED inbox /\ UNCHANGED <<faults, forced, missed>>
  BY DEF RcvHello, environment
<1>2. PICK d \in BagToSet(net) :
        LET rest == BagRemove(net, d)
            r == [role[m] EXCEPT !.heard = Append(@, d.from)]
        IN /\ d.type = "hello" /\ d.to = m
           /\ IF ~IsModerator(m) \/ role[m].fsm = "notified"
              THEN net' = rest /\ UNCHANGED role
              ELSE IF role[m].fsm = "task"
              THEN net' = rest /\ role' = [role EXCEPT ![m] = Heard(@, d.from)]
              ELSE IF Len(r.heard) = r.active
                   THEN Reports(m, r, "none", rest)
                   ELSE role' = [role EXCEPT ![m] = r] /\ net' = rest
  BY DEF RcvHello
<1> DEFINE rest == BagRemove(net, d)
           r == [role[m] EXCEPT !.heard = Append(@, d.from)]
<1>3. net \in Nets(K) /\ d \in Msg(K) /\ rest \in Nets(K)
  <2>1. net \in Nets(K)
    BY DEF Types, MailTypes
  <2>2. d \in Msg(K)
    BY <2>1, NetIsBag
  <2> QED
    BY <2>1, <2>2, BagRemoveNet
<1>4. RoleTypes(K)' /\ net' \in Nets(K)
  <2>1. CASE net' = rest /\ UNCHANGED role
    BY <1>3, <2>1, Untouched
  <2>2. CASE IsModerator(m) /\ net' = rest
             /\ role' = [role EXCEPT ![m] = Heard(@, d.from)]
    <3>1. Heard(role[m], d.from) \in Roles(K)
      BY <2>2, RoleOf, HeardType
    <3>2. role' = [role EXCEPT ![m] = Heard(role[m], d.from)]
      BY <2>2
    <3> QED
      BY <1>3, <2>2, <3>1, <3>2, RoleSet
  <2>3. CASE IsModerator(m) /\ (\/ Reports(m, r, "none", rest)
                                \/ role' = [role EXCEPT ![m] = r] /\ net' = rest)
    <3>1. d.from \in Client
      BY <1>3, MsgFacts
    <3>2. r \in Roles(K)
      <4>1. PICK q \in Roles(K) : q = role[m]
        BY <2>3, RoleOf
      <4>2. Append(q.heard, d.from) \in Seq(Client)
        BY <3>1 DEF Roles
      <4>3. [q EXCEPT !.heard = Append(q.heard, d.from)] \in Roles(K)
        BY <4>2 DEF Roles
      <4> QED
        BY <4>1, <4>3
    <3> HIDE DEF r, rest
    <3>3. CASE Reports(m, r, "none", rest)
      BY <1>3, <3>2, <3>3, ReportsType
    <3>4. CASE role' = [role EXCEPT ![m] = r] /\ net' = rest
      BY <1>3, <3>2, <3>4, RoleSet
    <3> QED
      BY <2>3, <3>3, <3>4
  <2> HIDE DEF r, rest
  <2> QED
    BY <1>2, <2>1, <2>2, <2>3 DEF r, rest
<1>5. MailTypes(K)'
  BY <1>1, <1>4 DEF Types, MailTypes
<1> QED
  BY <1>1, <1>4, <1>5, Untouched DEF Types

(* The one-shot timer of a moderator, when it is heeded and when not.      *)
LEMMA TimeoutTypes ==
  ASSUME NEW K, Types(K), NEW m \in Client,
         NotifyTimeout(m) \/ NotifyTimeoutIgnored(m)
  PROVE  Types(K)'
<1> DEFINE r == role[m]
           late == \/ \E d \in BagToSet(net) : d.type = "hello" /\ d.to = m
                   \/ \E c \in alive : HasMail(c)
<1>1. /\ UNCHANGED server /\ UNCHANGED <<alive, heartbeats, moderator, cached>>
      /\ UNCHANGED workers /\ UNCHANGED inbox /\ UNCHANGED <<forced, missed>>
      /\ IsModerator(m)
  BY DEF NotifyTimeout, NotifyTimeoutIgnored
<1>2. \/ Reports(m, r, "expired", net)
      \/ role' = [role EXCEPT ![m] = [r EXCEPT !.timer = "expired"]] /\ UNCHANGED net
  <2>1. CASE NotifyTimeout(m)
    BY <2>1 DEF NotifyTimeout
  <2>2. CASE NotifyTimeoutIgnored(m)
    <3>1. role' = [role EXCEPT ![m].timer = "expired"] /\ UNCHANGED net
      BY <2>2 DEF NotifyTimeoutIgnored
    <3>2. [role EXCEPT ![m].timer = "expired"]
            = [role EXCEPT ![m] = [role[m] EXCEPT !.timer = "expired"]]
      BY Zenon
    <3> QED
      BY <3>1, <3>2
  <2> QED
    BY <2>1, <2>2
<1>3. FaultIf("late hello", late) \/ Fault("signal")
  BY DEF NotifyTimeout, NotifyTimeoutIgnored
<1>4. r \in Roles(K) /\ [r EXCEPT !.timer = "expired"] \in Roles(K)
  <2>1. r \in Roles(K)
    BY <1>1, RoleOf
  <2> HIDE DEF r
  <2> QED
    BY <2>1 DEF Roles
<1>5. net \in Nets(K) /\ forced \in {"no", "yes"} /\ missed \subseteq Client
  BY DEF Types, MailTypes, FaultTypes
<1>6. FaultTypes'
  <2> HIDE DEF late
  <2> QED
    BY <1>1, <1>3, <1>5, FaultsType
<1> HIDE DEF r
<1>7. RoleTypes(K)' /\ net' \in Nets(K)
  <2>1. CASE Reports(m, r, "expired", net)
    BY <1>4, <1>5, <2>1, ReportsType
  <2>2. CASE role' = [role EXCEPT ![m] = [r EXCEPT !.timer = "expired"]] /\ UNCHANGED net
    BY <1>4, <1>5, <2>2, RoleSet
  <2> QED
    BY <1>2, <2>1, <2>2
<1>8. MailTypes(K)'
  BY <1>1, <1>7 DEF Types, MailTypes
<1> QED
  BY <1>1, <1>6, <1>7, <1>8, Untouched DEF Types

(* A heartbeat of a client that works.                                     *)
LEMMA HeartbeatTypes ==
  ASSUME NEW K, Types(K), NEW c \in Client, NEW m \in Client, Heartbeat(c, m)
  PROVE  Types(K)'
<1>1. /\ UNCHANGED server /\ UNCHANGED <<alive, heartbeats, moderator, cached>>
      /\ UNCHANGED workers /\ UNCHANGED <<inbox, net>>
      /\ UNCHANGED <<faults, forced, missed>>
      /\ IsModerator(m) /\ role' = [role EXCEPT ![m] = Heard(role[m], c)]
  BY DEF Heartbeat, environment
<1>2. Heard(role[m], c) \in Roles(K)
  BY <1>1, RoleOf, HeardType
<1>3. RoleTypes(K)'
  BY <1>1, <1>2, RoleSet
<1> QED
  BY <1>1, <1>3, Untouched DEF Types

(* A moderator watches its pending list and gives up whom it has not heard.*)
LEMMA MonitorTypes ==
  ASSUME NEW K, Types(K), NEW m \in Client, Monitor(m)
  PROVE  /\ Types(K)'
         /\ \E q \in Seq(Nodes) : role' = [role EXCEPT ![m].pending = q]
<1> DEFINE pending == role[m].pending
           I == {i \in 1 .. Len(pending) : pending[i].id # m /\ pending[i].beats = 0}
           i == SelectInSeq(pending, LAMBDA n : n.id # m /\ n.beats = 0)
           Missed(n) == IF n.id = m THEN n ELSE [n EXCEPT !.beats = n.beats - 1]
           all == [k \in DOMAIN pending |-> Missed(pending[k])]
           some == [k \in DOMAIN pending |->
                      IF k < i THEN Missed(pending[k]) ELSE pending[k]]
<1>1. /\ UNCHANGED server /\ UNCHANGED <<alive, heartbeats, moderator, cached>>
      /\ UNCHANGED workers /\ UNCHANGED inbox /\ UNCHANGED <<forced, missed>>
      /\ IsModerator(m)
  BY DEF Monitor
<1>2. \/ /\ i = 0
         /\ role' = [role EXCEPT ![m].pending = all]
         /\ UNCHANGED <<net, faults>>
      \/ /\ i # 0
         /\ role' = [role EXCEPT ![m].pending = RemoveAt(some, i)]
         /\ net' = BagAdd(net, Sent("dead", m, NULL, pending[i].id))
         /\ FaultIf("late client", Late(pending[i].id, m))
  BY DEF Monitor
<1>3. role[m] \in Roles(K) /\ pending \in Seq(Nodes)
  <2>1. PICK r \in Roles(K) : r = role[m]
    BY <1>1, RoleOf
  <2> QED
    BY <2>1 DEF Roles
<1>4. i = IF I # {} THEN Min(I) ELSE 0
  BY DEF SelectInSeq
<1>5. I # {} => Min(I) \in I /\ \A y \in I : Min(I) <= y
  <2>1. I \subseteq Nat
    OBVIOUS
  <2> HIDE DEF I
  <2> QED
    BY <2>1, MinIn
<1>6. i \in 0 .. Len(pending) /\ (i # 0 => i \in I)
      /\ \A k \in 1 .. Len(pending) : k < i \/ i = 0 => k \notin I
  <2>1. CASE I = {}
    <3> HIDE DEF i
    <3> QED
      BY <1>3, <1>4, <2>1
  <2>2. CASE I # {}
    <3> HIDE DEF i
    <3>1. i \in I /\ \A y \in I : i <= y
      BY <1>4, <1>5, <2>2
    <3> QED
      BY <3>1
  <2> QED
    BY <2>1, <2>2
<1>7. \A k \in 1 .. Len(pending) : k \notin I => Missed(pending[k]) \in Nodes
  <2>1. ASSUME NEW n \in Nodes, n.id = m \/ n.beats # 0
        PROVE  Missed(n) \in Nodes
    <3>1. n.beats # 0 => n.beats - 1 \in 0 .. MaxBeats
      BY Bounds DEF Nodes
    <3> QED
      BY <2>1, <3>1 DEF Nodes
  <2> HIDE DEF Missed
  <2> QED
    BY <1>3, <2>1
<1> HIDE DEF i, I, Missed
<1>8. /\ RoleTypes(K)' /\ net' \in Nets(K)
      /\ \E q \in Seq(Nodes) : role' = [role EXCEPT ![m].pending = q]
  <2>0. net \in Nets(K)
    BY DEF Types, MailTypes
  <2>1. CASE i = 0
    <3>1. all \in Seq(Nodes)
      BY <1>3, <1>6, <1>7, <2>1
    <3>2. role' = [role EXCEPT ![m].pending = all] /\ UNCHANGED net
      BY <1>2, <2>1
    <3> HIDE DEF all, pending
    <3>3. RoleTypes(K)'
      BY <1>1, <3>1, <3>2, PendingSet
    <3> QED
      BY <2>0, <3>1, <3>2, <3>3
  <2>2. CASE i # 0
    <3>1. i \in 1 .. Len(pending)
      BY <1>3, <1>6, <2>2
    <3>2. some \in Seq(Nodes) /\ Len(some) = Len(pending)
      <4>1. \A k \in 1 .. Len(pending) :
              (IF k < i THEN Missed(pending[k]) ELSE pending[k]) \in Nodes
        BY <1>3, <1>6, <1>7
      <4> HIDE DEF pending
      <4> QED
        BY <1>3, <4>1
    <3>3. pending[i].id \in Ids
      <4>1. pending[i] \in Nodes
        BY <1>3, <3>1
      <4> QED
        BY <4>1 DEF Nodes
    <3> HIDE DEF some, pending
    <3>4. RemoveAt(some, i) \in Seq(Nodes)
      BY <3>1, <3>2, RemoveAtType
    <3>5. Sent("dead", m, NULL, pending[i].id) \in Msg(K)
      BY <3>3, SentType
    <3>6. net' \in Nets(K) /\ role' = [role EXCEPT ![m].pending = RemoveAt(some, i)]
      <4>1. /\ role' = [role EXCEPT ![m].pending = RemoveAt(some, i)]
            /\ net' = BagAdd(net, Sent("dead", m, NULL, pending[i].id))
        BY <1>2, <2>2
      <4>2. BagAdd(net, Sent("dead", m, NULL, pending[i].id)) \in Nets(K)
        BY <2>0, <3>5, BagAddNet
      <4> QED
        BY <4>1, <4>2
    <3>7. RoleTypes(K)'
      BY <1>1, <3>4, <3>6, PendingSet
    <3> QED
      BY <3>4, <3>6, <3>7
  <2> QED
    BY <2>1, <2>2
<1>9. FaultTypes'
  <2>1. FaultIf("late client", Late(pending[i].id, m)) \/ UNCHANGED faults
    BY <1>2
  <2>2. forced \in {"no", "yes"} /\ missed \subseteq Client
    BY DEF Types, FaultTypes
  <2> QED
    BY <1>1, <2>1, <2>2, FaultsType
<1>10. MailTypes(K)'
  BY <1>1, <1>8 DEF Types, MailTypes
<1> QED
  BY <1>1, <1>8, <1>9, <1>10, Untouched DEF Types

(* The answer with which a role ends.                                      *)
LEMMA AnswersType ==
  ASSUME NEW K, Types(K), NEW m \in Client, NEW r \in Roles(K),
         NEW B \in Nets(K), Answers(m, r, B)
  PROVE  RoleTypes(K)' /\ net' \in Nets(K)
<1>1. r.resp \in Seq(K)
  BY DEF Roles
<1>2. Sent("answer", m, NULL, r.resp) \in Msg(K)
  BY <1>1, SentType
<1>3. net' \in Nets(K)
  BY <1>2, BagAddNet DEF Answers
<1> QED
  BY <1>3, RoleSet DEF Answers

(* The result of a client enters the response, and may complete it.        *)
LEMMA CollectsType ==
  ASSUME NEW K, Types(K), NEW m \in Client, NEW c, NEW p \in K,
         NEW B \in Nets(K), CollectsFrom(m, c, p, B)
  PROVE  RoleTypes(K)' /\ net' \in Nets(K)
<1>1. CASE ~IsModerator(m) \/ Found(role[m].pending, c) = 0
  BY <1>1, Untouched DEF CollectsFrom
<1>2. CASE IsModerator(m) /\ Found(role[m].pending, c) # 0
  <2> DEFINE r == Collected(role[m], c, p)
  <2>1. r \in Roles(K)
    BY <1>2, RoleOf, CollectedType
  <2>2. IF Len(r.resp) = r.expected
        THEN Answers(m, r, B) ELSE role' = [role EXCEPT ![m] = r] /\ net' = B
    BY <1>2 DEF CollectsFrom
  <2> HIDE DEF r
  <2>3. CASE Answers(m, r, B)
    BY <2>1, <2>3, AnswersType
  <2>4. CASE role' = [role EXCEPT ![m] = r] /\ net' = B
    BY <2>1, <2>4, RoleSet
  <2> QED
    BY <2>2, <2>3, <2>4
<1> QED
  BY <1>1, <1>2

(* A result reaches the moderator, or the operator has it answer.          *)
LEMMA ResultTypes ==
  ASSUME NEW K, Types(K), NEW m \in Client, RcvResult(m) \/ ForceCleanup(m)
  PROVE  Types(K)'
<1>1. /\ UNCHANGED server /\ UNCHANGED <<alive, heartbeats, moderator, cached>>
      /\ UNCHANGED workers /\ UNCHANGED inbox /\ UNCHANGED missed
  BY DEF RcvResult, ForceCleanup
<1>2. net \in Nets(K) /\ forced \in {"no", "yes"} /\ missed \subseteq Client
  BY DEF Types, MailTypes, FaultTypes
<1>3. RoleTypes(K)' /\ net' \in Nets(K)
  <2>1. CASE RcvResult(m)
    <3>1. PICK d \in BagToSet(net) :
            d.type = "result" /\ CollectsFrom(m, d.from, d.data, BagRemove(net, d))
      BY <2>1 DEF RcvResult
    <3>2. d \in Msg(K)
      BY <1>2, NetIsBag
    <3>3. d.data \in K /\ BagRemove(net, d) \in Nets(K)
      BY <1>2, <3>1, <3>2, MsgFacts, BagRemoveNet
    <3> QED
      BY <3>1, <3>3, CollectsType
  <2>2. CASE ForceCleanup(m)
    <3>1. IsModerator(m) /\ Answers(m, role[m], net)
      BY <2>2 DEF ForceCleanup
    <3> QED
      BY <1>2, <3>1, RoleOf, AnswersType
  <2> QED
    BY <2>1, <2>2
<1>4. FaultTypes'
  <2> DEFINE late == HasMail(m) /\ Head(inbox[m]).type = "task"
  <2>1. Fault("cleanup") \/ FaultIf("late request", late)
    BY DEF RcvResult, ForceCleanup
  <2>2. forced' \in {"no", "yes"} /\ missed' \subseteq Client
    BY <1>1, <1>2 DEF RcvResult, ForceCleanup
  <2> HIDE DEF late
  <2> QED
    BY <2>1, <2>2, FaultsType
<1>5. MailTypes(K)'
  BY <1>1, <1>3 DEF Types, MailTypes
<1> QED
  BY <1>1, <1>3, <1>4, <1>5, Untouched DEF Types

----------------------------------------------------------------------------
(* The threads of a client.                                                *)
LEMMA MovesType ==
  ASSUME NEW K, Types(K), NEW w \in workers,
         NEW pc \in {"working", "counted", "stopping", "deleted", "zeroed",
                  "checked", "reported"},
         Moves(w, pc)
  PROVE  WorkerTypes(K)'
<1>1. IsFiniteSet(workers) /\ \A v \in workers : v \in Worker /\ v.part \in K
  BY DEF Types, WorkerTypes
<1>2. [w EXCEPT !.pc = pc] \in Worker /\ [w EXCEPT !.pc = pc].part \in K
  <2>1. w \in Worker /\ w.part \in K
    BY <1>1
  <2> QED
    BY <2>1 DEF Worker
<1>3. workers' = (workers \ {w}) \cup {[w EXCEPT !.pc = pc]}
  BY DEF Moves
<1>4. IsFiniteSet(workers')
  <2>1. IsFiniteSet(workers \ {w})
    BY <1>1, FS_RemoveElement
  <2> QED
    BY <1>3, <2>1, FS_AddElement
<1> QED
  BY <1>1, <1>2, <1>3, <1>4 DEF WorkerTypes

(* What is left of a client that ends.                                     *)
LEMMA EndedTypes ==
  ASSUME NEW K, Types(K), NEW c \in Client, Ended(c)
  PROVE  /\ ServerTypes(K)' /\ RoleTypes(K)' /\ ClientTypes(K)' /\ WorkerTypes(K)'
         /\ MailTypes(K)' /\ UNCHANGED <<forced, missed>>
<1>1. RoleTypes(K)'
  BY RoleSet DEF Ended
<1>2. ClientTypes(K)'
  <2>1. BeatTypes'
    BY DEF Types, ClientTypes, BeatTypes, Ended
  <2> QED
    BY <2>1 DEF Types, ClientTypes, Ended
<1>3. WorkerTypes(K)'
  <2>1. workers' \subseteq workers /\ IsFiniteSet(workers)
    BY DEF Types, WorkerTypes, Ended
  <2>2. IsFiniteSet(workers')
    BY <2>1, FS_Subset
  <2> QED
    BY <2>1, <2>2 DEF Types, WorkerTypes
<1>4. MailTypes(K)'
  <2>1. inbox \in [Client -> Seq(Mail(K))] /\ net \in Nets(K)
    BY DEF Types, MailTypes
  <2>2. net' \in Nets(K)
    BY <2>1, ReachingNet DEF Ended
  <2>3. inbox' \in [Client -> Seq(Mail(K))]
    BY <2>1 DEF Ended
  <2> QED
    BY <2>2, <2>3 DEF MailTypes
<1> QED
  BY <1>1, <1>2, <1>3, <1>4, Untouched DEF Ended

(* A thread that is over.                                                  *)
LEMMA ThreadOverTypes ==
  ASSUME NEW K, Types(K), NEW w, workers' = workers \ {w}
  PROVE  WorkerTypes(K)'
<1>1. IsFiniteSet(workers)
  BY DEF Types, WorkerTypes
<1>2. IsFiniteSet(workers')
  BY <1>1, FS_RemoveElement
<1> QED
  BY <1>1, <1>2 DEF Types, WorkerTypes

(* A client that ends of itself, with or without a fault.                  *)
LEMMA EndsTypes ==
  ASSUME NEW K, Types(K), NEW c \in Client, NEW kind, Ended(c),
         Fault(kind) \/ UNCHANGED faults
  PROVE  Types(K)'
<1>0. forced \in {"no", "yes"} /\ missed \subseteq Client
  BY DEF Types, FaultTypes
<1>1. /\ ServerTypes(K)' /\ RoleTypes(K)' /\ ClientTypes(K)' /\ WorkerTypes(K)'
      /\ MailTypes(K)' /\ UNCHANGED <<forced, missed>>
  BY EndedTypes
<1>2. FaultTypes'
  BY <1>0, <1>1, FaultsType
<1> QED
  BY <1>1, <1>2 DEF Types

(* The three steps that stop the timer.                                    *)
LEMMA StopTypes ==
  ASSUME NEW K, Types(K), NEW w \in workers, WorkerStopsTimer(w)
  PROVE  WorkerTypes(K)' /\ BeatTypes'
<1>1. w.by \in Client
  BY DEF Types, WorkerTypes, Worker
<1>2. BeatTypes /\ UNCHANGED pending_task_count
  BY DEF Types, ClientTypes, WorkerStopsTimer
<1>3. CASE WorkerDeletes(w)
  <2>1. WorkerTypes(K)'
    BY <1>3, MovesType DEF WorkerDeletes
  <2>2. timer_id' \in [Client -> {"none", "armed", "deleted"}]
    BY <1>1, <1>2, <1>3 DEF WorkerDeletes, BeatTypes
  <2> QED
    BY <1>2, <1>3, <2>1, <2>2 DEF WorkerDeletes, BeatTypes
<1>4. CASE WorkerForgets(w)
  <2>1. WorkerTypes(K)'
    BY <1>4, MovesType DEF WorkerForgets
  <2> QED
    BY <1>1, <1>2, <1>4, <2>1 DEF WorkerForgets, BeatTypes
<1>5. CASE WorkerLeaves(w)
  <2>1. WorkerTypes(K)'
    BY <1>5, MovesType DEF WorkerLeaves
  <2> QED
    BY <1>2, <1>5, <2>1 DEF WorkerLeaves, BeatTypes
<1> QED
  BY <1>3, <1>4, <1>5 DEF WorkerStopsTimer

(* Every step of a thread.                                                 *)
LEMMA WorkerStepTypes ==
  ASSUME NEW K, Types(K), NEW w \in workers,
         \/ WorkerCounts(w) \/ WorkerChecks(w) \/ WorkerStopsTimer(w)
         \/ WorkerReports(w) \/ WorkerCaches(w) \/ FetchFails(w)
  PROVE  Types(K)'
<1>1. w \in Worker /\ w.by \in Client /\ w.part \in K
  BY DEF Types, WorkerTypes, Worker
<1>2. forced \in {"no", "yes"} /\ missed \subseteq Client
  BY DEF Types, FaultTypes
<1>3. CASE WorkerCounts(w)
  <2>1. CASE /\ Busy(w.by) /\ Moves(w, "counted")
             /\ pending_task_count' = [pending_task_count EXCEPT ![w.by] = @ - 1]
             /\ UNCHANGED <<server, role, moderator, timer_id, stray, executing,
                            disturbed, cached, inbox, net, environment>>
    <3>1. WorkerTypes(K)'
      BY <2>1, MovesType
    <3>2. BeatTypes
      BY DEF Types, ClientTypes
    <3>3. pending_task_count' \in [Client -> Nat]
      <4>1. \A n \in Nat : n # 0 => n - 1 \in Nat
        OBVIOUS
      <4> QED
        BY <1>1, <2>1, <3>2, <4>1 DEF BeatTypes, Busy
    <3>4. BeatTypes'
      BY <2>1, <3>2, <3>3 DEF BeatTypes
    <3>5. ClientTypes(K)'
      BY <2>1, <3>4 DEF Types, ClientTypes, environment
    <3> QED
      BY <2>1, <3>1, <3>5, Untouched DEF Types, environment
  <2>2. CASE Ended(w.by) /\ UNCHANGED faults
    BY <1>1, <2>2, EndsTypes
  <2> QED
    BY <1>3, <2>1, <2>2 DEF WorkerCounts
<1>4. CASE WorkerChecks(w)
  <2>1. WorkerTypes(K)'
    BY <1>4, MovesType DEF WorkerChecks
  <2> QED
    BY <1>4, <2>1, Untouched DEF WorkerChecks, Types, environment
<1>5. CASE WorkerStopsTimer(w)
  <2>1. WorkerTypes(K)' /\ BeatTypes'
    BY <1>5, StopTypes
  <2>2. UNCHANGED <<server, role, moderator, cached, inbox, net, environment>>
    BY <1>5 DEF WorkerStopsTimer
  <2>3. ClientTypes(K)'
    BY <2>1, <2>2 DEF Types, ClientTypes, environment
  <2> QED
    BY <2>1, <2>2, <2>3, Untouched DEF Types, environment
<1>6. CASE WorkerReports(w)
  <2>0. net \in Nets(K) /\ moderator[w.by] \in Ids
    BY <1>1 DEF Types, MailTypes, ClientTypes
  <2>1. WorkerTypes(K)'
    BY <1>6, MovesType DEF WorkerReports
  <2>2. RoleTypes(K)' /\ net' \in Nets(K)
    <3>1. CASE CollectsFrom(w.by, w.by, w.part, net)
      BY <1>1, <2>0, <3>1, CollectsType
    <3>2. CASE net' = Posted(net, Sent("result", w.by, moderator[w.by], w.part))
               /\ UNCHANGED role
      <4>1. Sent("result", w.by, moderator[w.by], w.part) \in Msg(K)
        BY <1>1, <2>0, SentType
      <4> QED
        BY <2>0, <3>2, <4>1, PostedNet, Untouched
    <3> QED
      BY <1>6, <3>1, <3>2 DEF WorkerReports
  <2>3. MailTypes(K)'
    BY <1>6, <2>2 DEF WorkerReports, Types, MailTypes
  <2> QED
    BY <1>6, <2>1, <2>2, <2>3, Untouched DEF WorkerReports, Types, environment
<1>7. CASE WorkerCaches(w)
  <2>1. WorkerTypes(K)'
    BY <1>7, ThreadOverTypes DEF WorkerCaches
  <2>2. ClientTypes(K)'
    <3>1. BeatTypes'
      BY <1>7, Untouched DEF WorkerCaches
    <3> QED
      BY <1>1, <1>7, <3>1 DEF WorkerCaches, Types, ClientTypes, environment
  <2> QED
    BY <1>7, <2>1, <2>2, Untouched DEF WorkerCaches, Types, environment
<1>8. CASE FetchFails(w)
  <2>1. WorkerTypes(K)'
    BY <1>8, ThreadOverTypes DEF FetchFails
  <2>2. FaultTypes'
    BY <1>2, <1>8, FaultsType DEF FetchFails
  <2>3. BeatTypes'
    BY <1>1, <1>8 DEF FetchFails, Types, ClientTypes, BeatTypes
  <2>4. ClientTypes(K)'
    BY <1>8, <2>3 DEF FetchFails, Types, ClientTypes
  <2> QED
    BY <1>8, <2>1, <2>2, <2>4, Untouched DEF FetchFails, Types
<1> QED
  BY <1>3, <1>4, <1>5, <1>6, <1>7, <1>8

(* A thread gets a number that no other of its client has for that part.   *)
LEMMA FreshIsNat ==
  ASSUME IsFiniteSet(workers), NEW c, NEW p
  PROVE  /\ Fresh(c, p) \in Nat
         /\ \A w \in workers : w.by = c /\ w.part = p => w.no # Fresh(c, p)
<1> DEFINE W == {w \in workers : w.by = c /\ w.part = p}
           N == {w.no : w \in W}
           C == Cardinality(workers)
           U == (0 .. C) \ N
<1>1. IsFiniteSet(W) /\ Cardinality(W) <= C /\ C \in Nat
  <2>1. W \in SUBSET workers
    OBVIOUS
  <2> HIDE DEF W
  <2> QED
    BY <2>1, FS_Subset, FS_CardinalityType
<1>2. IsFiniteSet(N) /\ Cardinality(N) <= C
  <2> DEFINE f == [w \in W |-> w.no]
  <2>1. DOMAIN f = W /\ f = [w \in W |-> f[w]] /\ N = {f[w] : w \in W}
    OBVIOUS
  <2> HIDE DEF f, N, W
  <2>2. IsFiniteSet(N) /\ Cardinality(N) <= Cardinality(W)
    BY <1>1, <2>1, ImageIsFinite
  <2>3. Cardinality(N) \in Nat /\ Cardinality(W) \in Nat
    BY <1>1, <2>2, FS_CardinalityType
  <2> QED
    BY <1>1, <2>2, <2>3
<1>3. U # {}
  <2> SUFFICES ASSUME 0 .. C \subseteq N
               PROVE  FALSE
    OBVIOUS
  <2> HIDE DEF N, C
  <2>1. Cardinality(0 .. C) = C + 1
    BY <1>1, FS_Interval
  <2>2. Cardinality(0 .. C) <= Cardinality(N)
    <3>1. 0 .. C \in SUBSET N
      OBVIOUS
    <3> QED
      BY <1>2, <3>1, FS_Subset
  <2>3. Cardinality(N) \in Nat
    BY <1>2, FS_CardinalityType
  <2> QED
    BY <1>1, <1>2, <2>1, <2>2, <2>3
<1>4. PICK k \in U : \A j \in U : k <= j
  <2>1. U \subseteq Nat
    OBVIOUS
  <2> HIDE DEF U
  <2> QED
    BY <1>3, <2>1, Least
<1>5. /\ k \in 0 .. C
      /\ \A w \in workers : w.by = c /\ w.part = p => w.no # k
  BY <1>4
<1>6. \A i \in 0 .. k - 1 : \E w \in workers : w.by = c /\ w.part = p /\ w.no = i
  <2>1. \A i \in 0 .. k - 1 : i \in 0 .. C /\ ~(k <= i)
    BY <1>1, <1>5
  <2>2. \A i \in 0 .. k - 1 : i \in N
    BY <1>4, <2>1
  <2> QED
    BY <2>2
<1> HIDE DEF C
<1>7. /\ Fresh(c, p) \in 0 .. C
      /\ \A w \in workers : w.by = c /\ w.part = p => w.no # Fresh(c, p)
  BY <1>5, <1>6 DEF Fresh, C
<1> QED
  BY <1>1, <1>7

(* The threads that a task request starts.                                 *)
LEMMA HiredType ==
  ASSUME NEW K \in SUBSET Client, Types(K), NEW c \in Client, NEW d \in Mail(K), d.type = "task"
  PROVE  /\ IsFiniteSet(Hired(c, d)) /\ Cardinality(Hired(c, d)) \in Nat
         /\ \A w \in Hired(c, d) : /\ w \in Worker /\ w.part \in K
                                   /\ w.by = c /\ w.pc = "working"
                                   /\ w \notin workers
<1> DEFINE mine == {i \in DOMAIN d.ids : d.ids[i] = c}
           Thread(i) == [by |-> c, part |-> d.parts[i], no |-> Fresh(c, d.parts[i]),
                         pc |-> "working"]
           new == {Thread(i) : i \in mine}
<1>1. /\ d.ids \in Seq(Ids) /\ d.parts \in Seq(K) /\ Len(d.ids) = Len(d.parts)
      /\ IsFiniteSet(workers)
  BY MailFacts DEF Types, WorkerTypes
<1>2. \A i \in mine : d.parts[i] \in K
  BY <1>1
<1>3. \A i \in mine : /\ Thread(i) \in Worker /\ Thread(i).part \in K
                      /\ Thread(i).by = c /\ Thread(i).pc = "working"
                      /\ Thread(i) \notin workers
  <2>1. ASSUME NEW p \in K, NEW k \in Nat, p \in Client
        PROVE  LET w == [by |-> c, part |-> p, no |-> k, pc |-> "working"]
               IN  w \in Worker /\ w.part \in K /\ w.by = c /\ w.pc = "working"
    BY DEF Worker, Part
  <2>2. \A p : Fresh(c, p) \in Nat
    BY <1>1, FreshIsNat
  <2>3. \A i \in mine : d.parts[i] \in Client
    BY <1>2
  <2>4. ASSUME NEW p, NEW w \in workers
        PROVE  w # [by |-> c, part |-> p, no |-> Fresh(c, p), pc |-> "working"]
    BY <1>1, FreshIsNat
  <2> HIDE DEF mine
  <2>5. \A i \in mine : Thread(i) \notin workers
    BY <2>4
  <2> QED
    BY <1>2, <2>1, <2>2, <2>3, <2>5
<1>4. IsFiniteSet(mine)
  <2>1. mine \in SUBSET (1 .. Len(d.ids)) /\ Len(d.ids) \in Int
    BY <1>1
  <2> HIDE DEF mine
  <2>2. IsFiniteSet(1 .. Len(d.ids))
    BY <2>1, FS_Interval
  <2> QED
    BY <2>1, <2>2, FS_Subset
<1>5. IsFiniteSet(new)
  <2> DEFINE f == [i \in mine |-> Thread(i)]
  <2>1. DOMAIN f = mine /\ f = [i \in mine |-> f[i]] /\ new = {f[i] : i \in mine}
    <3> HIDE DEF mine, Thread
    <3> QED
      OBVIOUS
  <2> HIDE DEF f, mine, new
  <2> QED
    BY <1>4, <2>1, ImageIsFinite
<1>6. Hired(c, d) = new
  BY DEF Hired
<1>7. \A w \in new : /\ w \in Worker /\ w.part \in K
                     /\ w.by = c /\ w.pc = "working" /\ w \notin workers
  <2> HIDE DEF Thread, mine
  <2> QED
    BY <1>3
<1> HIDE DEF new
<1> QED
  BY <1>5, <1>6, <1>7, FS_CardinalityType

(* What a task request makes of the threads and of their count.            *)
LEMMA StartTypes ==
  ASSUME NEW K \in SUBSET Client, Types(K), NEW c \in Client, NEW d \in Mail(K),
         d.type = "task",
         \/ Counts(c, Hired(c, d))
         \/ \E w \in workers : LosesCount(c, w, Hired(c, d))
  PROVE  /\ WorkerTypes(K)' /\ pending_task_count' \in [Client -> Nat]
         /\ disturbed' \subseteq Client
<1> DEFINE hired == Hired(c, d)
<1>1. /\ IsFiniteSet(hired) /\ Cardinality(hired) \in Nat
      /\ \A w \in hired : w \in Worker /\ w.part \in K
  BY HiredType
<1>2. /\ pending_task_count \in [Client -> Nat] /\ disturbed \subseteq Client
      /\ IsFiniteSet(workers) /\ \A w \in workers : w \in Worker /\ w.part \in K
  BY DEF Types, ClientTypes, BeatTypes, WorkerTypes
<1> HIDE DEF hired
<1>3. CASE Counts(c, hired)
  <2>1. IsFiniteSet(workers')
    BY <1>1, <1>2, <1>3, FS_Union DEF Counts
  <2>2. WorkerTypes(K)'
    BY <1>1, <1>2, <1>3, <2>1 DEF Counts, WorkerTypes
  <2> QED
    BY <1>1, <1>2, <1>3, <2>2 DEF Counts
<1>4. ASSUME NEW w \in workers, LosesCount(c, w, hired)
      PROVE  /\ WorkerTypes(K)' /\ pending_task_count' \in [Client -> Nat]
             /\ disturbed' \subseteq Client
  <2> DEFINE u == [w EXCEPT !.pc = "counted"]
  <2>1. workers' = (workers \ {w}) \cup {u} \cup hired
    BY <1>4 DEF LosesCount
  <2>2. u \in Worker /\ u.part \in K
    <3>1. w \in Worker /\ w.part \in K
      BY <1>2
    <3> QED
      BY <3>1 DEF Worker
  <2> HIDE DEF u
  <2>3. IsFiniteSet(workers')
    <3>1. IsFiniteSet((workers \ {w}) \cup {u})
      BY <1>2, FS_RemoveElement, FS_AddElement
    <3> QED
      BY <1>1, <2>1, <3>1, FS_Union
  <2>4. WorkerTypes(K)'
    BY <1>1, <1>2, <2>1, <2>2, <2>3 DEF WorkerTypes
  <2>5. Cardinality(hired) # 0 /\ pending_task_count[c] # 0
    BY <1>1, <1>4, FS_EmptySet DEF LosesCount, Busy
  <2>6. ASSUME NEW n \in Nat, n # 0, NEW k \in Nat, k # 0, NEW slip \in {0, 2}
        PROVE  n + k - slip \in Nat
    BY <2>6
  <2>7. PICK slip \in {0, 2} :
          pending_task_count' =
            [pending_task_count EXCEPT ![c] = @ + Cardinality(hired) - slip]
    BY <1>4 DEF LosesCount
  <2>8. pending_task_count[c] + Cardinality(hired) - slip \in Nat
    BY <1>1, <1>2, <2>5, <2>6
  <2>9. pending_task_count' \in [Client -> Nat]
    BY <1>2, <2>7, <2>8
  <2> QED
    BY <1>2, <1>4, <2>4, <2>9 DEF LosesCount
<1> QED
  BY <1>3, <1>4 DEF hired

(* A task request starts threads, and a moderator awaits what it asks for. *)
LEMMA TaskTypes ==
  ASSUME NEW K \in SUBSET Client, Types(K), NEW c \in Client, RcvTask(c)
  PROVE  Types(K)'
<1> DEFINE d == Head(inbox[c])
           hired == Hired(c, d)
<1>1. /\ HasMail(c) /\ d.type = "task" /\ inbox' = Took(c)
      /\ cached' = IF d.again THEN cached ELSE [cached EXCEPT ![c] = <<>>]
      /\ role' = IF IsModerator(c)
                 THEN [role EXCEPT ![c] = Tracking(@, d, hired # {})] ELSE role
      /\ timer_id' = timer_id \/ timer_id' = [timer_id EXCEPT ![c] = "armed"]
      /\ executing' = executing \/ executing' = executing \cup {c}
         \/ executing' = executing \ {c}
      /\ Counts(c, hired) \/ \E w \in workers : LosesCount(c, w, hired)
      /\ Fault("count") \/ UNCHANGED faults
      /\ UNCHANGED <<server, moderator, stray, net, alive, forced, missed>>
  BY DEF RcvTask, Takes
<1>2. d \in Mail(K) /\ inbox' \in [Client -> Seq(Mail(K))]
  BY <1>1, TookType
<1>3. d.again \in BOOLEAN
  BY <1>1, <1>2, MailFacts
<1>4. RoleTypes(K)'
  <2>1. CASE IsModerator(c)
    <3>1. Tracking(role[c], d, hired # {}) \in Roles(K)
      <4>1. (hired # {}) \in BOOLEAN
        OBVIOUS
      <4> HIDE DEF hired, d
      <4> QED
        BY <1>1, <1>2, <2>1, <4>1, RoleOf, TrackingType
    <3>2. role' = [role EXCEPT ![c] = Tracking(role[c], d, hired # {})]
      BY <1>1, <2>1
    <3> HIDE DEF hired, d
    <3> QED
      BY <3>1, <3>2, RoleSet
  <2>2. CASE ~IsModerator(c)
    BY <1>1, <2>2, Untouched
  <2> QED
    BY <2>1, <2>2
<1>5. /\ WorkerTypes(K)' /\ pending_task_count' \in [Client -> Nat]
      /\ disturbed' \subseteq Client
  <2> HIDE DEF d
  <2> QED
    BY <1>1, <1>2, StartTypes
<1> HIDE DEF hired
<1>6. ClientTypes(K)'
  <2>1. cached' \in [Client -> Seq(K)]
    BY <1>1 DEF Types, ClientTypes
  <2>2. BeatTypes'
    BY <1>1, <1>5 DEF Types, ClientTypes, BeatTypes
  <2> QED
    BY <1>1, <2>1, <2>2 DEF Types, ClientTypes
<1>7. MailTypes(K)'
  BY <1>1, <1>2 DEF Types, MailTypes
<1>8. FaultTypes'
  <2>1. forced \in {"no", "yes"} /\ missed \subseteq Client
    BY DEF Types, FaultTypes
  <2> QED
    BY <1>1, <2>1, FaultsType
<1> QED
  BY <1>1, <1>4, <1>5, <1>6, <1>7, <1>8, Untouched DEF Types

(* What a client sends to a new moderator.                                 *)
LEMMA ResentNet ==
  ASSUME NEW K, Types(K), NEW c \in Client, NEW m \in Ids
  PROVE  /\ Resent(c, m) \in Nets(K)
         /\ \A d \in BagToSet(Resent(c, m)) : d \in BagToSet(net) \/ d.type = "result"
         /\ \A d : d.type = "result" \/ Alike(net, Resent(c, m), d)
<1> DEFINE V == {B \in Nets(K) : \A d : d.type = "result" \/ Alike(net, B, d)}
           sq == cached[c]
           n == Len(sq)
           One(B, p) == Posted(B, Sent("result", c, m, p))
           step == [x \in (1 .. n) \X V |-> One(x[2], sq[x[1]])]
           it == CHOOSE f : f = [s \in SUBSET (1 .. n) |->
                   IF s = {} THEN net
                   ELSE One(f[s \ {Max(s)}], sq[Max(s)])]
<1>0. sq \in Seq(K) /\ net \in Nets(K)
  BY DEF Types, ClientTypes, MailTypes
<1>1. n \in Nat /\ DOMAIN sq = 1 .. n
  BY <1>0
<1>2. net \in V
  BY <1>0 DEF Alike
<1>3. \A k \in 1 .. n, B \in V : One(B, sq[k]) \in V
  <2>1. ASSUME NEW B \in V, NEW p \in K
        PROVE  One(B, p) \in V
    <3>1. Sent("result", c, m, p) \in Msg(K) /\ Sent("result", c, m, p).type = "result"
      <4>1. Sent("result", c, m, p).type = "result"
        BY DEF Sent
      <4> QED
        BY <4>1, SentType
    <3>2. B \in Nets(K)
      OBVIOUS
    <3>3. One(B, p) \in Nets(K)
      BY <3>1, <3>2, PostedNet
    <3>4. \A d : d.type # "result" => Alike(B, One(B, p), d)
      BY <3>1, <3>2, OthersAlike
    <3> HIDE DEF One
    <3>5. \A d : d.type # "result" => Alike(net, One(B, p), d)
      BY <3>4 DEF Alike
    <3> QED
      BY <3>3, <3>5
  <2>2. \A k \in 1 .. n : sq[k] \in K
    BY <1>0
  <2> HIDE DEF V, One, n
  <2> QED
    BY <2>1, <2>2
<1>4. step \in [(1 .. n) \X V -> V]
  <2> HIDE DEF V, One, n
  <2> QED
    BY <1>3
<1>5. PICK f : IsFold(f, n, V, net, step)
  <2> HIDE DEF step, n, V
  <2> QED
    BY <1>1, <1>2, <1>4, FoldExists
<1>6. \A s \in SUBSET (1 .. n) : s # {} =>
        Max(s) \in 1 .. n /\ s \ {Max(s)} \in SUBSET (1 .. n)
  <2>1. \A s \in SUBSET (1 .. n) : s \subseteq 0 .. n
    OBVIOUS
  <2> QED
    BY <1>1, <2>1, MaxIn
<1>7. f = [s \in SUBSET (1 .. n) |->
             IF s = {} THEN net ELSE One(f[s \ {Max(s)}], sq[Max(s)])]
  <2> HIDE DEF V, One, n
  <2> QED
    BY <1>5, <1>6 DEF IsFold
<1>8. it = [s \in SUBSET (1 .. n) |->
              IF s = {} THEN net ELSE One(it[s \ {Max(s)}], sq[Max(s)])]
  <2> HIDE DEF n, One
  <2> QED
    BY <1>7
<1>9. Resent(c, m) = it[1 .. n]
  BY <1>1 DEF Resent, FoldLeft, MapThenFoldSet
<1> DEFINE T == {k \in 0 .. n : it[1 .. k] \in V}
<1>10. 0 \in T
  <2>1. 1 .. 0 = {} /\ {} \in SUBSET (1 .. n) /\ 0 \in 0 .. n
    OBVIOUS
  <2> HIDE DEF it, n, V
  <2> QED
    BY <1>2, <1>8, <2>1
<1>11. ASSUME NEW k \in 0 .. n - 1, k \in T
       PROVE  k + 1 \in T
  <2>1. /\ Max(1 .. k + 1) = k + 1 /\ (1 .. k + 1) \ {k + 1} = 1 .. k
        /\ 1 .. k + 1 # {} /\ 1 .. k + 1 \in SUBSET (1 .. n) /\ k + 1 \in 1 .. n
    BY MaxOfInterval
  <2>2. it[1 .. k] \in V
    BY <1>11
  <2> HIDE DEF it, n, V, One
  <2>3. it[1 .. k + 1] = One(it[1 .. k], sq[k + 1])
    BY <1>8, <2>1
  <2>4. it[1 .. k + 1] \in V
    BY <1>3, <2>1, <2>2, <2>3
  <2>5. k + 1 \in 0 .. n
    BY <1>1
  <2> QED
    BY <2>4, <2>5
<1>12. n \in T
  <2>1. n \in Nat /\ n \in 0 .. n
    BY <1>1
  <2> HIDE DEF T, n
  <2>2. \A k \in 0 .. n : k \in T
    BY <2>1, <1>10, <1>11, Induction
  <2> QED
    BY <2>1, <2>2
<1>13. it[1 .. n] \in V
  BY <1>12
<1> HIDE DEF it
<1>14. \A d : d.type = "result" \/ Alike(net, Resent(c, m), d)
  BY <1>9, <1>13
<1>15. \A d \in BagToSet(Resent(c, m)) : d \in BagToSet(net) \/ d.type = "result"
  BY <1>14 DEF Alike
<1> QED
  BY <1>9, <1>13, <1>14, <1>15

(* The role of a client that is told that it is the new moderator.         *)
Appointee(d) ==
  [NewRole EXCEPT
     !.fsm = "task", !.active = Len(d.ids), !.expected = d.expected,
     !.pending = Reverse([i \in DOMAIN d.ids |-> NewNode(d.ids[i])])]

(* It is a role, without a timer yet.                                      *)
LEMMA AppointeeType ==
  ASSUME NEW K, NEW d \in Mail(K), d.type = "update"
  PROVE  /\ Appointee(d) \in Roles(K)
         /\ Appointee(d).fsm = "task" /\ Appointee(d).timer = "none"
<1> DEFINE nodes == [i \in DOMAIN d.ids |-> NewNode(d.ids[i])]
<1>1. d.ids \in Seq(Ids) /\ d.expected \in Nat
  BY MailFacts
<1>2. nodes \in Seq(Nodes)
  <2>1. \A e \in Ids : NewNode(e) \in Nodes
    BY Bounds DEF NewNode, Nodes
  <2>2. \A i \in 1 .. Len(d.ids) : NewNode(d.ids[i]) \in Nodes
    BY <1>1, <2>1
  <2> QED
    BY <1>1, <2>2
<1>3. Reverse(nodes) \in Seq(Nodes)
  <2> HIDE DEF nodes
  <2> QED
    BY <1>2, ReverseType
<1>4. <<>> \in Seq(Client) /\ <<>> \in Seq(K) /\ Len(d.ids) \in Nat
  BY <1>1
<1>5. Appointee(d) = [NewRole EXCEPT
        !.fsm = "task", !.active = Len(d.ids), !.expected = d.expected,
        !.pending = Reverse(nodes)]
  BY DEF Appointee
<1> HIDE DEF nodes
<1> QED
  BY <1>1, <1>3, <1>4, <1>5 DEF NewRole, Roles

(* A client is told of a new moderator.                                    *)
LEMMA UpdateTypes ==
  ASSUME NEW K, Types(K), NEW c \in Client, RcvUpdate(c)
  PROVE  Types(K)'
<1> DEFINE d == Head(inbox[c])
           r == Appointee(d)
<1>1. /\ HasMail(c) /\ d.type = "update" /\ inbox' = Took(c)
      /\ UNCHANGED server /\ UNCHANGED cached /\ UNCHANGED workers
      /\ UNCHANGED <<alive, faults, forced, missed>>
      /\ \/ /\ role' = [role EXCEPT ![c] = NULL]
            /\ UNCHANGED <<moderator, timer_id, disturbed, net>>
         \/ /\ moderator' = [moderator EXCEPT ![c] = d.mod]
            /\ net' = Resent(c, d.mod)
            /\ role' = IF c = d.mod THEN [role EXCEPT ![c] = r] ELSE role
            /\ timer_id' = timer_id \/ timer_id' = [timer_id EXCEPT ![c] = "none"]
            /\ disturbed' = disturbed \/ disturbed' = disturbed \cup {c}
      /\ UNCHANGED <<pending_task_count, stray, executing>>
  BY DEF RcvUpdate, Takes, environment, Appointee
<1>2. d \in Mail(K) /\ inbox' \in [Client -> Seq(Mail(K))]
  BY <1>1, TookType
<1>3. d.mod \in Client /\ d.ids \in Seq(Ids) /\ d.expected \in Nat
  BY <1>1, <1>2, MailFacts
<1>4. r \in Roles(K)
  BY <1>1, <1>2, AppointeeType
<1> HIDE DEF d, r
<1>5. RoleTypes(K)'
  <2>1. NULL \in Roles(K) \cup {NULL} /\ r \in Roles(K) \cup {NULL}
    BY <1>4
  <2> QED
    BY <1>1, <2>1, RoleSet, Untouched
<1>6. net' \in Nets(K)
  <2>1. net \in Nets(K)
    BY DEF Types, MailTypes
  <2>2. Resent(c, d.mod) \in Nets(K)
    BY <1>3, ResentNet DEF Ids
  <2> QED
    BY <1>1, <2>1, <2>2
<1>7. ClientTypes(K)'
  <2>1. BeatTypes'
    BY <1>1 DEF Types, ClientTypes, BeatTypes
  <2> QED
    BY <1>1, <1>3, <2>1 DEF Types, ClientTypes, Ids
<1>8. MailTypes(K)'
  BY <1>2, <1>6 DEF MailTypes
<1> QED
  BY <1>1, <1>5, <1>7, <1>8, Untouched DEF Types

----------------------------------------------------------------------------
(* The server's map.                                                       *)
LEMMA EntryRange ==
  ASSUME NEW m, NEW n \in Int, NEW c
  PROVE  \/ Entry(m, n, c) \in 1 .. n /\ m[Entry(m, n, c)].who = c
         \/ Entry(m, n, c) = n + 1 /\ \A i \in 1 .. n : m[i].who # c
  BY DEF Entry

(* The map keeps its length when a client is taken out of it.              *)
LEMMA MarkDeadType ==
  ASSUME NEW K, NEW m \in Seq(Entries(K)), NEW n \in Int, n <= Len(m), NEW c
  PROVE  /\ mark_dead_clients_in_group(m, n, c) \in Seq(Entries(K))
         /\ Len(mark_dead_clients_in_group(m, n, c)) = Len(m)
<1> DEFINE i == Entry(m, n, c)
           z == [m EXCEPT ![i].who = NULL]
           IsLast(k) == /\ k = i \/ z[k].who # NULL
                      /\ \A l \in k + 1 .. n : z[l].who = NULL
           j == CHOOSE k \in i .. n : IsLast(k)
<1>1. CASE i > n
  BY <1>1 DEF mark_dead_clients_in_group
<1>2. CASE ~(i > n)
  <2>1. i \in 1 .. n /\ i \in 1 .. Len(m)
    BY <1>2, EntryRange
  <2>2. z \in Seq(Entries(K)) /\ Len(z) = Len(m)
    <3> HIDE DEF i
    <3>1. z = [m EXCEPT ![i] = [m[i] EXCEPT !.who = NULL]]
      BY Zenon
    <3>2. [m[i] EXCEPT !.who = NULL] \in Entries(K)
      <4>1. PICK e \in Entries(K) : e = m[i]
        BY <2>1
      <4>2. [e EXCEPT !.who = NULL] \in Entries(K)
        BY DEF Entries, Ids
      <4> QED
        BY <4>1, <4>2
    <3> HIDE DEF z
    <3> QED
      BY <2>1, <3>1, <3>2
  <2>3. \E k \in i .. n : IsLast(k)
    <3> DEFINE U == {k \in i .. n : k = i \/ z[k].who # NULL}
    <3> HIDE DEF i, z
    <3>1. U \subseteq 0 .. n /\ i \in U /\ n \in Nat
      BY <2>1
    <3>2. Max(U) \in U /\ \A y \in U : y <= Max(U)
      <4> HIDE DEF U
      <4> QED
        BY <3>1, MaxIn
    <3>3. \A l \in Max(U) + 1 .. n : l \notin U /\ l \in i .. n
      BY <2>1, <3>1, <3>2
    <3> QED
      BY <3>2, <3>3
  <2>4. j \in i .. n
    <3> HIDE DEF IsLast, i
    <3> QED
      BY <2>3
  <2>5. j \in 1 .. Len(m)
    <3> HIDE DEF j, i
    <3> QED
      BY <2>1, <2>4
  <2>6. mark_dead_clients_in_group(m, n, c) = [z EXCEPT ![i] = z[j], ![j] = z[i]]
    BY <1>2 DEF mark_dead_clients_in_group
  <2> HIDE DEF i, j, z
  <2>7. [z EXCEPT ![i] = z[j], ![j] = z[i]] \in Seq(Entries(K))
        /\ Len([z EXCEPT ![i] = z[j], ![j] = z[i]]) = Len(m)
    BY <2>1, <2>2, <2>5
  <2> QED
    BY <2>6, <2>7
<1> QED
  BY <1>1, <1>2

(* The client that gets the parts of a dead one is one of the map.         *)
LEMMA HeirType ==
  ASSUME NEW K, NEW m \in Seq(Entries(K)), NEW n \in Int, n <= Len(m),
         Len(m) # 0, NEW md
  PROVE  Heir(m, n, md) \in Ids
<1>0. \A i \in 1 .. Len(m) : m[i].who \in Ids
  <2>1. \A i \in 1 .. Len(m) : m[i] \in Entries(K)
    OBVIOUS
  <2>2. \A e \in Entries(K) : e.who \in Ids
    BY DEF Entries
  <2> QED
    BY <2>1, <2>2
<1> DEFINE U == {i \in 1 .. n : m[i].who # md}
           First(i) == m[i].who # md /\ \A k \in 1 .. i - 1 : m[k].who = md
           i == CHOOSE k \in 1 .. n : First(k)
<1>1. CASE U = {}
  <2>1. Heir(m, n, md) = m[1].who
    BY <1>1 DEF Heir
  <2>2. 1 \in 1 .. Len(m)
    OBVIOUS
  <2> QED
    BY <1>0, <2>1, <2>2
<1>2. CASE U # {}
  <2>1. \E k \in 1 .. n : First(k)
    <3>1. PICK k \in U : \A y \in U : k <= y
      <4>1. U \subseteq Nat
        OBVIOUS
      <4> HIDE DEF U
      <4> QED
        BY <1>2, <4>1, Least
    <3>2. \A l \in 1 .. k - 1 : l \notin U /\ l \in 1 .. n
      BY <3>1
    <3> QED
      BY <3>2
  <2>2. i \in 1 .. n
    <3> HIDE DEF First
    <3> QED
      BY <2>1
  <2>3. i \in 1 .. Len(m)
    <3> HIDE DEF i
    <3> QED
      BY <2>2
  <2>4. Heir(m, n, md) = m[i].who
    BY <1>2 DEF Heir
  <2> HIDE DEF i
  <2> QED
    BY <1>0, <2>3, <2>4
<1> QED
  BY <1>1, <1>2

(* The map keeps its length when the parts are entered again.              *)
LEMMA RecordedType ==
  ASSUME NEW K, NEW m \in Seq(Entries(K)), NEW parts \in Seq(K)
  PROVE  Recorded(m, parts) \in Seq(Entries(K)) /\ Len(Recorded(m, parts)) = Len(m)
<1> DEFINE E(i) == IF i \in DOMAIN parts
                   THEN [m[i] EXCEPT !.files = Append(m[i].files, parts[i])]
                   ELSE m[i]
<1>1. ASSUME NEW i \in 1 .. Len(m)
      PROVE  E(i) \in Entries(K)
  <2>1. PICK e \in Entries(K) : e = m[i]
    OBVIOUS
  <2>2. ASSUME NEW p \in K
        PROVE  [e EXCEPT !.files = Append(e.files, p)] \in Entries(K)
    <3>1. Append(e.files, p) \in Seq(K)
      BY DEF Entries
    <3> QED
      BY <3>1 DEF Entries
  <2>3. i \in DOMAIN parts => parts[i] \in K
    OBVIOUS
  <2> QED
    BY <2>1, <2>2, <2>3
<1>2. Recorded(m, parts) = [i \in 1 .. Len(m) |-> E(i)]
  BY DEF Recorded
<1> HIDE DEF E
<1> QED
  BY <1>1, <1>2

(* The task request for the parts of a dead client.                        *)
LEMMA RetransmissionType ==
  ASSUME NEW K, NEW m \in Seq(Entries(K)), NEW n \in Int, n <= Len(m),
         NEW parts \in Seq(K), NEW md, ~RetransmitFails(m, n, md, parts)
  PROVE  /\ Retransmission(m, n, md, parts) \in Mail(K)
         /\ Retransmission(m, n, md, parts).type = "task"
         /\ Retransmission(m, n, md, parts).again = TRUE
<1> DEFINE ids == [i \in DOMAIN parts |-> Heir(m, n, md)]
<1>1. Len(parts) <= Len(m)
  BY DEF RetransmitFails
<1>2. ids \in Seq(Ids) /\ Len(ids) = Len(parts)
  <2>1. Len(parts) # 0 => Heir(m, n, md) \in Ids
    <3>1. Len(parts) # 0 => Len(m) # 0
      BY <1>1
    <3> QED
      BY <3>1, HeirType
  <2>2. \A i \in 1 .. Len(parts) : Heir(m, n, md) \in Ids
    BY <2>1
  <2> QED
    BY <2>2
<1>3. Retransmission(m, n, md, parts)
        = [type |-> "task", ids |-> ids, parts |-> parts, again |-> TRUE]
  BY DEF Retransmission, TaskRequest
<1> HIDE DEF ids
<1> QED
  BY <1>2, <1>3 DEF Mail, Tasks

----------------------------------------------------------------------------
(* More parts may be known.                                                *)
LEMMA MoreParts ==
  ASSUME NEW K, NEW L, K \subseteq L, Types(K)
  PROVE  Types(L)
<1>1. Seq(K) \subseteq Seq(L)
  OBVIOUS
<1>2. Entries(K) \subseteq Entries(L) /\ Roles(K) \subseteq Roles(L)
  BY <1>1 DEF Entries, Roles
<1>3. Mail(K) \subseteq Mail(L)
  BY <1>1 DEF Mail, Tasks
<1>4. Msg(K) \subseteq Msg(L)
  BY <1>1 DEF Msg
<1>5. Seq(Entries(K)) \subseteq Seq(Entries(L)) /\ Seq(Mail(K)) \subseteq Seq(Mail(L))
  <2> HIDE DEF Entries, Mail
  <2> QED
    BY <1>2, <1>3
<1>6. Nets(K) \subseteq Nets(L)
  BY <1>4 DEF Nets
<1>7. ServerTypes(L)
  BY <1>1, <1>5 DEF Types, ServerTypes
<1>8. RoleTypes(L)
  BY <1>2 DEF Types, RoleTypes
<1>9. ClientTypes(L)
  BY <1>1 DEF Types, ClientTypes
<1>10. WorkerTypes(L)
  BY DEF Types, WorkerTypes
<1>11. MailTypes(L)
  BY <1>5, <1>6 DEF Types, MailTypes
<1> QED
  BY <1>7, <1>8, <1>9, <1>10, <1>11 DEF Types

(* What the server does leaves the clients as they are.                    *)
LEMMA ClientsUntouched ==
  ASSUME NEW K, Types(K), UNCHANGED clients, UNCHANGED alive
  PROVE  RoleTypes(K)' /\ ClientTypes(K)' /\ WorkerTypes(K)'
  BY Untouched DEF clients

(* The server ends.                                                        *)
LEMMA ServerEndsTypes ==
  ASSUME NEW K, Types(K), ServerEnds
  PROVE  ServerTypes(K)' /\ UNCHANGED <<inbox, clients>>
  BY DEF ServerEnds, Types, ServerTypes

(* The first report starts the task for those that are in it.              *)
LEMMA ReportTypes ==
  ASSUME NEW K, Types(K), RcvReport
  PROVE  IF fsm_state = "selected"
         THEN \E s \in Seq(Client) : /\ Types(K \cup Range(s))'
                                    /\ \E d \in BagToSet(net) :
                                         d.type = "report" /\ d.data = s
                                    /\ expected' = Len(s)
                                    /\ Multicast(<<TaskRequest(s, s, FALSE)>>)
         ELSE Types(K)' /\ UNCHANGED <<server, inbox>>
<1>1. PICK d \in BagToSet(net) :
        /\ ToServer(d, "report")
        /\ net' = BagRemove(net, d)
        /\ IF fsm_state = "selected"
           THEN /\ fsm_state' = "running"
                /\ map' = [i \in DOMAIN d.data |->
                             [who |-> d.data[i], files |-> <<d.data[i]>>]]
                /\ working' = Len(d.data)
                /\ expected' = Len(d.data)
                /\ Multicast(<<TaskRequest(d.data, d.data, FALSE)>>)
           ELSE UNCHANGED <<fsm_state, map, working, expected, inbox>>
  BY DEF RcvReport
<1>2. UNCHANGED <<moderator_client, dead_files, result, clbusy, clients, environment>>
  BY DEF RcvReport
<1>3. net \in Nets(K) /\ d \in Msg(K) /\ net' \in Nets(K) /\ d.type = "report"
  <2>1. net \in Nets(K)
    BY DEF Types, MailTypes
  <2>2. d \in Msg(K)
    BY <2>1, NetIsBag
  <2> QED
    BY <1>1, <2>1, <2>2, BagRemoveNet DEF ToServer
<1>4. CASE fsm_state # "selected"
  <2>1. MailTypes(K)' /\ UNCHANGED <<server, inbox>>
    BY <1>1, <1>2, <1>3, <1>4 DEF Types, MailTypes, server
  <2> QED
    BY <1>2, <1>4, <2>1, Untouched, ClientsUntouched DEF Types, environment
<1>5. CASE fsm_state = "selected"
  <2> DEFINE s == d.data
             L == K \cup Range(s)
  <2>1. s \in Seq(Client)
    BY <1>3, MsgFacts
  <2>2. K \subseteq L /\ s \in Seq(L) /\ \A i \in 1 .. Len(s) : s[i] \in L /\ s[i] \in Ids
    <3>1. \A i \in 1 .. Len(s) : s[i] \in Client /\ s[i] \in Range(s)
      BY <2>1 DEF Range
    <3> QED
      BY <2>1, <3>1 DEF Ids
  <2> HIDE DEF s, L
  <2>3. Types(L)
    BY <2>2, MoreParts
  <2>4. ServerTypes(L)'
    <3>1. map' = [i \in 1 .. Len(s) |-> [who |-> s[i], files |-> <<s[i]>>]]
      BY <1>1, <1>5, <2>1 DEF s
    <3>2. \A i \in 1 .. Len(s) : [who |-> s[i], files |-> <<s[i]>>] \in Entries(L)
      BY <2>2 DEF Entries
    <3>3. map' \in Seq(Entries(L)) /\ Len(map') = Len(s) /\ Len(s) \in Nat
      BY <2>1, <3>1, <3>2
    <3>4. fsm_state' = "running" /\ working' = Len(s) /\ expected' = Len(s)
      BY <1>1, <1>5 DEF s
    <3> QED
      BY <1>2, <2>3, <3>3, <3>4 DEF Types, ServerTypes
  <2>5. MailTypes(L)'
    <3>1. net' \in Nets(L)
      BY <1>1, <2>3, BagRemoveNet DEF Types, MailTypes
    <3>2. <<TaskRequest(s, s, FALSE)>> \in Seq(Mail(L))
      <4>1. s \in Seq(Ids)
        BY <2>1 DEF Ids
      <4>2. TaskRequest(s, s, FALSE) \in Tasks(L)
        BY <2>2, <4>1 DEF TaskRequest, Tasks
      <4>3. TaskRequest(s, s, FALSE) \in Mail(L)
        BY <4>2 DEF TaskRequest, Mail
      <4> QED
        BY <4>3, Single
    <3>3. Multicast(<<TaskRequest(s, s, FALSE)>>)
      BY <1>1, <1>5 DEF s
    <3> QED
      BY <2>3, <3>1, <3>2, <3>3, MulticastType DEF MailTypes
  <2>6. Types(L)'
    BY <1>2, <2>3, <2>4, <2>5, Untouched, ClientsUntouched DEF Types, environment
  <2>7. d.type = "report" /\ expected' = Len(s) /\ Multicast(<<TaskRequest(s, s, FALSE)>>)
    BY <1>1, <1>3, <1>5 DEF s
  <2> QED
    BY <1>5, <2>1, <2>6, <2>7 DEF s, L
<1> QED
  BY <1>4, <1>5

(* The report of a death: its parts go to another client.                  *)
LEMMA DeadTypes ==
  ASSUME NEW K, Types(K), RcvDead
  PROVE  Types(K)'
<1>1. UNCHANGED environment
  BY DEF RcvDead
<1>2. PICK d \in BagToSet(net) :
        /\ ToServer(d, "dead")
        /\ net' = BagRemove(net, d)
        /\ LET i == Entry(map, working, d.data)
               m == mark_dead_clients_in_group(map, working, d.data)
           IN \/ UNCHANGED <<server, clients, inbox>>
              \/ /\ i \in DOMAIN map
                 /\ ~RetransmitFails(m, working - 1, moderator_client, map[i].files)
                 /\ map' = Recorded(m, map[i].files)
                 /\ working' = working - 1
                 /\ Multicast(<<Retransmission(m, working - 1, moderator_client,
                                               map[i].files)>>)
                 /\ UNCHANGED <<fsm_state, moderator_client, expected,
                                dead_files, result, clbusy, clients>>
              \/ ServerEnds
  BY DEF RcvDead
<1> DEFINE i == Entry(map, working, d.data)
           m == mark_dead_clients_in_group(map, working, d.data)
<1>3. /\ net' \in Nets(K) /\ inbox \in [Client -> Seq(Mail(K))]
      /\ map \in Seq(Entries(K)) /\ working \in Int /\ working <= Len(map)
  <2>1. net \in Nets(K)
    BY DEF Types, MailTypes
  <2> QED
    BY <1>2, <2>1, BagRemoveNet DEF Types, MailTypes, ServerTypes
<1>4. ServerTypes(K)' /\ inbox' \in [Client -> Seq(Mail(K))] /\ UNCHANGED clients
  <2>1. CASE UNCHANGED <<server, clients, inbox>>
    BY <1>3, <2>1, Untouched
  <2>2. CASE ServerEnds
    BY <1>3, <2>2, ServerEndsTypes
  <2>3. CASE /\ i \in DOMAIN map
             /\ ~RetransmitFails(m, working - 1, moderator_client, map[i].files)
             /\ map' = Recorded(m, map[i].files)
             /\ working' = working - 1
             /\ Multicast(<<Retransmission(m, working - 1, moderator_client,
                                           map[i].files)>>)
             /\ UNCHANGED <<fsm_state, moderator_client, expected,
                            dead_files, result, clbusy, clients>>
    <3>1. m \in Seq(Entries(K)) /\ Len(m) = Len(map)
      BY <1>3, MarkDeadType
    <3> HIDE DEF m, i
    <3>2. map[i].files \in Seq(K)
      <4>1. map[i] \in Entries(K)
        BY <1>3, <2>3
      <4> QED
        BY <4>1 DEF Entries
    <3>3. Recorded(m, map[i].files) \in Seq(Entries(K))
          /\ Len(Recorded(m, map[i].files)) = Len(map)
      BY <3>1, <3>2, RecordedType
    <3>4. Retransmission(m, working - 1, moderator_client, map[i].files) \in Mail(K)
      <4>1. working - 1 \in Int /\ working - 1 <= Len(m)
        BY <1>3, <3>1
      <4> QED
        BY <2>3, <3>1, <3>2, <4>1, RetransmissionType
    <3>5. inbox' \in [Client -> Seq(Mail(K))]
      <4>1. <<Retransmission(m, working - 1, moderator_client, map[i].files)>>
              \in Seq(Mail(K))
        BY <3>4
      <4> QED
        BY <2>3, <4>1, MulticastType
    <3>6. working' \in Int /\ working' <= Len(map')
      BY <1>3, <2>3, <3>3
    <3>7. ServerTypes(K)'
      BY <2>3, <3>3, <3>6 DEF Types, ServerTypes
    <3> QED
      BY <2>3, <3>5, <3>7
  <2> HIDE DEF m, i
  <2> QED
    BY <1>2, <2>1, <2>2, <2>3 DEF m, i
<1> QED
  BY <1>1, <1>3, <1>4, Untouched, ClientsUntouched DEF Types, MailTypes, environment

(* The answer of a group.                                                  *)
LEMMA AnswerTypes ==
  ASSUME NEW K, Types(K), RcvAnswer
  PROVE  Types(K)'
<1>1. PICK d \in BagToSet(net) :
        /\ ToServer(d, "answer")
        /\ net' = BagRemove(net, d)
        /\ moderator_client' = NULL
        /\ clbusy' = clbusy \ (IF moderator_client = NULL THEN {d.from}
                               ELSE {moderator_client})
        /\ IF fsm_state = "running"
           THEN fsm_state' = "done" /\ result' = d.data /\ working' = 0
           ELSE UNCHANGED <<fsm_state, result, working>>
  BY DEF RcvAnswer
<1>2. UNCHANGED <<map, expected, dead_files, clients, inbox, environment>>
  BY DEF RcvAnswer
<1>3. net' \in Nets(K) /\ d.data \in Seq(K)
  <2>1. net \in Nets(K)
    BY DEF Types, MailTypes
  <2>2. d \in Msg(K)
    BY <2>1, NetIsBag
  <2> QED
    BY <1>1, <2>1, <2>2, BagRemoveNet, MsgFacts DEF ToServer
<1>4. ServerTypes(K)'
  <2>1. Len(map) \in Nat
    BY DEF Types, ServerTypes
  <2>2. fsm_state' \in {"selected", "running", "searching", "done", "ended"}
        /\ result' \in Seq(K) /\ working' \in Int /\ working' <= Len(map)
    BY <1>1, <1>3, <2>1 DEF Types, ServerTypes
  <2>3. moderator_client' \in Ids /\ clbusy' \subseteq Client
    BY <1>1 DEF Types, ServerTypes, Ids
  <2> QED
    BY <1>2, <2>2, <2>3 DEF Types, ServerTypes
<1>5. MailTypes(K)'
  BY <1>2, <1>3 DEF Types, MailTypes
<1> QED
  BY <1>2, <1>4, <1>5, Untouched, ClientsUntouched DEF Types, environment

(* The server has missed the heartbeats of the moderator.                  *)
LEMMA SilentTypes ==
  ASSUME NEW K, Types(K), ModeratorSilent
  PROVE  Types(K)'
<1> DEFINE i == Entry(map, working, moderator_client)
<1>1. /\ UNCHANGED <<net, alive, forced, missed>>
      /\ FaultIf("late moderator", ModeratorLate)
      /\ \/ /\ i \in DOMAIN map
            /\ fsm_state' = "searching"
            /\ dead_files' = map[i].files
            /\ map' = mark_dead_clients_in_group(map, working, moderator_client)
            /\ working' = working - Len(map[i].files)
            /\ UNCHANGED <<moderator_client, expected, result, clbusy, clients,
                           inbox>>
         \/ ServerEnds
  BY DEF ModeratorSilent
<1>2. /\ map \in Seq(Entries(K)) /\ working \in Int /\ working <= Len(map)
      /\ forced \in {"no", "yes"} /\ missed \subseteq Client
  BY DEF Types, ServerTypes, FaultTypes
<1>3. FaultTypes'
  BY <1>1, <1>2, FaultsType
<1> HIDE DEF i
<1>4. ServerTypes(K)' /\ UNCHANGED <<inbox, clients>>
  <2>1. CASE ServerEnds
    BY <2>1, ServerEndsTypes
  <2>2. CASE /\ i \in DOMAIN map
             /\ fsm_state' = "searching"
             /\ dead_files' = map[i].files
             /\ map' = mark_dead_clients_in_group(map, working, moderator_client)
             /\ working' = working - Len(map[i].files)
             /\ UNCHANGED <<moderator_client, expected, result, clbusy, clients,
                            inbox>>
    <3>1. map' \in Seq(Entries(K)) /\ Len(map') = Len(map)
      BY <1>2, <2>2, MarkDeadType
    <3>2. map[i].files \in Seq(K)
      <4>1. map[i] \in Entries(K)
        BY <1>2, <2>2
      <4> QED
        BY <4>1 DEF Entries
    <3>3. working' \in Int /\ working' <= Len(map')
      <4>1. Len(map[i].files) \in Nat
        BY <3>2
      <4> QED
        BY <1>2, <2>2, <3>1, <4>1
    <3> QED
      BY <2>2, <3>1, <3>2, <3>3 DEF Types, ServerTypes
  <2> QED
    BY <1>1, <2>1, <2>2
<1> QED
  BY <1>1, <1>3, <1>4, Untouched, ClientsUntouched DEF Types

(* A free client becomes the new moderator, and the group is told.         *)
LEMMA TakeoverType ==
  ASSUME NEW K, Types(K), NEW c \in Client,
         ~RetransmitFails(map, working, c, dead_files)
  PROVE  /\ Takeover(c) \in Seq(Mail(K)) /\ Len(Takeover(c)) = 2
         /\ Takeover(c)[1].type = "update" /\ Takeover(c)[1].mod = c
         /\ Takeover(c)[1].expected = expected
         /\ Takeover(c)[2].type = "task" /\ Takeover(c)[2].again = TRUE
<1> DEFINE u == [type |-> "update", mod |-> c, ids |-> WorkingIds(map, working),
                 expected |-> expected]
           t == Retransmission(map, working, c, dead_files)
<1>1. /\ map \in Seq(Entries(K)) /\ working \in Int /\ working <= Len(map)
      /\ dead_files \in Seq(K) /\ expected \in Nat
  BY DEF Types, ServerTypes
<1>2. t \in Mail(K) /\ t.type = "task" /\ t.again = TRUE
  BY <1>1, RetransmissionType
<1>3. u \in Mail(K)
  <2>1. working >= 0
    BY <1>1 DEF RetransmitFails
  <2>2. \A i \in 1 .. working : map[i].who \in Ids
    <3>1. \A i \in 1 .. working : map[i] \in Entries(K)
      BY <1>1
    <3>2. \A e \in Entries(K) : e.who \in Ids
      BY DEF Entries
    <3> QED
      BY <3>1, <3>2
  <2>3. WorkingIds(map, working) \in Seq(Ids)
    BY <1>1, <2>1, <2>2 DEF WorkingIds
  <2> QED
    BY <1>1, <2>3 DEF Mail
<1>4. Takeover(c) = <<u, t>>
  BY DEF Takeover
<1>5. u.type = "update" /\ u.mod = c /\ u.expected = expected
  OBVIOUS
<1> HIDE DEF u, t
<1> QED
  BY <1>2, <1>3, <1>4, <1>5

(* The step of the new moderator.                                          *)
LEMMA NewModeratorTypes ==
  ASSUME NEW K, Types(K), NEW c \in Client, NewModerator(c)
  PROVE  Types(K)'
<1>1. UNCHANGED <<net, environment>>
  BY DEF NewModerator
<1>2. ServerTypes(K)' /\ inbox' \in [Client -> Seq(Mail(K))] /\ UNCHANGED clients
  <2>1. CASE ServerEnds
    BY <2>1, ServerEndsTypes DEF Types, MailTypes
  <2>2. CASE /\ ~RetransmitFails(map, working, c, dead_files)
             /\ fsm_state' = "running"
             /\ moderator_client' = c
             /\ clbusy' = clbusy \cup {c}
             /\ map' = Recorded(map, dead_files)
             /\ dead_files' = <<>>
             /\ Multicast(Takeover(c))
             /\ UNCHANGED <<working, expected, result, clients>>
    <3>1. inbox' \in [Client -> Seq(Mail(K))]
      BY <2>2, TakeoverType, MulticastType
    <3>2. map' \in Seq(Entries(K)) /\ Len(map') = Len(map)
      BY <2>2, RecordedType DEF Types, ServerTypes
    <3>3. <<>> \in Seq(K)
      OBVIOUS
    <3> QED
      BY <2>2, <3>1, <3>2, <3>3 DEF Types, ServerTypes, Ids
  <2> QED
    BY <2>1, <2>2 DEF NewModerator
<1> QED
  BY <1>1, <1>2, Untouched, ClientsUntouched DEF Types, MailTypes, environment

(* Deaths, failures and losses.                                            *)
LEMMA EnvironmentTypes ==
  ASSUME NEW K, Types(K),
         \/ \E c \in Client : \/ Die(c) \/ LoseMulticast(c)
                             \/ DeletionFails(c) \/ StartFails(c)
         \/ \E d \in BagToSet(net) : LoseDatagram(d)
  PROVE  Types(K)'
<1>0. /\ inbox \in [Client -> Seq(Mail(K))] /\ net \in Nets(K)
      /\ forced \in {"no", "yes"} /\ missed \subseteq Client
  BY DEF Types, MailTypes, FaultTypes
<1>1. ASSUME NEW c \in Client, Die(c)
      PROVE  Types(K)'
  BY <1>1, EndsTypes DEF Die
<1>4. ASSUME NEW c \in Client, DeletionFails(c) \/ StartFails(c)
      PROVE  Types(K)'
  BY <1>4, EndsTypes DEF DeletionFails, StartFails
<1>2. ASSUME NEW c \in Client, LoseMulticast(c)
      PROVE  Types(K)'
  <2>1. /\ UNCHANGED <<server, clients, net, alive, forced>> /\ HasMail(c)
        /\ inbox' = Took(c) /\ Fault("loss") /\ missed' = missed \cup {c}
    BY <1>2 DEF LoseMulticast
  <2>2. FaultTypes'
    BY <1>0, <2>1, FaultsType
  <2>3. MailTypes(K)'
    BY <1>0, <2>1, TookType DEF MailTypes
  <2> QED
    BY <2>1, <2>2, <2>3, Untouched, ClientsUntouched DEF Types
<1>3. ASSUME NEW d \in BagToSet(net), LoseDatagram(d)
      PROVE  Types(K)'
  <2>1. /\ UNCHANGED <<server, clients, inbox, alive, forced>>
        /\ net' = BagRemove(net, d) /\ Fault("loss") /\ missed' = missed \cup {d.from}
    BY <1>3 DEF LoseDatagram
  <2>2. d.from \in Client
    <3>1. d \in Msg(K)
      BY <1>0, NetIsBag
    <3> QED
      BY <3>1, MsgFacts
  <2>3. FaultTypes'
    BY <1>0, <2>1, <2>2, FaultsType
  <2>4. MailTypes(K)'
    BY <1>0, <2>1, BagRemoveNet DEF MailTypes
  <2> QED
    BY <2>1, <2>3, <2>4, Untouched, ClientsUntouched DEF Types
<1> QED
  BY <1>1, <1>2, <1>3, <1>4

(* Every step but the first report keeps the parts that are known.         *)
LEMMA StepTypes ==
  ASSUME NEW K \in SUBSET Client, Types(K), Next,
         ~(RcvReport /\ fsm_state = "selected")
  PROVE  Types(K)'
<1>1. ASSUME NEW c \in Client,
             \/ RcvNotify(c) \/ RcvHello(c) \/ RcvTask(c) \/ RcvUpdate(c)
             \/ RcvResult(c) \/ NotifyTimeout(c) \/ NotifyTimeoutIgnored(c)
             \/ Monitor(c) \/ ForceCleanup(c) \/ NewModerator(c)
      PROVE  Types(K)'
  BY <1>1, NotifyTypes, HelloTypes, TaskTypes, UpdateTypes, ResultTypes,
     TimeoutTypes, MonitorTypes, NewModeratorTypes
<1>2. ASSUME NEW c \in Client, NEW m \in Client, Heartbeat(c, m)
      PROVE  Types(K)'
  BY <1>2, HeartbeatTypes
<1>3. ASSUME NEW w \in workers,
             \/ WorkerCounts(w) \/ WorkerChecks(w) \/ WorkerStopsTimer(w)
             \/ WorkerReports(w) \/ WorkerCaches(w) \/ FetchFails(w)
      PROVE  Types(K)'
  BY <1>3, WorkerStepTypes
<1>4. ASSUME \/ \E c \in Client : \/ Die(c) \/ LoseMulticast(c)
                                 \/ DeletionFails(c) \/ StartFails(c)
             \/ \E d \in BagToSet(net) : LoseDatagram(d)
      PROVE  Types(K)'
  BY <1>4, EnvironmentTypes
<1>5. ASSUME RcvReport \/ RcvDead \/ RcvAnswer \/ ModeratorSilent
      PROVE  Types(K)'
  BY <1>5, ReportTypes, DeadTypes, AnswerTypes, SilentTypes
<1> QED
  BY <1>1, <1>2, <1>3, <1>4, <1>5 DEF Next

(* At first no part is known.                                              *)
LEMMA InitTypes ==
  ASSUME Init
  PROVE  Types({})
<1>1. /\ ServerTypes({}) /\ ClientTypes({})
  BY DEF Init, ServerTypes, ClientTypes, BeatTypes, Ids
<1>2. RoleTypes({}) /\ FaultTypes
  BY Bounds DEF Init, RoleTypes, FaultTypes
<1>3. WorkerTypes({})
  BY FS_EmptySet DEF Init, WorkerTypes
<1>4. net \in Nets({})
  <2>1. net = [x \in {} |-> 1]
    BY DEF Init, EmptyBag, SetToBag
  <2>2. net \in [{} -> Nat \ {0}]
    BY <2>1
  <2> QED
    BY <2>2, IsNet
<1>5. inbox \in [Client -> Seq(Mail({}))]
  <2>1. [type |-> "notify", mod |-> moderator_client] \in Mail({})
    BY DEF Init, Mail
  <2>2. <<[type |-> "notify", mod |-> moderator_client]>> \in Seq(Mail({}))
    BY <2>1, Single
  <2> QED
    BY <2>2 DEF Init
<1> QED
  BY <1>1, <1>2, <1>3, <1>4, <1>5 DEF Types, MailTypes

(* The types of TypeOK are those of a group that knows all its parts.      *)
LEMMA TypesOK ==
  ASSUME Types(Client)
  PROVE  TypeOK
<1>1. Roles(Client) \subseteq Role
  BY RolesAreRole
<1>2. Seq(Entries(Client)) = Seq([who : Client \cup {NULL}, files : Seq(Part)])
  BY DEF Entries, Ids, Part
<1> QED
  BY <1>1, <1>2 DEF TypeOK, Types, ServerTypes, RoleTypes, ClientTypes, BeatTypes,
     WorkerTypes, FaultTypes, Ids, Part

(* Every step keeps the types when every part is known.                    *)
LEMMA TypesStep ==
  ASSUME Types(Client), [Next]_vars
  PROVE  Types(Client)'
<1>1. CASE UNCHANGED vars
  BY <1>1, Untouched DEF vars, clients, environment, Types
<1>2. CASE RcvReport /\ fsm_state = "selected"
  <2>1. PICK s \in Seq(Client) : Types(Client \cup Range(s))'
    BY <1>2, ReportTypes
  <2>2. Client \cup Range(s) = Client
    BY DEF Range
  <2> QED
    BY <2>1, <2>2
<1>3. CASE Next /\ ~(RcvReport /\ fsm_state = "selected")
  BY <1>3, StepTypes
<1> QED
  BY <1>1, <1>2, <1>3

(* Every variable has its type in every state, for a group of any size,    *)
(* whatever dies, is lost or is given up: no list of the server or of a    *)
(* moderator ever holds an entry that is not one, and the indices with     *)
(* which retransmit_task_req_for_client and mark_dead_clients_in_group     *)
(* walk the map stay in it unless the server ends.                         *)
THEOREM TypeCorrect == Spec => []TypeOK
<1>1. Init => Types(Client)
  BY InitTypes, MoreParts
<1>2. Types(Client) /\ [Next]_vars => Types(Client)'
  BY TypesStep
<1>3. Types(Client) => TypeOK
  BY TypesOK
<1> QED
  BY <1>1, <1>2, <1>3, PTL DEF Spec
=============================================================================
