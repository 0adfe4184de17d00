-------------------------- MODULE MembershipProofs --------------------------
(***************************************************************************)
(* The server's lists and its backup, for any number of clients, servers   *)
(* and groups, whatever the faults and however many of them.  What a fold  *)
(* over checkpoints or groups does to the lists is told by its course: the *)
(* lists before the first step and after every one of them.                *)
(***************************************************************************)
EXTENDS Membership, FoldLemmas

(* In every group of a server a client is at most once, and the groups it  *)
(* is in are listed on its node, which exists while it lists any.          *)
Agrees(d) ==
  \A c \in Client :
    /\ d.capability[c] = 0 <=> d.grp_list[c] = <<>>
    /\ \A g \in Group :
         /\ IsInjective(d.client_info[g])
         /\ c \in Range(d.client_info[g]) => g \in Range(d.grp_list[c])

Sane == {d \in Lists : Agrees(d)}

(* The checkpoint of a join carries what the client drew.                  *)
Sound == {m \in Checkpoints :
            m.type = "ADD_CHECKPOINT" => m.capability \in Capability}

(* What adding a client to a group does to the groups' lists, and removing *)
(* it.                                                                     *)
Step(ci, m) ==
  [ci EXCEPT ![m.group] =
     IF m.type = "ADD_CHECKPOINT" THEN <<m.client>> \o RemoveFirst(@, m.client)
     ELSE RemoveFirst(@, m.client)]

(* What a sequence of checkpoints turns the groups' lists ci into is cj.   *)
Leads(ci, seq, cj) ==
  \E h : /\ h[0] = ci /\ h[Len(seq)] = cj
         /\ \A k \in 1 .. Len(seq) : h[k] = Step(h[k - 1], seq[k])

(* The inductive invariant of the lists: the checkpoints are sound, and    *)
(* none is on its way from a server whose backup has not been named.       *)
Consistent ==
  /\ db \in [Server -> Sane]
  /\ link \in [Server -> Seq(Sound)]
  /\ \A s \in Server : link[s] # <<>> => s \in standby

(* The inductive invariant of the backup: the checkpoints on their way     *)
(* lead from its groups to those of the server.                            *)
Mirroring ==
  \A s \in mirrored :
    Leads(db[BackupOf[s]].client_info, link[s], db[s].client_info)

----------------------------------------------------------------------------
(* The lists of an empty server agree.                                     *)
LEMMA InitSane == NoClients \in Sane
<1>1. <<>> \in Seq(Client) /\ <<>> \in Seq(Group) /\ 0 \in 0 .. Word - 1
  BY NumbersAssumption
<1>2. NoClients \in Lists
  BY <1>1 DEF NoClients, Lists
<1>3. DOMAIN <<>> = {}
  OBVIOUS
<1>4. Range(<<>>) = {} /\ IsInjective(<<>>)
  BY <1>3 DEF Range, IsInjective
<1>5. Agrees(NoClients)
  BY <1>4 DEF Agrees, NoClients
<1> QED
  BY <1>2, <1>5 DEF Sane

(* A client added to a group: the lists still agree.                       *)
LEMMA AddedSane ==
  ASSUME NEW d \in Sane, NEW g \in Group, NEW c \in Client, NEW k \in Capability
  PROVE  /\ Added(d, g, c, k) \in Sane
         /\ Added(d, g, c, k).client_info =
              Step(d.client_info, Checkpoint("ADD_CHECKPOINT", g, c, k))
<1> DEFINE e == Added(d, g, c, k)
           rest == RemoveFirst(d.client_info[g], c)
<1>1. /\ d \in Lists /\ Agrees(d)
      /\ d.client_info \in [Group -> Seq(Client)]
      /\ d.grp_capability \in [Group -> 0 .. Word - 1]
      /\ d.grp_list \in [Client -> Seq(Group)]
      /\ d.capability \in [Client -> Capability \cup {0}]
  BY DEF Sane, Lists
<1>2. /\ e.client_info = [d.client_info EXCEPT ![g] = <<c>> \o rest]
      /\ e.grp_capability = [d.grp_capability EXCEPT ![g] = (@ + k) % Word]
      /\ e.grp_list = [d.grp_list EXCEPT ![c] = <<g>> \o @]
      /\ e.capability = [d.capability EXCEPT ![c] = IF @ = 0 THEN k ELSE @]
      /\ e = [client_info |-> e.client_info, grp_capability |-> e.grp_capability,
              grp_list |-> e.grp_list, capability |-> e.capability]
  <2>1. PICK ci \in [Group -> Seq(Client)], gc \in [Group -> 0 .. Word - 1],
             gl \in [Client -> Seq(Group)], cap \in [Client -> Capability \cup {0}] :
           d = [client_info |-> ci, grp_capability |-> gc, grp_list |-> gl,
                capability |-> cap]
    BY <1>1 DEF Lists
  <2> DEFINE x == (gc[g] + k) % Word
             y == <<c>> \o rest
             z == <<g>> \o gl[c]
             w == IF cap[c] = 0 THEN k ELSE cap[c]
  <2>2. e = [d EXCEPT !.grp_capability[g] = x, !.client_info[g] = y,
                      !.grp_list[c] = z, !.capability[c] = w]
    BY <2>1 DEF Added
  <2>3. /\ d.client_info = ci /\ d.grp_capability = gc
        /\ d.grp_list = gl /\ d.capability = cap
    BY <2>1
  <2> HIDE DEF e, x, y, z, w
  <2>4. e = [client_info |-> [ci EXCEPT ![g] = y],
             grp_capability |-> [gc EXCEPT ![g] = x],
             grp_list |-> [gl EXCEPT ![c] = z],
             capability |-> [cap EXCEPT ![c] = w]]
    BY <2>1, <2>2
  <2>5. /\ e.client_info = [ci EXCEPT ![g] = y]
        /\ e.grp_capability = [gc EXCEPT ![g] = x]
        /\ e.grp_list = [gl EXCEPT ![c] = z]
        /\ e.capability = [cap EXCEPT ![c] = w]
        /\ e = [client_info |-> e.client_info, grp_capability |-> e.grp_capability,
                grp_list |-> e.grp_list, capability |-> e.capability]
    BY <2>4
  <2> QED
    BY <2>3, <2>5 DEF x, y, z, w
<1>3. /\ rest \in Seq(Client) /\ IsInjective(rest) /\ c \notin Range(rest)
      /\ Range(rest) \subseteq Range(d.client_info[g])
  <2>1. d.client_info[g] \in Seq(Client) /\ IsInjective(d.client_info[g])
    BY <1>1 DEF Agrees
  <2> QED
    BY <2>1, RemoveFirstElements
<1>4. /\ <<c>> \o rest \in Seq(Client) /\ IsInjective(<<c>> \o rest)
      /\ Range(<<c>> \o rest) = Range(rest) \cup {c}
  BY <1>3, ConsElements
<1>5. /\ <<g>> \o d.grp_list[c] \in Seq(Group) /\ <<g>> \o d.grp_list[c] # <<>>
      /\ Range(<<g>> \o d.grp_list[c]) = Range(d.grp_list[c]) \cup {g}
  <2>1. d.grp_list[c] \in Seq(Group)
    BY <1>1
  <2> QED
    BY <2>1, ConsElements
<1>6. k \in Capability /\ k # 0 /\ k \in Nat
  BY NumbersAssumption
<1>7. (d.grp_capability[g] + k) % Word \in 0 .. Word - 1
  <2>1. d.grp_capability[g] \in 0 .. Word - 1
    BY <1>1
  <2>2. Word \in Nat \ {0}
    BY NumbersAssumption
  <2> HIDE DEF e, rest
  <2> QED
    BY <1>6, <2>1, <2>2
<1> HIDE DEF e, rest
<1>8. e \in Lists
  <2>1. e.client_info \in [Group -> Seq(Client)]
    BY <1>1, <1>2, <1>4
  <2>2. e.grp_capability \in [Group -> 0 .. Word - 1]
    BY <1>1, <1>2, <1>7
  <2>3. e.grp_list \in [Client -> Seq(Group)]
    BY <1>1, <1>2, <1>5
  <2>4. e.capability \in [Client -> Capability \cup {0}]
    BY <1>1, <1>2
  <2> QED
    BY <1>2, <2>1, <2>2, <2>3, <2>4 DEF Lists
<1>9. Agrees(e)
  <2>1. ASSUME NEW b \in Client
        PROVE  e.capability[b] = 0 <=> e.grp_list[b] = <<>>
    <3>1. d.capability[b] = 0 <=> d.grp_list[b] = <<>>
      BY <1>1 DEF Agrees
    <3>2. CASE b = c
      BY <1>1, <1>2, <1>5, <1>6, <3>2
    <3>3. CASE b # c
      BY <1>1, <1>2, <3>1, <3>3
    <3> QED
      BY <3>2, <3>3
  <2>2. ASSUME NEW b \in Client, NEW h \in Group
        PROVE  /\ IsInjective(e.client_info[h])
               /\ b \in Range(e.client_info[h]) => h \in Range(e.grp_list[b])
    <3>1. /\ IsInjective(d.client_info[h])
          /\ b \in Range(d.client_info[h]) => h \in Range(d.grp_list[b])
      BY <1>1 DEF Agrees
    <3>2. e.client_info[h] = IF h = g THEN <<c>> \o rest ELSE d.client_info[h]
      BY <1>1, <1>2
    <3>3. e.grp_list[b] = IF b = c THEN <<g>> \o d.grp_list[c] ELSE d.grp_list[b]
      BY <1>1, <1>2
    <3>4. IsInjective(e.client_info[h])
      BY <1>4, <3>1, <3>2
    <3>5. ASSUME b \in Range(e.client_info[h])
          PROVE  h \in Range(e.grp_list[b])
      <4>1. (b = c /\ h = g) \/ b \in Range(d.client_info[h])
        BY <1>3, <1>4, <3>2, <3>5
      <4> QED
        BY <1>5, <3>1, <3>3, <4>1
    <3> QED
      BY <3>4, <3>5
  <2> QED
    BY <2>1, <2>2 DEF Agrees
<1>10. e.client_info = Step(d.client_info, Checkpoint("ADD_CHECKPOINT", g, c, k))
  BY <1>2 DEF Step, Checkpoint, rest
<1> QED
  BY <1>8, <1>9, <1>10 DEF Sane, e

(* A client removed from a group: the lists still agree, and it is in the  *)
(* group no more even if its node has not listed the group.                *)
LEMMA RemovedSane ==
  ASSUME NEW d \in Sane, NEW g \in Group, NEW c \in Client, NEW k
  PROVE  /\ Removed(d, g, c) \in Sane
         /\ Removed(d, g, c).client_info =
              Step(d.client_info, Checkpoint("DEL_CHECKPOINT", g, c, k))
<1> DEFINE e == Removed(d, g, c)
           others == RemoveFirst(d.client_info[g], c)
           rest == RemoveFirst(d.grp_list[c], g)
<1>1. /\ d \in Lists /\ Agrees(d)
      /\ d.client_info \in [Group -> Seq(Client)]
      /\ d.grp_capability \in [Group -> 0 .. Word - 1]
      /\ d.grp_list \in [Client -> Seq(Group)]
      /\ d.capability \in [Client -> Capability \cup {0}]
  BY DEF Sane, Lists
<1>2. Listed(d, g, c) <=> g \in Range(d.grp_list[c])
  BY DEF Listed, Range
<1>3. /\ others \in Seq(Client) /\ IsInjective(others) /\ c \notin Range(others)
      /\ Range(others) \subseteq Range(d.client_info[g])
      /\ c \notin Range(d.client_info[g]) => others = d.client_info[g]
  <2>1. d.client_info[g] \in Seq(Client) /\ IsInjective(d.client_info[g])
    BY <1>1 DEF Agrees
  <2> QED
    BY <2>1, RemoveFirstElements
<1>4. /\ rest \in Seq(Group)
      /\ Range(d.grp_list[c]) \subseteq Range(rest) \cup {g}
  <2>1. d.grp_list[c] \in Seq(Group)
    BY <1>1
  <2> QED
    BY <2>1, RemoveFirstElements
<1>5. Step(d.client_info, Checkpoint("DEL_CHECKPOINT", g, c, k))
        = [d.client_info EXCEPT ![g] = others]
  BY DEF Step, Checkpoint
<1>6. CASE ~Listed(d, g, c)
  <2>1. c \notin Range(d.client_info[g])
    BY <1>1, <1>2, <1>6 DEF Agrees
  <2>2. [d.client_info EXCEPT ![g] = others] = d.client_info
    BY <1>1, <1>3, <2>1
  <2> QED
    BY <1>5, <1>6, <2>2 DEF Removed
<1>7. CASE Listed(d, g, c)
  <2>1. /\ e.client_info = [d.client_info EXCEPT ![g] = others]
        /\ e.grp_capability = [d.grp_capability EXCEPT
                                 ![g] = (@ - d.capability[c]) % Word]
        /\ e.grp_list = [d.grp_list EXCEPT ![c] = rest]
        /\ e.capability = [d.capability EXCEPT
                             ![c] = IF rest = <<>> THEN 0 ELSE @]
        /\ e = [client_info |-> e.client_info, grp_capability |-> e.grp_capability,
                grp_list |-> e.grp_list, capability |-> e.capability]
    <3>1. PICK ci \in [Group -> Seq(Client)], gc \in [Group -> 0 .. Word - 1],
               gl \in [Client -> Seq(Group)], cap \in [Client -> Capability \cup {0}] :
             d = [client_info |-> ci, grp_capability |-> gc, grp_list |-> gl,
                  capability |-> cap]
      BY <1>1 DEF Lists
    <3> QED
      BY <1>7, <3>1 DEF Removed
  <2>2. (d.grp_capability[g] - d.capability[c]) % Word \in 0 .. Word - 1
    <3>1. d.grp_capability[g] \in 0 .. Word - 1 /\ d.capability[c] \in Int
      <4>1. \A k_ \in Capability \cup {0} : k_ \in Int
        BY NumbersAssumption
      <4> QED
        BY <1>1, <4>1
    <3>2. Word \in Nat \ {0}
      BY NumbersAssumption
    <3> HIDE DEF e, rest, others
    <3> QED
      BY <3>1, <3>2
  <2> HIDE DEF e, rest, others
  <2>3. e \in Lists
    <3>1. e.client_info \in [Group -> Seq(Client)]
      BY <1>1, <1>3, <2>1
    <3>2. e.grp_capability \in [Group -> 0 .. Word - 1]
      BY <1>1, <2>1, <2>2
    <3>3. e.grp_list \in [Client -> Seq(Group)]
      BY <1>1, <1>4, <2>1
    <3>4. e.capability \in [Client -> Capability \cup {0}]
      BY <1>1, <2>1
    <3> QED
      BY <2>1, <3>1, <3>2, <3>3, <3>4 DEF Lists
  <2>4. Agrees(e)
    <3>1. ASSUME NEW b \in Client
          PROVE  e.capability[b] = 0 <=> e.grp_list[b] = <<>>
      <4>1. d.capability[b] = 0 <=> d.grp_list[b] = <<>>
        BY <1>1 DEF Agrees
      <4>2. d.grp_list[c] # <<>>
        <5>1. DOMAIN <<>> = {}
          OBVIOUS
        <5> QED
          BY <1>7, <5>1 DEF Listed
      <4>3. CASE b = c
        <5>1. d.capability[c] # 0
          BY <4>1, <4>2, <4>3
        <5>2. e.grp_list[b] = rest
          BY <1>1, <2>1, <4>3
        <5>3. e.capability[b] = IF rest = <<>> THEN 0 ELSE d.capability[c]
          BY <1>1, <2>1, <4>3
        <5> QED
          BY <5>1, <5>2, <5>3
      <4>4. CASE b # c
        BY <1>1, <2>1, <4>1, <4>4
      <4> QED
        BY <4>3, <4>4
    <3>2. ASSUME NEW b \in Client, NEW h \in Group
          PROVE  /\ IsInjective(e.client_info[h])
                 /\ b \in Range(e.client_info[h]) => h \in Range(e.grp_list[b])
      <4>1. /\ IsInjective(d.client_info[h])
            /\ b \in Range(d.client_info[h]) => h \in Range(d.grp_list[b])
        BY <1>1 DEF Agrees
      <4>2. e.client_info[h] = IF h = g THEN others ELSE d.client_info[h]
        BY <1>1, <2>1
      <4>3. e.grp_list[b] = IF b = c THEN rest ELSE d.grp_list[b]
        BY <1>1, <2>1
      <4>4. IsInjective(e.client_info[h])
        BY <1>3, <4>1, <4>2
      <4>5. ASSUME b \in Range(e.client_info[h])
            PROVE  h \in Range(e.grp_list[b])
        <5>1. b \in Range(d.client_info[h]) /\ ~(b = c /\ h = g)
          BY <1>3, <4>2, <4>5
        <5> QED
          BY <1>4, <4>1, <4>3, <5>1
      <4> QED
        BY <4>4, <4>5
    <3> QED
      BY <3>1, <3>2 DEF Agrees
  <2>5. e.client_info = Step(d.client_info, Checkpoint("DEL_CHECKPOINT", g, c, k))
    BY <1>5, <2>1
  <2> QED
    BY <2>3, <2>4, <2>5 DEF Sane, e
<1> QED
  BY <1>6, <1>7
(* No checkpoints change nothing, and one does one step.                   *)
LEMMA LeadsOne ==
  ASSUME NEW ci, NEW m
  PROVE  Leads(ci, <<>>, ci) /\ Leads(ci, <<m>>, Step(ci, m))
<1>1. Leads(ci, <<>>, ci)
  <2> DEFINE h == [k \in {0} |-> ci]
  <2>1. h[0] = ci /\ Len(<<>>) = 0 /\ \A k \in 1 .. 0 : FALSE
    OBVIOUS
  <2> HIDE DEF h
  <2> QED
    BY <2>1 DEF Leads
<1>2. Leads(ci, <<m>>, Step(ci, m))
  <2> DEFINE h == [k \in {0, 1} |-> IF k = 0 THEN ci ELSE Step(ci, m)]
  <2>1. h[0] = ci /\ h[1] = Step(ci, m) /\ Len(<<m>>) = 1 /\ <<m>>[1] = m
    OBVIOUS
  <2>2. \A k \in 1 .. 1 : k = 1 /\ k - 1 = 0
    OBVIOUS
  <2> HIDE DEF h
  <2>3. \A k \in 1 .. 1 : h[k] = Step(h[k - 1], <<m>>[k])
    BY <2>1, <2>2
  <2> QED
    BY <2>1, <2>3 DEF Leads
<1> QED
  BY <1>1, <1>2

(* Checkpoints have one outcome.                                           *)
LEMMA LeadsUnique ==
  ASSUME NEW S, NEW seq \in Seq(S), NEW ci, NEW cj, NEW ck,
         Leads(ci, seq, cj), Leads(ci, seq, ck)
  PROVE  cj = ck
<1> DEFINE n == Len(seq)
<1>1. PICK h : /\ h[0] = ci /\ h[n] = cj
               /\ \A k \in 1 .. n : h[k] = Step(h[k - 1], seq[k])
  BY DEF Leads
<1>2. PICK j : /\ j[0] = ci /\ j[n] = ck
               /\ \A k \in 1 .. n : j[k] = Step(j[k - 1], seq[k])
  BY DEF Leads
<1>0. n \in Nat
  OBVIOUS
<1> DEFINE T == {k \in 0 .. n : h[k] = j[k]}
<1> HIDE DEF n
<1>3. 0 \in T
  BY <1>0, <1>1, <1>2
<1>4. ASSUME NEW k \in 0 .. n - 1, k \in T
      PROVE  k + 1 \in T
  <2>1. k + 1 \in 1 .. n /\ k + 1 \in 0 .. n /\ (k + 1) - 1 = k
    BY <1>0
  <2>2. h[k] = j[k]
    BY <1>4
  <2>3. h[k + 1] = Step(h[k], seq[k + 1]) /\ j[k + 1] = Step(j[k], seq[k + 1])
    BY <1>1, <1>2, <2>1
  <2> QED
    BY <2>1, <2>2, <2>3
<1>5. \A k \in 0 .. n : k \in T
  <2> HIDE DEF T
  <2> QED
    BY <1>0, <1>3, <1>4, Induction
<1> QED
  BY <1>0, <1>1, <1>2, <1>5

(* One sequence of checkpoints after another.                              *)
LEMMA LeadsConcat ==
  ASSUME NEW S, NEW s1 \in Seq(S), NEW s2 \in Seq(S), NEW ci, NEW cj, NEW ck,
         Leads(ci, s1, cj), Leads(cj, s2, ck)
  PROVE  Leads(ci, s1 \o s2, ck)
<1> DEFINE n == Len(s1)
           m == Len(s2)
           seq == s1 \o s2
<1>1. PICK h : /\ h[0] = ci /\ h[n] = cj
               /\ \A k \in 1 .. n : h[k] = Step(h[k - 1], s1[k])
  BY DEF Leads
<1>2. PICK j : /\ j[0] = cj /\ j[m] = ck
               /\ \A k \in 1 .. m : j[k] = Step(j[k - 1], s2[k])
  BY DEF Leads
<1> DEFINE f == [k \in 0 .. n + m |-> IF k <= n THEN h[k] ELSE j[k - n]]
<1>3. /\ n \in Nat /\ m \in Nat /\ Len(seq) = n + m
      /\ \A k \in 1 .. n + m : seq[k] = IF k <= n THEN s1[k] ELSE s2[k - n]
  BY ConcatProperties, LenProperties
<1> HIDE DEF n, m, seq
<1>4. f[0] = ci
  BY <1>1, <1>3
<1>5. f[n + m] = ck
  <2>1. CASE m = 0
    BY <1>1, <1>2, <1>3, <2>1
  <2>2. CASE m # 0
    <3>1. n + m \in 0 .. n + m /\ ~(n + m <= n) /\ (n + m) - n = m
      BY <1>3, <2>2
    <3> QED
      BY <1>2, <3>1
  <2> QED
    BY <2>1, <2>2
<1>6. ASSUME NEW k \in 1 .. n + m
      PROVE  f[k] = Step(f[k - 1], seq[k])
  <2>0. k \in 0 .. n + m /\ k - 1 \in 0 .. n + m
    BY <1>3
  <2>1. CASE k <= n
    <3>1. k \in 1 .. n /\ k - 1 <= n
      BY <1>3, <2>1
    <3> QED
      BY <1>1, <1>3, <2>0, <2>1, <3>1
  <2>2. CASE ~(k <= n)
    <3>1. k - n \in 1 .. m /\ (k - 1) - n = (k - n) - 1
      BY <1>3, <2>2
    <3>2. f[k] = j[k - n] /\ seq[k] = s2[k - n]
      BY <1>3, <2>0, <2>2
    <3>3. f[k - 1] = j[(k - n) - 1]
      <4>1. CASE k - 1 <= n
        <5>1. k - 1 = n /\ (k - n) - 1 = 0
          BY <1>3, <2>2, <4>1
        <5> QED
          BY <1>1, <1>2, <2>0, <4>1, <5>1
      <4>2. CASE ~(k - 1 <= n)
        BY <2>0, <3>1, <4>2
      <4> QED
        BY <4>1, <4>2
    <3> QED
      BY <1>2, <3>1, <3>2, <3>3
  <2> QED
    BY <2>1, <2>2
<1> HIDE DEF f
<1> QED
  BY <1>3, <1>4, <1>5, <1>6 DEF Leads, seq

(* The first checkpoint is received: the others lead from the lists it has *)
(* led to.                                                                 *)
LEMMA LeadsTail ==
  ASSUME NEW S, NEW seq \in Seq(S), seq # <<>>, NEW ci, NEW cj,
         Leads(ci, seq, cj)
  PROVE  Leads(Step(ci, Head(seq)), Tail(seq), cj)
<1> DEFINE n == Len(seq)
<1>1. PICK h : /\ h[0] = ci /\ h[n] = cj
               /\ \A k \in 1 .. n : h[k] = Step(h[k - 1], seq[k])
  BY DEF Leads
<1>2. /\ n \in Nat /\ n # 0 /\ Head(seq) = seq[1]
      /\ Len(Tail(seq)) = n - 1
      /\ \A k \in 1 .. n - 1 : Tail(seq)[k] = seq[k + 1]
  OBVIOUS
<1> DEFINE f == [k \in 0 .. n - 1 |-> h[k + 1]]
<1> HIDE DEF n
<1>3. f[0] = Step(ci, Head(seq))
  <2>1. 1 \in 1 .. n /\ 0 \in 0 .. n - 1 /\ 1 - 1 = 0 /\ 0 + 1 = 1
    BY <1>2
  <2> QED
    BY <1>1, <1>2, <2>1
<1>4. f[n - 1] = cj
  <2>1. n - 1 \in 0 .. n - 1 /\ (n - 1) + 1 = n
    BY <1>2
  <2> QED
    BY <1>1, <2>1
<1>5. ASSUME NEW k \in 1 .. n - 1
      PROVE  f[k] = Step(f[k - 1], Tail(seq)[k])
  <2>1. /\ k + 1 \in 1 .. n /\ (k + 1) - 1 = k /\ k \in 0 .. n - 1
        /\ k - 1 \in 0 .. n - 1 /\ (k - 1) + 1 = k
    BY <1>2
  <2> QED
    BY <1>1, <1>2, <2>1
<1> HIDE DEF f
<1> QED
  BY <1>2, <1>3, <1>4, <1>5 DEF Leads
(* A checkpoint received at a server whose lists agree.                    *)
LEMMA ReplayedSane ==
  ASSUME NEW d \in Sane, NEW m \in Sound
  PROVE  /\ Replayed(d, m) \in Sane
         /\ Replayed(d, m).client_info = Step(d.client_info, m)
<1>1. /\ m.group \in Group /\ m.client \in Client
      /\ m.type \in {"ADD_CHECKPOINT", "DEL_CHECKPOINT"}
      /\ m.type = "ADD_CHECKPOINT" => m.capability \in Capability
  BY DEF Sound, Checkpoints
<1>2. \A type, k : Step(d.client_info, Checkpoint(type, m.group, m.client, k))
        = [d.client_info EXCEPT ![m.group] =
             IF type = "ADD_CHECKPOINT" THEN <<m.client>> \o RemoveFirst(@, m.client)
             ELSE RemoveFirst(@, m.client)]
  BY DEF Step, Checkpoint
<1>3. CASE m.type = "ADD_CHECKPOINT"
  <2>1. /\ Added(d, m.group, m.client, m.capability) \in Sane
        /\ Added(d, m.group, m.client, m.capability).client_info =
             Step(d.client_info, Checkpoint("ADD_CHECKPOINT", m.group, m.client,
                                            m.capability))
    BY <1>1, <1>3, AddedSane
  <2> QED
    BY <1>2, <1>3, <2>1 DEF Replayed, Step
<1>4. CASE m.type = "DEL_CHECKPOINT"
  <2>1. /\ Removed(d, m.group, m.client) \in Sane
        /\ Removed(d, m.group, m.client).client_info =
             Step(d.client_info, Checkpoint("DEL_CHECKPOINT", m.group, m.client, 0))
    BY <1>1, RemovedSane
  <2> QED
    BY <1>2, <1>4, <2>1 DEF Replayed, Step
<1> QED
  BY <1>1, <1>3, <1>4

(* The same checkpoint received twice changes no group more than once.     *)
LEMMA StepTwice ==
  ASSUME NEW d \in Sane, NEW m \in Sound
  PROVE  Step(Step(d.client_info, m), m) = Step(d.client_info, m)
<1> DEFINE c == m.client
           g == m.group
           ci == d.client_info
           rest == RemoveFirst(ci[g], c)
<1>1. /\ g \in Group /\ c \in Client
      /\ ci \in [Group -> Seq(Client)] /\ IsInjective(ci[g])
  BY DEF Sane, Lists, Agrees, Sound, Checkpoints
<1>2. rest \in Seq(Client) /\ c \notin Range(rest) /\ IsInjective(rest)
  <2>1. ci[g] \in Seq(Client)
    BY <1>1
  <2> QED
    BY <1>1, <2>1, RemoveFirstElements
<1>3. RemoveFirst(rest, c) = rest
  BY <1>2, RemoveFirstElements
<1>4. RemoveFirst(<<c>> \o rest, c) = rest
  <2> DEFINE s == <<c>> \o rest
  <2>1. /\ s \in Seq(Client) /\ Len(s) = Len(rest) + 1 /\ s[1] = c
        /\ \A j \in 1 .. Len(rest) : s[j + 1] = rest[j]
    <3>1. <<c>> \in Seq(Client) /\ Len(<<c>>) = 1 /\ <<c>>[1] = c
      BY <1>1
    <3> HIDE DEF rest
    <3> QED
      BY <1>2, <3>1
  <2>2. Len(rest) \in Nat /\ DOMAIN rest = 1 .. Len(rest)
    BY <1>2
  <2> HIDE DEF s, rest
  <2>3. \E i \in 1 .. Len(s) : s[i] = c
    <3>1. 1 \in 1 .. Len(s)
      BY <2>1, <2>2
    <3> QED
      BY <2>1, <3>1
  <2>4. PICK i \in 1 .. Len(s) : s[i] = c /\ RemoveFirst(s, c) = RemoveAt(s, i)
    BY <2>1, <2>3, RemoveFirstAt
  <2>5. i = 1
    <3>1. ASSUME i # 1
          PROVE  FALSE
      <4>1. i - 1 \in 1 .. Len(rest) /\ (i - 1) + 1 = i
        BY <2>1, <2>2, <3>1
      <4>2. rest[i - 1] = c
        BY <2>1, <2>4, <4>1
      <4> QED
        BY <1>2, <2>2, <4>1, <4>2 DEF Range
    <3> QED
      BY <3>1
  <2>6. /\ RemoveAt(s, 1) \in Seq(Client) /\ Len(RemoveAt(s, 1)) = Len(rest)
        /\ \A j \in 1 .. Len(rest) : RemoveAt(s, 1)[j] = rest[j]
    <3>1. 1 \in 1 .. Len(s) /\ Len(s) - 1 = Len(rest)
      BY <2>1, <2>2
    <3>2. /\ RemoveAt(s, 1) \in Seq(Client) /\ Len(RemoveAt(s, 1)) = Len(s) - 1
          /\ \A j \in 1 .. Len(s) - 1 :
               RemoveAt(s, 1)[j] = IF j < 1 THEN s[j] ELSE s[j + 1]
      BY <2>1, <3>1, RemoveAtElements
    <3> QED
      BY <2>1, <2>2, <3>1, <3>2
  <2>7. RemoveAt(s, 1) = rest
    BY <1>2, <2>6, SeqEqual
  <2> QED
    BY <2>4, <2>5, <2>7 DEF s
<1> HIDE DEF ci, g, c, rest
<1>5. CASE m.type = "ADD_CHECKPOINT"
  <2>1. Step(ci, m) = [ci EXCEPT ![g] = <<c>> \o rest]
    BY <1>5 DEF Step, g, c, rest
  <2>2. Step(ci, m)[g] = <<c>> \o rest
    BY <1>1, <2>1
  <2>3. Step(Step(ci, m), m) = [Step(ci, m) EXCEPT ![g] = <<c>> \o rest]
    BY <1>4, <1>5, <2>2 DEF Step, g, c
  <2> QED
    BY <1>1, <2>1, <2>3 DEF ci
<1>6. CASE m.type # "ADD_CHECKPOINT"
  <2>1. Step(ci, m) = [ci EXCEPT ![g] = rest]
    BY <1>6 DEF Step, g, c, rest
  <2>2. Step(ci, m)[g] = rest
    BY <1>1, <2>1
  <2>3. Step(Step(ci, m), m) = [Step(ci, m) EXCEPT ![g] = rest]
    BY <1>3, <1>6, <2>2 DEF Step, g, c
  <2> QED
    BY <1>1, <2>1, <2>3 DEF ci
<1> QED
  BY <1>5, <1>6

(* A course over lists that agree is one over the groups' lists.           *)
LEMMA CourseLeads ==
  ASSUME NEW seq \in Seq(Sound), NEW h \in [0 .. Len(seq) -> Sane],
         \A k \in 1 .. Len(seq) :
           h[k].client_info = Step(h[k - 1].client_info, seq[k])
  PROVE  Leads(h[0].client_info, seq, h[Len(seq)].client_info)
<1> DEFINE n == Len(seq)
           f == [k \in 0 .. n |-> h[k].client_info]
<1>1. n \in Nat
  OBVIOUS
<1>2. \A k \in 1 .. n : h[k].client_info = Step(h[k - 1].client_info, seq[k])
  OBVIOUS
<1> HIDE DEF n
<1>3. f[0] = h[0].client_info /\ f[n] = h[n].client_info
  BY <1>1
<1>4. ASSUME NEW k \in 1 .. n
      PROVE  f[k] = Step(f[k - 1], seq[k])
  <2>1. k - 1 \in 0 .. n /\ k \in 0 .. n
    BY <1>1
  <2> QED
    BY <1>2, <2>1
<1> HIDE DEF f
<1> QED
  BY <1>3, <1>4 DEF Leads, n

(* Checkpoints received one after the other.                               *)
LEMMA ReplayedFold ==
  ASSUME NEW d \in Sane, NEW seq \in Seq(Sound)
  PROVE  Leads(d.client_info, seq, FoldLeft(Replayed, d, seq).client_info)
<1> DEFINE n == Len(seq)
           step == [x \in (1 .. n) \X Sane |-> Replayed(x[2], seq[x[1]])]
           it == CHOOSE f : f = [s \in SUBSET (1 .. n) |->
                   IF s = {} THEN d
                   ELSE Replayed(f[s \ {Max(s)}], seq[Max(s)])]
<1>1. n \in Nat /\ DOMAIN seq = 1 .. n /\ \A k \in 1 .. n : seq[k] \in Sound
  OBVIOUS
<1>2. step \in [(1 .. n) \X Sane -> Sane]
  <2>1. \A k \in 1 .. n, v \in Sane : Replayed(v, seq[k]) \in Sane
    BY <1>1, ReplayedSane
  <2> QED
    BY <2>1
<1>3. PICK f : IsFold(f, n, Sane, d, step)
  <2> HIDE DEF step, n
  <2> QED
    BY <1>1, <1>2, FoldExists
<1>4. \A s \in SUBSET (1 .. n) : s # {} =>
        Max(s) \in 1 .. n /\ s \ {Max(s)} \in SUBSET (1 .. n)
  <2>1. \A s \in SUBSET (1 .. n) : s \subseteq 0 .. n
    OBVIOUS
  <2> QED
    BY <1>1, <2>1, MaxIn
<1>5. f = [s \in SUBSET (1 .. n) |->
             IF s = {} THEN d ELSE Replayed(f[s \ {Max(s)}], seq[Max(s)])]
  BY <1>3, <1>4 DEF IsFold
<1>6. it = [s \in SUBSET (1 .. n) |->
              IF s = {} THEN d ELSE Replayed(it[s \ {Max(s)}], seq[Max(s)])]
  <2> HIDE DEF n
  <2> QED
    BY <1>5
<1>7. FoldLeft(Replayed, d, seq) = it[1 .. n]
  BY <1>1 DEF FoldLeft, MapThenFoldSet
<1>8. \A k \in 1 .. n, e \in Sane :
        step[<<k, e>>].client_info = Step(e.client_info, seq[k])
  BY <1>1, ReplayedSane
<1>9. \A s \in SUBSET (1 .. n) : s # {} /\ it[s \ {Max(s)}] \in Sane =>
        it[s] = step[<<Max(s), it[s \ {Max(s)}]>>]
  <2> HIDE DEF it, n
  <2> QED
    BY <1>4, <1>6
<1>10. TakesSteps(it, n, Sane, d, step)
  <2> HIDE DEF it, n
  <2>1. it[{}] = d
    BY <1>6
  <2> HIDE DEF step
  <2> QED
    BY <1>1, <1>2, <1>9, <2>1 DEF TakesSteps
<1>11. PICK h : IsCourse(h, n, Sane, d, step) /\ h[n] = it[1 .. n]
  <2> HIDE DEF it, step, n
  <2>1. EndsAt(it[1 .. n], n, Sane, d, step)
    BY <1>10, CourseOfFold
  <2> QED
    BY <2>1 DEF EndsAt
<1>12. /\ h \in [0 .. n -> Sane] /\ h[0] = d
       /\ \A k \in 1 .. n : h[k] = step[<<k, h[k - 1]>>]
  BY <1>11 DEF IsCourse
<1>13. \A k \in 1 .. n : h[k].client_info = Step(h[k - 1].client_info, seq[k])
  <2> HIDE DEF it, step, n
  <2>1. \A k \in 1 .. n : k - 1 \in 0 .. n
    BY <1>1
  <2> QED
    BY <1>8, <1>12, <2>1
<1>14. Leads(d.client_info, seq, h[n].client_info)
  <2> HIDE DEF it, step
  <2> QED
    BY <1>12, <1>13, CourseLeads
<1> QED
  BY <1>7, <1>11, <1>14

(* A client joins groups one after the other: the lists it goes through.   *)
LEMMA JoinedCourse ==
  ASSUME NEW d \in Sane, NEW groups \in Seq(Group), NEW c \in Client,
         NEW k \in Capability
  PROVE  \E h \in [0 .. Len(groups) -> Sane] :
           /\ h[0] = d /\ h[Len(groups)] = Joined(d, groups, c, k)
           /\ \A i \in 1 .. Len(groups) : h[i] = Added(h[i - 1], groups[i], c, k)
<1> DEFINE n == Len(groups)
           step == [x \in (1 .. n) \X Sane |-> Added(x[2], groups[x[1]], c, k)]
           it == CHOOSE f : f = [s \in SUBSET (1 .. n) |->
                   IF s = {} THEN d
                   ELSE Added(f[s \ {Max(s)}], groups[Max(s)], c, k)]
<1>1. n \in Nat /\ DOMAIN groups = 1 .. n /\ \A i \in 1 .. n : groups[i] \in Group
  OBVIOUS
<1>2. step \in [(1 .. n) \X Sane -> Sane]
  <2>1. \A i \in 1 .. n, v \in Sane : Added(v, groups[i], c, k) \in Sane
    BY <1>1, AddedSane
  <2> QED
    BY <2>1
<1>3. PICK f : IsFold(f, n, Sane, d, step)
  <2> HIDE DEF step, n
  <2> QED
    BY <1>1, <1>2, FoldExists
<1>4. \A s \in SUBSET (1 .. n) : s # {} =>
        Max(s) \in 1 .. n /\ s \ {Max(s)} \in SUBSET (1 .. n)
  <2>1. \A s \in SUBSET (1 .. n) : s \subseteq 0 .. n
    OBVIOUS
  <2> QED
    BY <1>1, <2>1, MaxIn
<1>5. f = [s \in SUBSET (1 .. n) |->
             IF s = {} THEN d ELSE Added(f[s \ {Max(s)}], groups[Max(s)], c, k)]
  BY <1>3, <1>4 DEF IsFold
<1>6. it = [s \in SUBSET (1 .. n) |->
              IF s = {} THEN d ELSE Added(it[s \ {Max(s)}], groups[Max(s)], c, k)]
  <2> HIDE DEF n
  <2> QED
    BY <1>5
<1>7. Joined(d, groups, c, k) = it[1 .. n]
  BY <1>1 DEF Joined, FoldLeft, MapThenFoldSet
<1>9. \A s \in SUBSET (1 .. n) : s # {} /\ it[s \ {Max(s)}] \in Sane =>
        it[s] = step[<<Max(s), it[s \ {Max(s)}]>>]
  <2> HIDE DEF it, n
  <2> QED
    BY <1>4, <1>6
<1>10. TakesSteps(it, n, Sane, d, step)
  <2> HIDE DEF it, n
  <2>1. it[{}] = d
    BY <1>6
  <2> HIDE DEF step
  <2> QED
    BY <1>1, <1>2, <1>9, <2>1 DEF TakesSteps
<1>11. PICK h : IsCourse(h, n, Sane, d, step) /\ h[n] = it[1 .. n]
  <2> HIDE DEF it, step, n
  <2>1. EndsAt(it[1 .. n], n, Sane, d, step)
    BY <1>10, CourseOfFold
  <2> QED
    BY <2>1 DEF EndsAt
<1>12. /\ h \in [0 .. n -> Sane] /\ h[0] = d
       /\ \A i \in 1 .. n : h[i] = step[<<i, h[i - 1]>>]
  BY <1>11 DEF IsCourse
<1>13. \A i \in 1 .. n : h[i] = Added(h[i - 1], groups[i], c, k)
  <2> HIDE DEF it, n
  <2>1. \A i \in 1 .. n : i - 1 \in 0 .. n
    BY <1>1
  <2>2. \A i \in 1 .. n : h[i - 1] \in Sane
    BY <1>12, <2>1
  <2>3. \A i \in 1 .. n, e \in Sane : step[<<i, e>>] = Added(e, groups[i], c, k)
    OBVIOUS
  <2> HIDE DEF step
  <2> QED
    BY <1>12, <2>2, <2>3
<1> HIDE DEF it, step
<1> QED
  BY <1>7, <1>11, <1>12, <1>13

(* The lists still agree, and the checkpoints that tell of the joins lead  *)
(* to the same groups' lists.                                              *)
LEMMA JoinedFold ==
  ASSUME NEW d \in Sane, NEW groups \in Seq(Group), NEW c \in Client,
         NEW k \in Capability, NEW seq,
         seq = [i \in DOMAIN groups |-> Checkpoint("ADD_CHECKPOINT", groups[i], c, k)]
  PROVE  /\ seq \in Seq(Sound)
         /\ Joined(d, groups, c, k) \in Sane
         /\ Leads(d.client_info, seq, Joined(d, groups, c, k).client_info)
<1> DEFINE n == Len(groups)
<1>1. n \in Nat /\ DOMAIN groups = 1 .. n /\ \A i \in 1 .. n : groups[i] \in Group
  OBVIOUS
<1>2. /\ seq \in Seq(Sound) /\ Len(seq) = n
      /\ \A i \in 1 .. n : seq[i] = Checkpoint("ADD_CHECKPOINT", groups[i], c, k)
  <2>1. \A i \in 1 .. n : Checkpoint("ADD_CHECKPOINT", groups[i], c, k) \in Sound
    BY <1>1 DEF Checkpoint, Sound, Checkpoints
  <2> HIDE DEF n
  <2>2. seq \in [1 .. n -> Sound]
    BY <1>1, <2>1
  <2> QED
    BY <1>1, <2>2
<1>3. PICK h \in [0 .. n -> Sane] :
        /\ h[0] = d /\ h[n] = Joined(d, groups, c, k)
        /\ \A i \in 1 .. n : h[i] = Added(h[i - 1], groups[i], c, k)
  BY JoinedCourse
<1> HIDE DEF n
<1>4. \A i \in 1 .. n : h[i].client_info = Step(h[i - 1].client_info, seq[i])
  <2>1. \A i \in 1 .. n : i - 1 \in 0 .. n
    BY <1>1
  <2>2. \A i \in 1 .. n : h[i - 1] \in Sane
    BY <2>1
  <2> QED
    BY <1>1, <1>2, <1>3, <2>2, AddedSane
<1>5. Leads(h[0].client_info, seq, h[n].client_info)
  BY <1>2, <1>4, CourseLeads
<1>6. h[n] \in Sane
  BY <1>1
<1> QED
  BY <1>2, <1>3, <1>5, <1>6

(* Once a name of the request is known, every later name is taken for it   *)
(* or for a later one: the places of the accepted names are a suffix.      *)
LEMMA ResolvedType ==
  ASSUME NEW names \in Seq(Names), NEW i \in 1 .. Len(names)
  PROVE  /\ Resolved(names, i) \in Group \cup {NULL}
         /\ \A j \in 1 .. i : Resolved(names, j) # NULL => Resolved(names, i) \in Group
<1> DEFINE Known(j) == {k \in 1 .. j : names[k] \in Group}
<1>1. ASSUME NEW j \in 1 .. Len(names), Known(j) # {}
      PROVE  Resolved(names, j) \in Group
  <2>1. Known(j) \subseteq 0 .. j /\ j \in Nat
    OBVIOUS
  <2>2. Max(Known(j)) \in Known(j)
    <3> HIDE DEF Known
    <3> QED
      BY <1>1, <2>1, MaxIn
  <2> QED
    BY <1>1, <2>2 DEF Resolved
<1>2. \A j \in 1 .. Len(names) : Known(j) = {} => Resolved(names, j) = NULL
  BY DEF Resolved
<1>3. \A j \in 1 .. i : j \in 1 .. Len(names) /\ Known(j) \subseteq Known(i)
  OBVIOUS
<1> HIDE DEF Known
<1> QED
  BY <1>1, <1>2, <1>3, NamesAssumption

(* The names of a join request that are accepted, and their groups.        *)
LEMMA GroupsType ==
  ASSUME NEW names \in Seq(Names)
  PROVE  Groups(names) \in Seq(Group) /\ Accepts(names) \in Seq(Names)
<1> DEFINE n == Len(names)
           from == AcceptedFrom(names)
<1>1. /\ n \in Nat /\ DOMAIN names = 1 .. n
      /\ \A i \in 1 .. n : names[i] \in Names
  OBVIOUS
<1>2. /\ from \in 1 .. n + 1
      /\ from \in 1 .. n => Resolved(names, from) # NULL
  <2>1. CASE Accepted(names) = {}
    BY <1>1, <2>1 DEF AcceptedFrom
  <2>2. CASE Accepted(names) # {}
    <3>1. Accepted(names) \subseteq 1 .. n /\ Accepted(names) \subseteq Nat
      BY <1>1 DEF Accepted
    <3>2. Min(Accepted(names)) \in Accepted(names)
      BY <2>2, <3>1, MinIn
    <3>3. from \in Accepted(names)
      BY <2>2, <3>2 DEF AcceptedFrom
    <3> QED
      BY <1>1, <3>1, <3>3 DEF Accepted
  <2> QED
    BY <2>1, <2>2
<1>3. ASSUME NEW i \in from .. n
      PROVE  Resolved(names, i) \in Group
  <2>1. from \in 1 .. n /\ from \in 1 .. i /\ i \in 1 .. n
    BY <1>1, <1>2
  <2> HIDE DEF n, from
  <2> QED
    BY <1>2, <2>1, ResolvedType DEF n
<1>4. /\ Accepts(names) \in Seq(Names)
      /\ Len(Accepts(names)) = (n - from) + 1
  <2>1. \A i \in from .. n : names[i] \in Names
    BY <1>1, <1>2
  <2> HIDE DEF from
  <2>2. SubSeq(names, from, n) \in Seq(Names)
    BY <1>1, <1>2, <2>1, SubSeqProperties
  <2>3. Len(SubSeq(names, from, n)) = (n - from) + 1
    BY <1>1, <1>2
  <2> QED
    BY <2>2, <2>3 DEF Accepts, from
<1>5. \A i \in 1 .. (n - from) + 1 : Resolved(names, from + (i - 1)) \in Group
  <2>1. \A i \in 1 .. (n - from) + 1 : from + (i - 1) \in from .. n
    BY <1>1, <1>2
  <2> HIDE DEF from, n
  <2> QED
    BY <1>3, <2>1
<1>6. Groups(names) = [i \in 1 .. (n - from) + 1 |-> Resolved(names, from + (i - 1))]
  <2>1. Groups(names) = [i \in 1 .. Len(Accepts(names)) |->
                           Resolved(names, from + (i - 1))]
    BY DEF Groups
  <2> QED
    BY <1>4, <2>1, Zenon
<1>7. (n - from) + 1 \in Nat
  BY <1>1, <1>2
<1> HIDE DEF from, n
<1> QED
  BY <1>4, <1>5, <1>6, <1>7

(* A client written off stays where it is.                                 *)
LEMMA WrittenOffSane ==
  ASSUME NEW d \in Sane, NEW g \in Group, NEW k \in Capability \cup {0}, NEW e,
         e = [d EXCEPT !.grp_capability[g] = (@ - k) % Word]
  PROVE  e \in Sane /\ e.client_info = d.client_info
<1>1. d \in Lists /\ Agrees(d)
  BY DEF Sane
<1>2. PICK ci \in [Group -> Seq(Client)], gc \in [Group -> 0 .. Word - 1],
           gl \in [Client -> Seq(Group)], cap \in [Client -> Capability \cup {0}] :
         d = [client_info |-> ci, grp_capability |-> gc, grp_list |-> gl,
              capability |-> cap]
  BY <1>1 DEF Lists
<1> DEFINE x == (gc[g] - k) % Word
<1>3. e = [client_info |-> ci, grp_capability |-> [gc EXCEPT ![g] = x],
           grp_list |-> gl, capability |-> cap]
  BY <1>2
<1>4. x \in 0 .. Word - 1
  <2>1. gc[g] \in 0 .. Word - 1
    OBVIOUS
  <2>2. Word \in Nat \ {0} /\ \A j \in Capability \cup {0} : j \in Int
    BY NumbersAssumption
  <2> QED
    BY <2>1, <2>2
<1> HIDE DEF x
<1>5. e \in Lists
  <2>1. [gc EXCEPT ![g] = x] \in [Group -> 0 .. Word - 1]
    BY <1>4
  <2> DEFINE gc2 == [gc EXCEPT ![g] = x]
  <2>2. gc2 \in [Group -> 0 .. Word - 1]
    BY <2>1
  <2> HIDE DEF gc2
  <2>3. [client_info |-> ci, grp_capability |-> gc2, grp_list |-> gl,
         capability |-> cap] \in Lists
    BY <2>2 DEF Lists
  <2> QED
    BY <1>3, <2>3, Zenon DEF gc2
<1>6. Agrees(e)
  BY <1>1, <1>2, <1>3 DEF Agrees
<1> QED
  BY <1>2, <1>3, <1>5, <1>6 DEF Sane

(* Two checkpoints change places.                                          *)
LEMMA OvertakenType ==
  ASSUME NEW S, NEW seq \in Seq(S), Len(seq) > 1
  PROVE  <<seq[2], seq[1]>> \o SubSeq(seq, 3, Len(seq)) \in Seq(S)
<1>1. seq[1] \in S /\ seq[2] \in S
  OBVIOUS
<1>2. <<seq[2], seq[1]>> \in Seq(S)
  BY <1>1
<1>3. \A i \in 3 .. Len(seq) : seq[i] \in S
  OBVIOUS
<1>4. SubSeq(seq, 3, Len(seq)) \in Seq(S)
  BY <1>3, SubSeqProperties
<1> QED
  BY <1>2, <1>4, ConcatProperties
----------------------------------------------------------------------------
(* What the actions that change the lists or the checkpoints do to them.   *)
LEMMA JoinStep ==
  ASSUME TypeOK, Consistent, NEW r \in requests, RcvJoin(r)
  PROVE  /\ r.to \in Server
         /\ mirrored' = mirrored \ Straying(r.to)
         /\ \E d \in Sane, seq \in Seq(Sound) :
              /\ Leads(db[r.to].client_info, seq, d.client_info)
              /\ db' = [db EXCEPT ![r.to] = d]
              /\ link' = [link EXCEPT ![r.to] = IF r.to \in standby THEN @ \o seq ELSE @]
<1> DEFINE groups == Groups(r.names)
           k == r.capability
           c == r.from
           seq == [i \in DOMAIN groups |-> Checkpoint("ADD_CHECKPOINT", groups[i], c, k)]
           d == Joined(db[r.to], groups, c, k)
<1>1. r.to \in Server /\ c \in Client /\ k \in Capability /\ r.names \in Seq(Names)
  BY DEF TypeOK, Requests
<1>2. db[r.to] \in Sane
  BY <1>1 DEF Consistent
<1>3. groups \in Seq(Group)
  BY <1>1, GroupsType
<1>4. /\ db' = [db EXCEPT ![r.to] = d]
      /\ link' = [link EXCEPT ![r.to] = IF r.to \in standby THEN @ \o seq ELSE @]
      /\ mirrored' = mirrored \ Straying(r.to)
  BY DEF RcvJoin, Send
<1>5. seq \in Seq(Sound) /\ d \in Sane /\ Leads(db[r.to].client_info, seq, d.client_info)
  <2> HIDE DEF groups, k, c
  <2> QED
    BY <1>1, <1>2, <1>3, JoinedFold
<1> HIDE DEF groups, k, c, seq, d
<1> QED
  BY <1>1, <1>4, <1>5

(* A leave that is granted is a step of the server's own, and told to the  *)
(* backup.                                                                 *)
LEMMA LeaveStep ==
  ASSUME TypeOK, Consistent, NEW r \in requests, RcvLeave(r)
  PROVE  \/ UNCHANGED <<db, link, mirrored>>
         \/ /\ r.to \in Server
            /\ mirrored' = mirrored \ Straying(r.to)
            /\ \E d \in Sane, seq \in Seq(Sound) :
                 /\ Leads(db[r.to].client_info, seq, d.client_info)
                 /\ db' = [db EXCEPT ![r.to] = d]
                 /\ link' = [link EXCEPT ![r.to] = IF r.to \in standby THEN @ \o seq
                                                   ELSE @]
<1> DEFINE n == r.names[1]
           c == r.from
           k == db[r.to].capability[c]
           m == Checkpoint("DEL_CHECKPOINT", n, c, k)
           d == Removed(db[r.to], n, c)
<1>1. r.to \in Server /\ c \in Client
  BY DEF TypeOK, Requests
<1>2. db[r.to] \in Sane
  BY <1>1 DEF Consistent
<1>3. CASE ~Listed(db[r.to], n, c)
  BY <1>3 DEF RcvLeave
<1>4. CASE Listed(db[r.to], n, c)
  <2>1. /\ db' = [db EXCEPT ![r.to] = d]
        /\ link' = [link EXCEPT ![r.to] = IF r.to \in standby THEN @ \o <<m>> ELSE @]
        /\ mirrored' = mirrored \ Straying(r.to)
    BY <1>4 DEF RcvLeave, Send
  <2>2. n \in Group
    <3>1. db[r.to].grp_list[c] \in Seq(Group)
      BY <1>1, <1>2 DEF Sane, Lists
    <3> QED
      BY <1>4, <3>1 DEF Listed
  <2>3. k \in Capability \cup {0}
    BY <1>1, <1>2 DEF Sane, Lists
  <2>4. m \in Sound
    <3> HIDE DEF n, c, k
    <3> QED
      BY <1>1, <2>2, <2>3 DEF Sound, Checkpoints, Checkpoint
  <2>5. d \in Sane /\ d.client_info = Step(db[r.to].client_info, m)
    <3> HIDE DEF n, c, k
    <3> QED
      BY <1>1, <1>2, <2>2, RemovedSane
  <2>6. <<m>> \in Seq(Sound) /\ Leads(db[r.to].client_info, <<m>>, d.client_info)
    <3> HIDE DEF m, d
    <3> QED
      BY <2>4, <2>5, LeadsOne
  <2> HIDE DEF m, d
  <2> QED
    BY <1>1, <2>1, <2>5, <2>6
<1> QED
  BY <1>3, <1>4

(* A checkpoint received: a step of the backup, which tells its own backup *)
(* of it once or twice.                                                    *)
LEMMA CheckpointStep ==
  ASSUME TypeOK, Consistent, NEW s \in Server, RcvCheckpoint(s)
  PROVE  LET t == BackupOf[s]
             m == Head(link[s])
         IN  /\ t \in Server /\ t # s /\ m \in Sound /\ link[s] # <<>>
             /\ mirrored' = mirrored \ (Straying(t) \ {s})
             /\ Tail(link[s]) \in Seq(Sound)
             /\ \E d \in Sane, seq \in {<<m>>, <<m>> \o <<m>>} :
                  /\ d.client_info = Step(db[t].client_info, m)
                  /\ db' = [db EXCEPT ![t] = d]
                  /\ link' = [link EXCEPT ![s] = Tail(@),
                                          ![t] = IF t \in standby THEN @ \o seq ELSE @]
<1> DEFINE t == BackupOf[s]
           m == Head(link[s])
           own == IF m.type = "ADD_CHECKPOINT" \/ Listed(db[t], m.group, m.client)
                  THEN <<m>> ELSE <<>>
           d == Replayed(db[t], m)
<1>1. link[s] # <<>> /\ s \in standby
  BY DEF RcvCheckpoint, Consistent
<1>2. t \in Server /\ t # s
  BY <1>1, BackupAssumption DEF TypeOK
<1>3. m \in Sound /\ Tail(link[s]) \in Seq(Sound)
  <2>1. link[s] \in Seq(Sound)
    BY DEF Consistent
  <2> QED
    BY <1>1, <2>1
<1>4. d \in Sane /\ d.client_info = Step(db[t].client_info, m)
  <2>1. db[t] \in Sane
    BY <1>2 DEF Consistent
  <2> QED
    BY <1>3, <2>1, ReplayedSane
<1>5. /\ db' = [db EXCEPT ![t] = d]
      /\ link' = [link EXCEPT ![s] = Tail(@),
                              ![t] = IF t \in standby THEN @ \o own \o <<m>> ELSE @]
      /\ mirrored' = mirrored \ (Straying(t) \ {s})
  BY DEF RcvCheckpoint
<1>6. link[t] \in Seq(Sound) /\ link \in [Server -> Seq(Sound)]
  BY <1>2 DEF Consistent
<1>7. own \in {<<m>>, <<>>}
  OBVIOUS
<1> HIDE DEF own, d, m, t
<1> DEFINE seq == own \o <<m>>
<1>8. seq \in {<<m>>, <<m>> \o <<m>>} /\ link[t] \o own \o <<m>> = link[t] \o seq
  <2>1. <<m>> \in Seq(Sound) /\ <<>> \in Seq(Sound) /\ own \in Seq(Sound)
    <3>1. <<>> \in Seq(Sound)
      OBVIOUS
    <3>2. \A e \in Sound : <<e>> \in Seq(Sound)
      OBVIOUS
    <3>3. <<m>> \in Seq(Sound)
      BY <1>3, <3>2
    <3> QED
      BY <1>7, <3>1, <3>3
  <2>2. (link[t] \o own) \o <<m>> = link[t] \o (own \o <<m>>)
    <3>1. link[t] \in Seq(Sound)
      BY <1>6
    <3>2. \A x, y, z \in Seq(Sound) : (x \o y) \o z = x \o (y \o z)
      BY ConcatAssociative
    <3> QED
      BY <2>1, <3>1, <3>2, Zenon
  <2>3. <<>> \o <<m>> = <<m>>
    BY <2>1, ConcatEmptySeq
  <2> QED
    BY <1>7, <2>2, <2>3
<1>9. link' = [link EXCEPT ![s] = Tail(@),
                           ![t] = IF t \in standby THEN @ \o seq ELSE @]
  <2>1. [link EXCEPT ![s] = Tail(@)][t] = link[t]
    BY <1>2, <1>6
  <2> HIDE DEF seq
  <2> QED
    BY <1>2, <1>5, <1>8, <2>1
<1> HIDE DEF seq
<1> QED
  BY <1>1, <1>2, <1>3, <1>4, <1>5, <1>8, <1>9 DEF m, t
----------------------------------------------------------------------------
(* The initial states.                                                     *)
LEMMA InitInv ==
  ASSUME Init
  PROVE  TypeOK /\ Consistent /\ Mirroring
<1>1. NoClients \in Sane /\ NoClients \in Lists
  BY InitSane DEF Sane
<1>2. <<>> \in Seq(Sound) /\ <<>> \in Seq(Checkpoints) /\ <<>> \in Seq(Names)
  OBVIOUS
<1>3. 0 \in 0 .. MaxRequests /\ 0 \in 0 .. MaxFaults
  BY NumbersAssumption
<1>4. TypeOK
  BY <1>1, <1>2, <1>3, PrimaryAssumption DEF Init, TypeOK
<1>5. Consistent
  BY <1>1, <1>2 DEF Init, Consistent
<1>6. Mirroring
  BY DEF Init, Mirroring
<1> QED
  BY <1>4, <1>5, <1>6

(* Every action keeps the lists and the checkpoints as they must be.       *)
LEMMA ConsistentNext ==
  ASSUME TypeOK, Consistent, [Next]_vars
  PROVE  Consistent'
<1>0. /\ db \in [Server -> Sane] /\ link \in [Server -> Seq(Sound)]
      /\ \A s \in Server : link[s] # <<>> => s \in standby
  BY DEF Consistent
<1>1. CASE UNCHANGED <<db, link>> /\ standby \subseteq standby'
  BY <1>0, <1>1 DEF Consistent
<1>2. ASSUME NEW s \in Server, NEW d \in Sane, NEW seq \in Seq(Sound),
             db' = [db EXCEPT ![s] = d],
             link' = [link EXCEPT ![s] = IF s \in standby THEN @ \o seq ELSE @],
             standby' = standby
      PROVE  Consistent'
  <2>1. link[s] \o seq \in Seq(Sound)
    BY <1>0, ConcatProperties
  <2>2. db' \in [Server -> Sane]
    BY <1>0, <1>2
  <2>3. link' \in [Server -> Seq(Sound)]
    BY <1>0, <1>2, <2>1
  <2>4. \A u \in Server : link'[u] # <<>> => u \in standby'
    BY <1>0, <1>2
  <2> QED
    BY <2>2, <2>3, <2>4 DEF Consistent
<1>3. ASSUME NEW s \in Server, NEW seq \in Seq(Sound), s \in standby,
             link' = [link EXCEPT ![s] = seq], UNCHANGED <<db, standby>>
      PROVE  Consistent'
  BY <1>0, <1>3 DEF Consistent
<1>4. CASE \E c \in Client, n \in Names : SendJoin(c, n)
  BY <1>1, <1>4 DEF SendJoin
<1>5. CASE \E c \in Client, n \in Names : SendLeave(c, n)
  BY <1>1, <1>5 DEF SendLeave
<1>6. CASE \E c \in Client, l \in JoinLists, k \in Capability : Start(c, l, k)
  BY <1>1, <1>6 DEF Start
<1>7. CASE \E c \in Client : \E r \in responses : RcvJoinRsp(c, r)
  BY <1>1, <1>7 DEF RcvJoinRsp
<1>8. CASE \E c \in Client : \E r \in responses : RcvLeaveRsp(c, r)
  BY <1>1, <1>8 DEF RcvLeaveRsp
<1>9. CASE \E c \in Client, s \in Server : RcvNewServer(c, s)
  BY <1>1, <1>9 DEF RcvNewServer
<1>10. ASSUME NEW r \in requests, RcvJoin(r)
       PROVE  Consistent'
  <2>1. PICK d \in Sane, seq \in Seq(Sound) :
          /\ r.to \in Server
          /\ db' = [db EXCEPT ![r.to] = d]
          /\ link' = [link EXCEPT ![r.to] = IF r.to \in standby THEN @ \o seq ELSE @]
    BY <1>10, JoinStep
  <2>2. standby' = standby
    BY <1>10 DEF RcvJoin
  <2> QED
    BY <1>2, <2>1, <2>2
<1>11. ASSUME NEW r \in requests, RcvLeave(r)
       PROVE  Consistent'
  <2>1. standby' = standby
    BY <1>11 DEF RcvLeave
  <2>2. CASE UNCHANGED <<db, link, mirrored>>
    BY <1>1, <2>1, <2>2
  <2>3. CASE \E d \in Sane, seq \in Seq(Sound) :
               /\ r.to \in Server
               /\ db' = [db EXCEPT ![r.to] = d]
               /\ link' = [link EXCEPT ![r.to] = IF r.to \in standby THEN @ \o seq
                                                 ELSE @]
    BY <1>2, <2>1, <2>3
  <2> QED
    BY <1>11, <2>2, <2>3, LeaveStep
<1>12. ASSUME NEW s \in Server, RcvCheckpoint(s)
       PROVE  Consistent'
  <2> DEFINE t == BackupOf[s]
             m == Head(link[s])
  <2>1. /\ t \in Server /\ t # s /\ m \in Sound /\ link[s] # <<>>
        /\ Tail(link[s]) \in Seq(Sound)
    BY <1>12, CheckpointStep
  <2>2. PICK d \in Sane, seq \in {<<m>>, <<m>> \o <<m>>} :
          /\ db' = [db EXCEPT ![t] = d]
          /\ link' = [link EXCEPT ![s] = Tail(@),
                                  ![t] = IF t \in standby THEN @ \o seq ELSE @]
    BY <1>12, CheckpointStep
  <2>3. standby' = standby
    BY <1>12 DEF RcvCheckpoint
  <2> HIDE DEF m, t
  <2>4. \A e \in Sound : <<e>> \in Seq(Sound) /\ <<e>> \o <<e>> \in Seq(Sound)
    OBVIOUS
  <2>5. seq \in Seq(Sound)
    BY <2>1, <2>4
  <2>6. link[t] \o seq \in Seq(Sound)
    BY <1>0, <2>1, <2>5, ConcatProperties
  <2>7. link' \in [Server -> Seq(Sound)]
    BY <1>0, <2>1, <2>2, <2>6
  <2>8. \A u \in Server : link'[u] # <<>> => u \in standby'
    BY <1>0, <2>1, <2>2, <2>3
  <2>9. db' \in [Server -> Sane]
    BY <1>0, <2>2
  <2> QED
    BY <2>7, <2>8, <2>9 DEF Consistent
<1>13. ASSUME NEW s \in Server, CheckpointLost(s)
       PROVE  Consistent'
  <2>1. link[s] # <<>> /\ link[s] \in Seq(Sound)
    BY <1>0, <1>13 DEF CheckpointLost
  <2>2. Tail(link[s]) \in Seq(Sound)
    BY <2>1
  <2> QED
    BY <1>0, <1>3, <1>13, <2>1, <2>2 DEF CheckpointLost
<1>14. ASSUME NEW s \in Server, CheckpointOvertaken(s)
       PROVE  Consistent'
  <2>1. Len(link[s]) > 1 /\ link[s] \in Seq(Sound)
    BY <1>0, <1>14 DEF CheckpointOvertaken
  <2>2. <<link[s][2], link[s][1]>> \o SubSeq(link[s], 3, Len(link[s])) \in Seq(Sound)
    BY <2>1, OvertakenType
  <2>3. link[s] # <<>>
    BY <2>1
  <2> QED
    BY <1>0, <1>3, <1>14, <2>2, <2>3 DEF CheckpointOvertaken
<1>15. CASE \E s \in Server : NameBackup(s)
  BY <1>1, <1>15 DEF NameBackup
<1>16. CASE \E s \in Server : Migrate(s)
  BY <1>1, <1>16 DEF Migrate
<1>17. ASSUME NEW s \in Server, NEW g \in Group, NEW c \in Client, WriteOff(s, g, c)
       PROVE  Consistent'
  <2> DEFINE k == db[s].capability[c]
             e == [db[s] EXCEPT !.grp_capability[g] = (@ - k) % Word]
  <2>1. db[s] \in Sane /\ k \in Capability \cup {0}
    BY <1>0 DEF Sane, Lists
  <2>2. db' = [db EXCEPT ![s].grp_capability[g] = (@ - k) % Word]
    BY <1>17 DEF WriteOff
  <2>3. db' = [db EXCEPT ![s] = e]
    BY <2>2, Zenon
  <2>4. e \in Sane
    <3> HIDE DEF k
    <3> QED
      BY <2>1, WrittenOffSane
  <2>5. UNCHANGED <<link, standby>>
    BY <1>17 DEF WriteOff
  <2> HIDE DEF e
  <2> QED
    BY <1>0, <2>3, <2>4, <2>5 DEF Consistent
<1>18. CASE UNCHANGED vars
  BY <1>1, <1>18 DEF vars
<1> QED
  BY <1>4, <1>5, <1>6, <1>7, <1>8, <1>9, <1>10, <1>11, <1>12, <1>13, <1>14,
     <1>15, <1>16, <1>17, <1>18 DEF Next
(* Every action keeps the types, the lists and checkpoints given.          *)
LEMMA TypesNext ==
  ASSUME TypeOK, Consistent, Consistent', [Next]_vars
  PROVE  TypeOK'
<1> USE DEF TypeOK
<1>0. /\ db' \in [Server -> Lists]
      /\ link' \in [Server -> Seq(Checkpoints)]
  <2>1. Sane \subseteq Lists /\ Seq(Sound) \subseteq Seq(Checkpoints)
    BY DEF Sane, Sound
  <2> QED
    BY <2>1 DEF Consistent
<1>1. ASSUME NEW m, NEW set, NEW set_, Taken(m, set, set_)
      PROVE  /\ set_ \subseteq set
             /\ faults' \in 0 .. MaxFaults /\ duplicated' \in {"no", "yes"}
  BY <1>1, NumbersAssumption DEF Taken
<1>2. /\ MaxRequests \in Nat /\ MaxFaults \in Nat
      /\ \A n \in 0 .. MaxRequests : n < MaxRequests =>
           n + 1 \in 0 .. MaxRequests /\ n + 1 \in 1 .. MaxRequests
      /\ \A n \in 0 .. MaxFaults : n < MaxFaults => n + 1 \in 0 .. MaxFaults
  BY NumbersAssumption
<1>3. /\ <<>> \in Seq(Names) /\ \A n \in Names : <<n>> \in Seq(Names)
      /\ Seq(Group \cup Unknown) = Seq(Names)
  BY DEF Names
<1>4. ASSUME NEW c \in Client, NEW n \in Names, SendJoin(c, n)
      PROVE  TypeOK'
  <2>1. [id |-> sent + 1, type |-> "join", from |-> c, to |-> server[c],
         names |-> <<n>>, capability |-> client_capability[c]] \in Requests
    BY <1>2, <1>3, <1>4 DEF SendJoin, Requests
  <2> QED
    BY <1>0, <1>2, <1>4, <2>1 DEF SendJoin, Post, client
<1>5. ASSUME NEW c \in Client, NEW n \in Names, SendLeave(c, n)
      PROVE  TypeOK'
  <2>1. [id |-> sent + 1, type |-> "leave", from |-> c, to |-> server[c],
         names |-> <<n>>, capability |-> client_capability[c]] \in Requests
    BY <1>2, <1>3, <1>5 DEF SendLeave, Requests
  <2> QED
    BY <1>0, <1>2, <1>5, <2>1 DEF SendLeave, Post, client
<1>6. ASSUME NEW c \in Client, NEW l \in JoinLists, NEW k \in Capability,
             Start(c, l, k)
      PROVE  TypeOK'
  <2>1. l \in Seq(Names)
    BY <1>3, NamesAssumption
  <2>2. [id |-> sent + 1, type |-> "join", from |-> c, to |-> Primary,
         names |-> l, capability |-> k] \in Requests
    BY <1>2, <1>6, <2>1, PrimaryAssumption DEF Start, Requests
  <2>3. requests' \subseteq Requests
    BY <1>6, <2>2 DEF Start, Post
  <2>4. /\ sent' \in 0 .. MaxRequests /\ faults' \in 0 .. MaxFaults
        /\ started' \in [Client -> 0 .. MaxRequests]
    BY <1>2, <1>6 DEF Start
  <2>5. /\ notices' \in [Client -> SUBSET Server]
        /\ process' \in [Client -> {"running", "aborted"}]
        /\ client_grp_list' \in [Client -> Seq(Names)]
        /\ client_capability' \in [Client -> Capability]
        /\ server' \in [Client -> Server]
    BY <1>3, <1>6, PrimaryAssumption DEF Start
  <2> QED
    BY <1>0, <1>6, <2>3, <2>4, <2>5 DEF Start
<1>7. ASSUME NEW c \in Client, NEW r \in responses, RcvJoinRsp(c, r)
      PROVE  TypeOK'
  <2>1. /\ responses' \subseteq responses
        /\ faults' \in 0 .. MaxFaults /\ duplicated' \in {"no", "yes"}
    BY <1>1, <1>7 DEF RcvJoinRsp
  <2>2. r.names \in Seq(Names) /\ client_grp_list[c] \in Seq(Names)
    BY DEF Responses
  <2>3. Reverse(r.names) \o client_grp_list[c] \in Seq(Names)
    BY <2>2, ReverseType, ConcatProperties
  <2>4. client_grp_list' \in [Client -> Seq(Names)]
    BY <1>7, <2>3 DEF RcvJoinRsp
  <2> QED
    BY <1>0, <1>7, <2>1, <2>4 DEF RcvJoinRsp
<1>8. ASSUME NEW c \in Client, NEW r \in responses, RcvLeaveRsp(c, r)
      PROVE  TypeOK'
  <2>1. /\ responses' \subseteq responses
        /\ faults' \in 0 .. MaxFaults /\ duplicated' \in {"no", "yes"}
    BY <1>1, <1>8 DEF RcvLeaveRsp
  <2>2. RemoveFirst(client_grp_list[c], r.names[1]) \in Seq(Names)
    BY RemoveFirstElements
  <2>3. client_grp_list' \in [Client -> Seq(Names)]
    BY <1>8, <2>2 DEF RcvLeaveRsp
  <2>4. process' \in [Client -> {"running", "aborted"}]
    BY <1>8 DEF RcvLeaveRsp
  <2> QED
    BY <1>0, <1>8, <2>1, <2>3, <2>4 DEF RcvLeaveRsp
<1>9. ASSUME NEW c \in Client, NEW s \in Server, RcvNewServer(c, s)
      PROVE  TypeOK'
  BY <1>0, <1>9 DEF RcvNewServer, history
<1>10. ASSUME NEW r \in requests, RcvJoin(r)
       PROVE  TypeOK'
  <2>1. /\ requests' \subseteq requests
        /\ faults' \in 0 .. MaxFaults /\ duplicated' \in {"no", "yes"}
    BY <1>1, <1>10 DEF RcvJoin
  <2>2. /\ r.id \in 1 .. MaxRequests /\ r.from \in Client
        /\ Accepts(r.names) \in Seq(Names)
    BY GroupsType DEF Requests
  <2>3. [id |-> r.id, type |-> "join", to |-> r.from, names |-> Accepts(r.names)]
          \in Responses
    BY <2>2 DEF Responses
  <2>4. responses' \subseteq Responses
    BY <1>10, <2>3 DEF RcvJoin
  <2>5. mirrored' \subseteq standby
    BY <1>10 DEF RcvJoin
  <2> QED
    BY <1>0, <1>10, <2>1, <2>4, <2>5 DEF RcvJoin, client
<1>11. ASSUME NEW r \in requests, RcvLeave(r)
       PROVE  TypeOK'
  <2>1. /\ requests' \subseteq requests
        /\ faults' \in 0 .. MaxFaults /\ duplicated' \in {"no", "yes"}
    BY <1>1, <1>11 DEF RcvLeave
  <2>2. [id |-> r.id, type |-> "leave", to |-> r.from, names |-> r.names]
          \in Responses
    BY DEF Responses, Requests
  <2>3. responses' \subseteq Responses
    BY <1>11, <2>2 DEF RcvLeave
  <2>4. mirrored' \subseteq standby
    BY <1>11 DEF RcvLeave
  <2> QED
    BY <1>0, <1>11, <2>1, <2>3, <2>4 DEF RcvLeave, client
<1>12. ASSUME NEW s \in Server, RcvCheckpoint(s)
       PROVE  TypeOK'
  <2>1. mirrored' \subseteq standby
    BY <1>12 DEF RcvCheckpoint
  <2> QED
    BY <1>0, <1>12, <2>1 DEF RcvCheckpoint, net, client
<1>13. ASSUME NEW s \in Server, CheckpointLost(s)
       PROVE  TypeOK'
  BY <1>0, <1>2, <1>13 DEF CheckpointLost, net, client
<1>14. ASSUME NEW s \in Server, CheckpointOvertaken(s)
       PROVE  TypeOK'
  BY <1>0, <1>2, <1>14 DEF CheckpointOvertaken, net, client
<1>15. ASSUME NEW s \in Server, NameBackup(s)
       PROVE  TypeOK'
  <2>1. mirrored' \subseteq standby' /\ standby' \subseteq {u \in Server : BackupOf[u] # NULL}
    BY <1>15 DEF NameBackup
  <2> QED
    BY <1>0, <1>15, <2>1 DEF NameBackup, net, client
<1>16. ASSUME NEW s \in Server, Migrate(s)
       PROVE  TypeOK'
  <2>1. BackupOf[s] \in Server
    BY <1>16, BackupAssumption DEF Migrate
  <2>2. notices' \in [Client -> SUBSET Server]
    BY <1>16, <2>1 DEF Migrate
  <2> QED
    BY <1>0, <1>16, <2>2 DEF Migrate, client, history
<1>17. ASSUME NEW s \in Server, NEW g \in Group, NEW c \in Client, WriteOff(s, g, c)
       PROVE  TypeOK'
  BY <1>0, <1>2, <1>17 DEF WriteOff, net, client
<1>18. CASE UNCHANGED vars
  BY <1>0, <1>18 DEF vars
<1> QED
  BY <1>4, <1>5, <1>6, <1>7, <1>8, <1>9, <1>10, <1>11, <1>12, <1>13, <1>14,
     <1>15, <1>16, <1>17, <1>18 DEF Next

(* A server changes its lists and tells its backup of it: the checkpoints  *)
(* on their way still lead from the backup's groups to the server's.       *)
LEMMA MirroringOwn ==
  ASSUME TypeOK, Consistent, Mirroring,
         NEW s \in Server, NEW d \in Sane, NEW seq \in Seq(Sound),
         Leads(db[s].client_info, seq, d.client_info),
         db' = [db EXCEPT ![s] = d],
         link' = [link EXCEPT ![s] = IF s \in standby THEN @ \o seq ELSE @],
         mirrored' = mirrored \ Straying(s)
  PROVE  Mirroring'
<1>1. SUFFICES ASSUME NEW u \in mirrored'
               PROVE  Leads(db'[BackupOf[u]].client_info, link'[u], db'[u].client_info)
  BY DEF Mirroring
<1>2. /\ u \in mirrored /\ u \in standby /\ u \in Server
      /\ BackupOf[u] \in Server /\ BackupOf[u] # u /\ BackupOf[u] # s
  BY BackupAssumption DEF TypeOK, Straying
<1>3. /\ Leads(db[BackupOf[u]].client_info, link[u], db[u].client_info)
      /\ db \in [Server -> Sane] /\ link \in [Server -> Seq(Sound)]
  BY <1>2 DEF Mirroring, Consistent
<1>4. db'[BackupOf[u]] = db[BackupOf[u]]
  BY <1>2, <1>3
<1>5. CASE u = s
  <2>1. db'[u] = d /\ link'[u] = link[s] \o seq
    BY <1>2, <1>3, <1>5
  <2>2. link[s] \in Seq(Sound)
    BY <1>3
  <2>3. Leads(db[BackupOf[s]].client_info, link[s] \o seq, d.client_info)
    BY <1>3, <1>5, <2>2, LeadsConcat
  <2> QED
    BY <1>4, <1>5, <2>1, <2>3
<1>6. CASE u # s
  <2>1. db'[u] = db[u] /\ link'[u] = link[u]
    BY <1>2, <1>3, <1>6
  <2> QED
    BY <1>3, <1>4, <2>1
<1> QED
  BY <1>5, <1>6

(* Every action keeps the backup on its way to the server's groups.        *)
LEMMA MirroringNext ==
  ASSUME TypeOK, Consistent, Mirroring, [Next]_vars
  PROVE  Mirroring'
<1>0. /\ db \in [Server -> Sane] /\ link \in [Server -> Seq(Sound)]
      /\ mirrored \subseteq standby /\ standby \subseteq Server
      /\ \A s \in standby : BackupOf[s] \in Server /\ BackupOf[s] # s
      /\ \A s \in mirrored :
           Leads(db[BackupOf[s]].client_info, link[s], db[s].client_info)
  BY BackupAssumption DEF TypeOK, Consistent, Mirroring
<1>1. CASE UNCHANGED <<db, link, mirrored>>
  BY <1>1 DEF Mirroring
<1>2. ASSUME NEW s \in Server, NEW q, UNCHANGED db, link' = [link EXCEPT ![s] = q],
             mirrored' = mirrored \ {s}
      PROVE  Mirroring'
  <2>1. \A u \in mirrored' : u \in mirrored /\ link'[u] = link[u]
    BY <1>0, <1>2
  <2> QED
    BY <1>0, <1>2, <2>1 DEF Mirroring
<1>3. CASE \E c \in Client, n \in Names : SendJoin(c, n)
  BY <1>1, <1>3 DEF SendJoin
<1>4. CASE \E c \in Client, n \in Names : SendLeave(c, n)
  BY <1>1, <1>4 DEF SendLeave
<1>5. CASE \E c \in Client, l \in JoinLists, k \in Capability : Start(c, l, k)
  BY <1>1, <1>5 DEF Start
<1>6. CASE \E c \in Client : \E r \in responses : RcvJoinRsp(c, r)
  BY <1>1, <1>6 DEF RcvJoinRsp
<1>7. CASE \E c \in Client : \E r \in responses : RcvLeaveRsp(c, r)
  BY <1>1, <1>7 DEF RcvLeaveRsp
<1>8. CASE \E c \in Client, s \in Server : RcvNewServer(c, s)
  BY <1>1, <1>8 DEF RcvNewServer, history
<1>9. ASSUME NEW r \in requests, RcvJoin(r)
      PROVE  Mirroring'
  BY <1>9, JoinStep, MirroringOwn
<1>10. ASSUME NEW r \in requests, RcvLeave(r)
       PROVE  Mirroring'
  BY <1>1, <1>10, LeaveStep, MirroringOwn
<1>11. ASSUME NEW s \in Server, RcvCheckpoint(s)
       PROVE  Mirroring'
  <2> DEFINE t == BackupOf[s]
             m == Head(link[s])
  <2>1. /\ t \in Server /\ t # s /\ m \in Sound /\ link[s] # <<>>
        /\ mirrored' = mirrored \ (Straying(t) \ {s})
    BY <1>11, CheckpointStep
  <2>2. PICK d \in Sane, seq \in {<<m>>, <<m>> \o <<m>>} :
          /\ d.client_info = Step(db[t].client_info, m)
          /\ db' = [db EXCEPT ![t] = d]
          /\ link' = [link EXCEPT ![s] = Tail(@),
                                  ![t] = IF t \in standby THEN @ \o seq ELSE @]
    BY <1>11, CheckpointStep
  <2>3. SUFFICES ASSUME NEW u \in mirrored'
                 PROVE  Leads(db'[BackupOf[u]].client_info, link'[u], db'[u].client_info)
    BY DEF Mirroring
  <2>4. /\ u \in mirrored /\ u \in standby /\ u \in Server
        /\ BackupOf[u] \in Server /\ BackupOf[u] # u
        /\ Leads(db[BackupOf[u]].client_info, link[u], db[u].client_info)
        /\ BackupOf[u] = t => u = s
    BY <1>0, <2>1 DEF Straying
  <2>5. CASE u = s
    <3>1. db'[u] = db[s] /\ db'[t] = d /\ link'[u] = Tail(link[s])
      BY <1>0, <2>1, <2>2, <2>5
    <3>2. link[s] \in Seq(Sound) /\ link[s] # <<>>
      BY <1>0, <2>1
    <3>3. Leads(Step(db[t].client_info, m), Tail(link[s]), db[s].client_info)
      BY <2>4, <2>5, <3>2, LeadsTail
    <3> QED
      BY <2>2, <2>5, <3>1, <3>3
  <2>6. CASE u = t
    <3>1. db'[u] = d /\ db'[BackupOf[u]] = db[BackupOf[u]] /\ link'[u] = link[t] \o seq
      BY <1>0, <2>1, <2>2, <2>4, <2>6
    <3>2. db[t] \in Sane /\ link[t] \in Seq(Sound)
      BY <1>0, <2>1
    <3> HIDE DEF m, t
    <3>3. <<m>> \in Seq(Sound) /\ <<m>> \o <<m>> \in Seq(Sound)
      <4>1. \A e \in Sound : <<e>> \in Seq(Sound) /\ <<e>> \o <<e>> \in Seq(Sound)
        OBVIOUS
      <4> QED
        BY <2>1, <4>1
    <3>4. Leads(db[t].client_info, <<m>>, d.client_info)
      BY <2>2, LeadsOne
    <3>5. Leads(d.client_info, <<m>>, d.client_info)
      <4>1. Step(d.client_info, m) = d.client_info
        BY <2>1, <2>2, <3>2, StepTwice
      <4> QED
        BY <4>1, LeadsOne
    <3>6. Leads(db[t].client_info, seq, d.client_info)
      BY <3>3, <3>4, <3>5, LeadsConcat
    <3>7. seq \in Seq(Sound)
      BY <3>3
    <3>8. Leads(db[BackupOf[u]].client_info, link[t] \o seq, d.client_info)
      BY <2>4, <2>6, <3>2, <3>6, <3>7, LeadsConcat
    <3> QED
      BY <3>1, <3>8
  <2>7. CASE u # s /\ u # t
    <3>1. db'[u] = db[u] /\ link'[u] = link[u] /\ db'[BackupOf[u]] = db[BackupOf[u]]
      BY <1>0, <2>1, <2>2, <2>4, <2>7
    <3> QED
      BY <2>4, <3>1
  <2> QED
    BY <2>5, <2>6, <2>7
<1>12. CASE \E s \in Server : CheckpointLost(s)
  BY <1>2, <1>12 DEF CheckpointLost
<1>13. CASE \E s \in Server : CheckpointOvertaken(s)
  BY <1>2, <1>13 DEF CheckpointOvertaken
<1>14. ASSUME NEW s \in Server, NameBackup(s)
       PROVE  Mirroring'
  <2>1. link[s] = <<>>
    BY <1>14 DEF NameBackup, Consistent
  <2>2. ASSUME db[s].client_info = db[BackupOf[s]].client_info
        PROVE  Leads(db[BackupOf[s]].client_info, link[s], db[s].client_info)
    BY <2>1, <2>2, LeadsOne
  <2>3. UNCHANGED <<db, link>>
    BY <1>14 DEF NameBackup
  <2>4. \A u \in mirrored' : \/ u \in mirrored
                             \/ u = s /\ db[s].client_info = db[BackupOf[s]].client_info
    BY <1>14 DEF NameBackup
  <2> QED
    BY <1>0, <2>2, <2>3, <2>4 DEF Mirroring
<1>15. CASE \E s \in Server : Migrate(s)
  BY <1>1, <1>15 DEF Migrate, history
<1>16. ASSUME NEW s \in Server, NEW g \in Group, NEW c \in Client, WriteOff(s, g, c)
       PROVE  Mirroring'
  <2> DEFINE k == db[s].capability[c]
             e == [db[s] EXCEPT !.grp_capability[g] = (@ - k) % Word]
  <2>1. db[s] \in Sane /\ k \in Capability \cup {0}
    BY <1>0 DEF Sane, Lists
  <2>2. db' = [db EXCEPT ![s].grp_capability[g] = (@ - k) % Word]
    BY <1>16 DEF WriteOff
  <2>3. db' = [db EXCEPT ![s] = e]
    BY <2>2, Zenon
  <2>4. e.client_info = db[s].client_info
    <3> HIDE DEF k
    <3> QED
      BY <2>1, WrittenOffSane
  <2>5. UNCHANGED <<link, mirrored>>
    BY <1>16 DEF WriteOff
  <2> HIDE DEF e
  <2>6. \A u \in Server : db'[u].client_info = db[u].client_info
    BY <1>0, <2>3, <2>4
  <2>7. \A u \in mirrored : u \in Server /\ BackupOf[u] \in Server
    BY <1>0
  <2> QED
    BY <1>0, <2>5, <2>6, <2>7 DEF Mirroring
<1>17. CASE UNCHANGED vars
  BY <1>1, <1>17 DEF vars
<1> QED
  BY <1>3, <1>4, <1>5, <1>6, <1>7, <1>8, <1>9, <1>10, <1>11, <1>12, <1>13,
     <1>14, <1>15, <1>16, <1>17 DEF Next
----------------------------------------------------------------------------
(* The inductive invariant of the specification.                           *)
LEMMA Invariance == Spec => [](TypeOK /\ Consistent /\ Mirroring)
<1> DEFINE Inv == TypeOK /\ Consistent /\ Mirroring
<1>1. Init => Inv
  BY InitInv
<1>2. Inv /\ [Next]_vars => Inv'
  <2> SUFFICES ASSUME Inv, [Next]_vars
               PROVE  Inv'
    OBVIOUS
  <2>1. Consistent'
    BY ConsistentNext
  <2>2. TypeOK'
    BY <2>1, TypesNext
  <2>3. Mirroring'
    BY MirroringNext
  <2> QED
    BY <2>1, <2>2, <2>3
<1> QED
  BY <1>1, <1>2, PTL DEF Spec

(* The requests, responses, notices and checkpoints, the lists of servers  *)
(* and clients are what their types say, for any number of clients,        *)
(* servers and groups: a checkpoint that is received is always one for a   *)
(* server that exists, about a group it has.                               *)
THEOREM TypeCorrect == Spec => []TypeOK
<1> QED
  BY Invariance, PTL

(* Nobody is in a list twice when the list repeats nothing.                *)
LEMMA AtMostOnce ==
  ASSUME NEW seq, IsInjective(seq), NEW x
  PROVE  Occurrences(seq, x) <= 1
<1> DEFINE S == {i \in DOMAIN seq : seq[i] = x}
<1>1. CASE S = {}
  BY <1>1, FS_EmptySet DEF Occurrences
<1>2. CASE S # {}
  <2>1. PICK i : S = {i}
    <3>1. PICK i : i \in S
      BY <1>2
    <3>2. \A j \in S : j = i
      BY <3>1 DEF IsInjective
    <3> QED
      BY <3>1, <3>2
  <2>2. Cardinality(S) = 1
    BY <2>1, FS_Singleton
  <2> QED
    BY <2>2 DEF Occurrences
<1> QED
  BY <1>1, <1>2

(* At every server, a client is at most once in the list of a group, and   *)
(* its RBT node lists every group it is in: whatever requests and          *)
(* checkpoints came, in whatever order, lost or twice, with any number of  *)
(* restarts of clients, and at a backup as at the server that names it.    *)
THEOREM RegistryIsSound == Spec => []RegistryAgrees
<1>1. TypeOK /\ Consistent => RegistryAgrees
  <2> SUFFICES ASSUME Consistent, NEW s \in Server, NEW c \in Client
               PROVE  /\ db[s].capability[c] = 0 <=> db[s].grp_list[c] = <<>>
                      /\ \A g \in Group :
                           /\ Occurrences(db[s].client_info[g], c) <= 1
                           /\ c \in Members(db[s], g) => Listed(db[s], g, c)
    BY DEF RegistryAgrees
  <2>1. Agrees(db[s])
    BY DEF Consistent, Sane
  <2>2. \A g \in Group : Occurrences(db[s].client_info[g], c) <= 1
    BY <2>1, AtMostOnce DEF Agrees
  <2>3. \A g \in Group : c \in Members(db[s], g) => Listed(db[s], g, c)
    BY <2>1 DEF Agrees, Members, Listed, Range
  <2> QED
    BY <2>1, <2>2, <2>3 DEF Agrees
<1> QED
  BY <1>1, Invariance, PTL

(* The checkpoints on their way make the groups of the backup those of the *)
(* server, member by member and in the same order, as long as no           *)
(* checkpoint was lost or overtaken and nobody asked the backup directly:  *)
(* for chains of backups of any length, although a backup's own backup     *)
(* gets every checkpoint twice.                                            *)
THEOREM BackupKeepsUp == Spec => []BackupMirrors
<1>1. TypeOK /\ Consistent /\ Mirroring => BackupMirrors
  <2> SUFFICES ASSUME TypeOK, Consistent, Mirroring, NEW s \in mirrored
               PROVE  FoldLeft(Replayed, db[BackupOf[s]], link[s]).client_info
                        = db[s].client_info
    BY DEF BackupMirrors
  <2>1. s \in Server /\ BackupOf[s] \in Server
    BY BackupAssumption DEF TypeOK
  <2>2. db[BackupOf[s]] \in Sane /\ link[s] \in Seq(Sound)
    BY <2>1 DEF Consistent
  <2>3. Leads(db[BackupOf[s]].client_info, link[s], db[s].client_info)
    BY DEF Mirroring
  <2>4. Leads(db[BackupOf[s]].client_info, link[s],
              FoldLeft(Replayed, db[BackupOf[s]], link[s]).client_info)
    BY <2>2, ReplayedFold
  <2> QED
    BY <2>2, <2>3, <2>4, LeadsUnique
<1> QED
  BY <1>1, Invariance, PTL
=============================================================================
