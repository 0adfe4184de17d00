--------------------------- MODULE ListenerProofs ---------------------------
(***************************************************************************)
(* No client listens behind the server's back, for any number of clients   *)
(* and groups, whatever is lost, delayed or reordered and however often    *)
(* clients are started again.  The proof counts: the nodes in a client's   *)
(* list and those still coming, against the listings on its RBT node and   *)
(* the leaves it has been granted.                                         *)
(***************************************************************************)
EXTENDS MembershipProofs

Places(seq, x) == {i \in DOMAIN seq : seq[i] = x}

----------------------------------------------------------------------------
(* Counting how often an element occurs in a sequence.                     *)
LEMMA PlacesFinite ==
  ASSUME NEW S, NEW seq \in Seq(S), NEW x
  PROVE  /\ IsFiniteSet(Places(seq, x)) /\ Places(seq, x) \subseteq 1 .. Len(seq)
         /\ Occurrences(seq, x) = Cardinality(Places(seq, x))
         /\ Occurrences(seq, x) \in Nat
<1>1. Places(seq, x) \subseteq 1 .. Len(seq)
  BY DEF Places
<1>2. IsFiniteSet(1 .. Len(seq))
  BY IndexSet
<1>3. IsFiniteSet(Places(seq, x))
  BY <1>1, <1>2, FS_Subset
<1>4. Cardinality(Places(seq, x)) \in Nat
  BY <1>3, FS_CardinalityType
<1> QED
  BY <1>1, <1>3, <1>4 DEF Occurrences, Places

(* One more at the head.                                                   *)
LEMMA OccursCons ==
  ASSUME NEW S, NEW seq \in Seq(S), NEW e \in S, NEW x
  PROVE  Occurrences(<<e>> \o seq, x)
           >= Occurrences(seq, x) + (IF e = x THEN 1 ELSE 0)
<1> DEFINE r == <<e>> \o seq
           P == Places(seq, x)
           Q == Places(r, x)
           f == [i \in P |-> i + 1]
<1>1. /\ r \in Seq(S) /\ Len(r) = Len(seq) + 1 /\ Len(seq) \in Nat
      /\ r[1] = e /\ \A i \in 1 .. Len(seq) : r[i + 1] = seq[i]
      /\ DOMAIN r = 1 .. Len(seq) + 1 /\ DOMAIN seq = 1 .. Len(seq)
  <2>1. <<e>> \in Seq(S) /\ Len(<<e>>) = 1 /\ <<e>>[1] = e
    OBVIOUS
  <2> QED
    BY <2>1
<1>2. /\ IsFiniteSet(Q) /\ Occurrences(r, x) = Cardinality(Q)
      /\ Occurrences(r, x) \in Nat
  <2> HIDE DEF r
  <2> QED
    BY <1>1, PlacesFinite
<1>3. /\ IsFiniteSet(P) /\ Occurrences(seq, x) = Cardinality(P)
      /\ Occurrences(seq, x) \in Nat /\ P \subseteq 1 .. Len(seq)
  BY PlacesFinite
<1> HIDE DEF r
<1>4. f \in [P -> Q \ {1}]
  <2>1. \A i \in P : i + 1 \in DOMAIN r /\ r[i + 1] = x /\ i + 1 # 1
    BY <1>1 DEF Places
  <2> QED
    BY <2>1 DEF Places
<1>5. \A i, j \in P : f[i] = f[j] => i = j
  BY <1>3
<1>6. IsFiniteSet(Q \ {1}) /\ Cardinality(Q \ {1}) =
        IF 1 \in Q THEN Cardinality(Q) - 1 ELSE Cardinality(Q)
  BY <1>2, FS_RemoveElement
<1>7. Cardinality(P) <= Cardinality(Q \ {1})
  <2> HIDE DEF f, P, Q
  <2> QED
    BY <1>4, <1>5, <1>6, FitsInto
<1>8. e = x => 1 \in Q
  BY <1>1 DEF Places
<1> HIDE DEF P, Q
<1> QED
  BY <1>2, <1>3, <1>6, <1>7, <1>8 DEF r

(* The occurrences in two sequences.                                       *)
LEMMA OccursConcat ==
  ASSUME NEW S, NEW s \in Seq(S), NEW t \in Seq(S), NEW x
  PROVE  Occurrences(s \o t, x) <= Occurrences(s, x) + Occurrences(t, x)
<1> DEFINE r == s \o t
           n == Len(s)
           A == Places(s, x)
           B == Places(r, x) \ A
           f == [i \in B |-> i - n]
<1>1. /\ r \in Seq(S) /\ n \in Nat /\ Len(t) \in Nat /\ Len(r) = n + Len(t)
      /\ DOMAIN r = 1 .. n + Len(t) /\ DOMAIN t = 1 .. Len(t) /\ DOMAIN s = 1 .. n
      /\ \A i \in 1 .. n + Len(t) : r[i] = IF i <= n THEN s[i] ELSE t[i - n]
  BY ConcatProperties, LenProperties
<1>2. /\ IsFiniteSet(A) /\ Occurrences(s, x) = Cardinality(A)
      /\ Occurrences(s, x) \in Nat
  BY PlacesFinite
<1>3. /\ IsFiniteSet(Places(t, x)) /\ Occurrences(t, x) = Cardinality(Places(t, x))
      /\ Occurrences(t, x) \in Nat
  BY PlacesFinite
<1> HIDE DEF r
<1>4. /\ IsFiniteSet(Places(r, x)) /\ Occurrences(r, x) = Cardinality(Places(r, x))
      /\ Occurrences(r, x) \in Nat
  BY <1>1, PlacesFinite
<1>5. \A i \in B : i \in 1 .. n + Len(t) /\ i - n \in Places(t, x)
  <2> TAKE i \in B
  <2> HIDE DEF n
  <2>1. i \in 1 .. n + Len(t) /\ r[i] = x /\ ~(i \in 1 .. n /\ s[i] = x)
    BY <1>1 DEF Places
  <2>2. ~(i <= n)
    BY <1>1, <2>1
  <2>3. i - n \in 1 .. Len(t) /\ t[i - n] = x
    BY <1>1, <2>1, <2>2
  <2> QED
    BY <1>1, <2>1, <2>3 DEF Places
<1>6. f \in [B -> Places(t, x)]
  BY <1>5
<1>7. \A i, j \in B : f[i] = f[j] => i = j
  <2> HIDE DEF B, n
  <2> QED
    BY <1>1, <1>5
<1>8. IsFiniteSet(B) /\ Cardinality(B) <= Cardinality(Places(t, x))
  <2> HIDE DEF f, B
  <2> QED
    BY <1>3, <1>6, <1>7, FitsInto
<1>9. Cardinality(Places(r, x)) <= Cardinality(A) + Cardinality(B)
  <2>1. A \subseteq Places(r, x)
    BY <1>1 DEF Places
  <2>2. A \cup B = Places(r, x) /\ A \cap B = {}
    BY <2>1
  <2> HIDE DEF A, B
  <2>3. Cardinality(A \cup B) =
          Cardinality(A) + Cardinality(B) - Cardinality(A \cap B)
    BY <1>2, <1>8, FS_Union
  <2>4. Cardinality({}) = 0
    BY FS_EmptySet
  <2>5. Cardinality(A) \in Nat /\ Cardinality(B) \in Nat
    BY <1>2, <1>8, FS_CardinalityType
  <2>6. Cardinality(Places(r, x)) = Cardinality(A) + Cardinality(B) - 0
    BY <2>2, <2>3, <2>4, Zenon
  <2> QED
    BY <2>5, <2>6
<1> HIDE DEF A, B
<1>10. Cardinality(B) \in Nat
  BY <1>8, FS_CardinalityType
<1> QED
  BY <1>2, <1>3, <1>4, <1>8, <1>9, <1>10 DEF r

(* A list turned around.                                                   *)
LEMMA OccursReverse ==
  ASSUME NEW S, NEW seq \in Seq(S), NEW x
  PROVE  Occurrences(Reverse(seq), x) <= Occurrences(seq, x)
<1> DEFINE n == Len(seq)
           r == Reverse(seq)
           P == Places(r, x)
           f == [i \in P |-> (n - i) + 1]
<1>1. n \in Nat /\ DOMAIN seq = 1 .. n /\ r \in Seq(S)
      /\ DOMAIN r = 1 .. n /\ \A i \in 1 .. n : r[i] = seq[(n - i) + 1]
  BY ReverseType DEF Reverse
<1> HIDE DEF r
<1>2. /\ IsFiniteSet(P) /\ Occurrences(r, x) = Cardinality(P)
  BY <1>1, PlacesFinite
<1>3. /\ IsFiniteSet(Places(seq, x)) /\ Occurrences(seq, x) = Cardinality(Places(seq, x))
  BY PlacesFinite
<1> HIDE DEF n
<1>4. \A i \in P : i \in 1 .. n /\ (n - i) + 1 \in Places(seq, x)
  BY <1>1 DEF Places
<1>5. f \in [P -> Places(seq, x)]
  BY <1>4
<1>6. \A i, j \in P : f[i] = f[j] => i = j
  <2> HIDE DEF P
  <2> QED
    BY <1>1, <1>4
<1>7. Cardinality(P) <= Cardinality(Places(seq, x))
  <2> HIDE DEF f, P
  <2> QED
    BY <1>3, <1>5, <1>6, FitsInto
<1> QED
  BY <1>2, <1>3, <1>7 DEF r

(* An element leaves a list: at most one of its occurrences, exactly one   *)
(* when it has any, and none of anything else.                             *)
LEMMA OccursRemoveFirst ==
  ASSUME NEW S, NEW seq \in Seq(S), NEW e, NEW x
  PROVE  /\ Occurrences(RemoveFirst(seq, e), x) <= Occurrences(seq, x)
         /\ Occurrences(RemoveFirst(seq, e), x)
              >= Occurrences(seq, x) - (IF e = x THEN 1 ELSE 0)
         /\ e = x /\ (\E i \in DOMAIN seq : seq[i] = e) =>
              Occurrences(RemoveFirst(seq, e), x) + 1 <= Occurrences(seq, x)
<1> DEFINE n == Len(seq)
           r == RemoveFirst(seq, e)
           P == Places(seq, x)
           Q == Places(r, x)
<1>1. n \in Nat /\ DOMAIN seq = 1 .. n
  OBVIOUS
<1>2. /\ IsFiniteSet(P) /\ Occurrences(seq, x) = Cardinality(P)
      /\ Occurrences(seq, x) \in Nat /\ P \subseteq 1 .. n
  BY PlacesFinite
<1>3. CASE ~ \E i \in 1 .. n : seq[i] = e
  <2>1. r = seq
    BY <1>3 DEF RemoveFirst
  <2> HIDE DEF r
  <2> QED
    BY <1>1, <1>2, <1>3, <2>1 DEF r
<1>4. CASE \E i \in 1 .. n : seq[i] = e
  <2>1. PICK i \in 1 .. n : seq[i] = e /\ r = RemoveAt(seq, i)
    BY <1>4, RemoveFirstAt
  <2>0. /\ r \in Seq(S) /\ Len(r) = n - 1
        /\ \A j \in 1 .. n - 1 : r[j] = IF j < i THEN seq[j] ELSE seq[j + 1]
    BY <2>1, RemoveAtElements
  <2> HIDE DEF r, n
  <2>2. /\ r \in Seq(S) /\ Len(r) = n - 1 /\ DOMAIN r = 1 .. n - 1
        /\ \A j \in 1 .. n - 1 : r[j] = IF j < i THEN seq[j] ELSE seq[j + 1]
    BY <2>0
  <2>3. /\ IsFiniteSet(Q) /\ Occurrences(r, x) = Cardinality(Q)
        /\ Occurrences(r, x) \in Nat /\ Q \subseteq 1 .. n - 1
    BY <2>2, PlacesFinite
  <2>4. IsFiniteSet(P \ {i}) /\ Cardinality(P \ {i}) =
          IF i \in P THEN Cardinality(P) - 1 ELSE Cardinality(P)
    BY <1>2, FS_RemoveElement
  <2>5. i \in P <=> e = x
    BY <1>1, <2>1 DEF Places
  <2> DEFINE f == [j \in Q |-> IF j < i THEN j ELSE j + 1]
             h == [j \in P \ {i} |-> IF j < i THEN j ELSE j - 1]
  <2>6. Cardinality(Q) <= Cardinality(P \ {i})
    <3>1. \A j \in Q : j \in 1 .. n - 1 /\ (IF j < i THEN j ELSE j + 1) \in P \ {i}
      <4> TAKE j \in Q
      <4>1. j \in 1 .. n - 1 /\ r[j] = x
        BY <2>2 DEF Places
      <4>2. CASE j < i
        <5>1. j \in 1 .. n /\ j # i /\ seq[j] = x
          BY <1>1, <2>1, <2>2, <4>1, <4>2
        <5> QED
          BY <1>1, <4>1, <4>2, <5>1 DEF Places
      <4>3. CASE ~(j < i)
        <5>1. j + 1 \in 1 .. n /\ j + 1 # i /\ seq[j + 1] = x
          BY <1>1, <2>1, <2>2, <4>1, <4>3
        <5> QED
          BY <1>1, <4>1, <4>3, <5>1 DEF Places
      <4> QED
        BY <4>2, <4>3
    <3>2. f \in [Q -> P \ {i}]
      BY <3>1
    <3>3. \A j, k \in Q : f[j] = f[k] => j = k
      <4> HIDE DEF P, Q
      <4> QED
        BY <1>1, <2>1, <3>1
    <3> HIDE DEF f, P, Q
    <3> QED
      BY <2>4, <3>2, <3>3, FitsInto
  <2>7. Cardinality(P \ {i}) <= Cardinality(Q)
    <3>1. \A j \in P \ {i} : j \in 1 .. n /\ j # i
                             /\ (IF j < i THEN j ELSE j - 1) \in Q
      <4> TAKE j \in P \ {i}
      <4>1. j \in 1 .. n /\ j # i /\ seq[j] = x
        BY <1>1 DEF Places
      <4>2. CASE j < i
        <5>1. j \in 1 .. n - 1 /\ r[j] = x
          BY <1>1, <2>1, <2>2, <4>1, <4>2
        <5> QED
          BY <2>2, <4>1, <4>2, <5>1 DEF Places
      <4>3. CASE ~(j < i)
        <5>1. j - 1 \in 1 .. n - 1 /\ ~(j - 1 < i) /\ (j - 1) + 1 = j
          BY <1>1, <2>1, <4>1, <4>3
        <5>2. r[j - 1] = x
          BY <2>2, <4>1, <5>1
        <5> QED
          BY <2>2, <4>1, <4>3, <5>1, <5>2 DEF Places
      <4> QED
        BY <4>2, <4>3
    <3>2. h \in [P \ {i} -> Q]
      BY <3>1
    <3>3. \A j, k \in P \ {i} : h[j] = h[k] => j = k
      <4> HIDE DEF P, Q
      <4> QED
        BY <1>1, <2>1, <3>1
    <3> HIDE DEF h, P, Q
    <3> QED
      BY <2>3, <3>2, <3>3, FitsInto
  <2>8. Cardinality(P \ {i}) \in Nat
    <3> HIDE DEF P
    <3> QED
      BY <2>4, FS_CardinalityType
  <2> HIDE DEF P, Q
  <2> QED
    BY <1>2, <2>3, <2>4, <2>5, <2>6, <2>7, <2>8 DEF r
<1> QED
  BY <1>3, <1>4
----------------------------------------------------------------------------
(* What the lists' operations do to the listings of a client.              *)
LEMMA AddedListings ==
  ASSUME NEW d \in Sane, NEW g \in Group, NEW c \in Client, NEW k
  PROVE  /\ Added(d, g, c, k).grp_list[c] = <<g>> \o d.grp_list[c]
         /\ \A b \in Client \ {c} : Added(d, g, c, k).grp_list[b] = d.grp_list[b]
<1>1. PICK ci, gc, gl, cap :
        d = [client_info |-> ci, grp_capability |-> gc, grp_list |-> gl,
             capability |-> cap]
  BY DEF Sane, Lists
<1>2. d.grp_list = gl
  BY <1>1
<1> DEFINE x == (gc[g] + k) % Word
           y == <<c>> \o RemoveFirst(ci[g], c)
           z == <<g>> \o gl[c]
           w == IF cap[c] = 0 THEN k ELSE cap[c]
<1>3. Added(d, g, c, k) = [d EXCEPT !.grp_capability[g] = x, !.client_info[g] = y,
                                    !.grp_list[c] = z, !.capability[c] = w]
  BY <1>1 DEF Added
<1> HIDE DEF x, y, z, w
<1>4. Added(d, g, c, k).grp_list = [gl EXCEPT ![c] = z]
  BY <1>1, <1>3
<1>5. gl \in [Client -> Seq(Group)]
  BY <1>2 DEF Sane, Lists
<1> QED
  BY <1>2, <1>4, <1>5 DEF z

(* A client removed from a group loses one listing of it.                  *)
LEMMA RemovedListings ==
  ASSUME NEW d \in Sane, NEW g \in Group, NEW c \in Client, Listed(d, g, c)
  PROVE  /\ Removed(d, g, c).grp_list[c] = RemoveFirst(d.grp_list[c], g)
         /\ \A b \in Client \ {c} : Removed(d, g, c).grp_list[b] = d.grp_list[b]
<1>1. PICK ci, gc, gl, cap :
        d = [client_info |-> ci, grp_capability |-> gc, grp_list |-> gl,
             capability |-> cap]
  BY DEF Sane, Lists
<1>2. d.grp_list = gl
  BY <1>1
<1> DEFINE z == RemoveFirst(gl[c], g)
           x == (gc[g] - cap[c]) % Word
           y == RemoveFirst(ci[g], c)
           w == IF z = <<>> THEN 0 ELSE cap[c]
<1>3. Removed(d, g, c) = [d EXCEPT !.grp_capability[g] = x, !.client_info[g] = y,
                                   !.grp_list[c] = z, !.capability[c] = w]
  BY <1>1 DEF Removed
<1> HIDE DEF x, y, z, w
<1>4. Removed(d, g, c).grp_list = [gl EXCEPT ![c] = z]
  BY <1>1, <1>3
<1>5. gl \in [Client -> Seq(Group)]
  BY <1>2 DEF Sane, Lists
<1> QED
  BY <1>2, <1>4, <1>5 DEF z

(* A client that joins groups gains a listing for each of them, and the    *)
(* other clients keep theirs.                                              *)
LEMMA JoinedListings ==
  ASSUME NEW d \in Sane, NEW groups \in Seq(Group), NEW c \in Client,
         NEW k \in Capability, NEW g \in Group
  PROVE  /\ \A b \in Client \ {c} : Joined(d, groups, c, k).grp_list[b] = d.grp_list[b]
         /\ Occurrences(Joined(d, groups, c, k).grp_list[c], g)
              >= Occurrences(d.grp_list[c], g) + Occurrences(groups, g)
<1> DEFINE n == Len(groups)
           Got(i) == {j \in 1 .. i : groups[j] = g}
<1>1. n \in Nat /\ DOMAIN groups = 1 .. n /\ \A i \in 1 .. n : groups[i] \in Group
  OBVIOUS
<1>2. PICK h \in [0 .. n -> Sane] :
        /\ h[0] = d /\ h[n] = Joined(d, groups, c, k)
        /\ \A i \in 1 .. n : h[i] = Added(h[i - 1], groups[i], c, k)
  BY JoinedCourse
<1> DEFINE T == {i \in 0 .. n :
                   /\ \A b \in Client \ {c} : h[i].grp_list[b] = d.grp_list[b]
                   /\ IsFiniteSet(Got(i)) /\ Cardinality(Got(i)) \in Nat
                   /\ Occurrences(h[i].grp_list[c], g)
                        >= Occurrences(d.grp_list[c], g) + Cardinality(Got(i))}
<1>3. d.grp_list[c] \in Seq(Group) /\ Occurrences(d.grp_list[c], g) \in Nat
  <2>1. d.grp_list[c] \in Seq(Group)
    BY DEF Sane, Lists
  <2> QED
    BY <2>1, PlacesFinite
<1> HIDE DEF n
<1>4. 0 \in T
  <2>1. Got(0) = {}
    OBVIOUS
  <2>2. IsFiniteSet({}) /\ Cardinality({}) = 0
    BY FS_EmptySet
  <2> QED
    BY <1>1, <1>2, <1>3, <2>1, <2>2
<1>5. ASSUME NEW i \in 0 .. n - 1, i \in T
      PROVE  i + 1 \in T
  <2>1. i \in 0 .. n /\ i + 1 \in 0 .. n /\ i + 1 \in 1 .. n /\ (i + 1) - 1 = i
    BY <1>1
  <2> DEFINE e == h[i]
             f == h[i + 1]
             o == groups[i + 1]
  <2>2. e \in Sane /\ f = Added(e, o, c, k) /\ o \in Group
    BY <1>1, <1>2, <2>1
  <2>3. e.grp_list \in [Client -> Seq(Group)]
    BY <2>2 DEF Sane, Lists
  <2>4. /\ f.grp_list[c] = <<o>> \o e.grp_list[c]
        /\ \A b \in Client \ {c} : f.grp_list[b] = e.grp_list[b]
    <3> HIDE DEF e, f, o
    <3> QED
      BY <2>2, AddedListings
  <2>5. /\ \A b \in Client \ {c} : e.grp_list[b] = d.grp_list[b]
        /\ IsFiniteSet(Got(i)) /\ Cardinality(Got(i)) \in Nat
        /\ Occurrences(e.grp_list[c], g)
             >= Occurrences(d.grp_list[c], g) + Cardinality(Got(i))
    BY <1>5
  <2>6. \A b \in Client \ {c} : f.grp_list[b] = d.grp_list[b]
    <3> HIDE DEF e, f, o
    <3> QED
      BY <2>3, <2>4, <2>5
  <2>7. Got(i + 1) = IF o = g THEN Got(i) \cup {i + 1} ELSE Got(i)
    BY <1>1, <2>1
  <2>8. i + 1 \notin Got(i)
    BY <1>1
  <2>9. /\ IsFiniteSet(Got(i + 1))
        /\ Cardinality(Got(i + 1)) = Cardinality(Got(i)) + (IF o = g THEN 1 ELSE 0)
    <3> HIDE DEF Got, o
    <3>1. CASE o = g
      <4>1. /\ IsFiniteSet(Got(i) \cup {i + 1})
            /\ Cardinality(Got(i) \cup {i + 1}) =
                 IF i + 1 \in Got(i) THEN Cardinality(Got(i)) ELSE Cardinality(Got(i)) + 1
        BY <2>5, FS_AddElement
      <4> QED
        BY <2>5, <2>7, <2>8, <3>1, <4>1
    <3>2. CASE o # g
      BY <2>5, <2>7, <3>2
    <3> QED
      BY <3>1, <3>2
  <2> HIDE DEF e, f, o, Got
  <2>10. f.grp_list[c] = <<o>> \o e.grp_list[c] /\ e.grp_list[c] \in Seq(Group)
    BY <2>3, <2>4
  <2>11. /\ Occurrences(f.grp_list[c], g)
              >= Occurrences(e.grp_list[c], g) + (IF o = g THEN 1 ELSE 0)
         /\ Occurrences(e.grp_list[c], g) \in Nat
    BY <2>2, <2>10, OccursCons, PlacesFinite
  <2>12. Occurrences(f.grp_list[c], g) \in Nat
    <3>1. f.grp_list[c] \in Seq(Group)
      BY <2>2, <2>10, ConsElements
    <3> QED
      BY <3>1, PlacesFinite
  <2>13. Occurrences(f.grp_list[c], g)
           >= Occurrences(d.grp_list[c], g) + Cardinality(Got(i + 1))
    BY <1>3, <2>5, <2>9, <2>11, <2>12
  <2>14. Cardinality(Got(i + 1)) \in Nat
    BY <2>5, <2>9
  <2> QED
    BY <2>1, <2>6, <2>9, <2>13, <2>14 DEF f
<1>6. n \in T
  <2>1. n \in 0 .. n
    BY <1>1
  <2> HIDE DEF T
  <2>2. \A i \in 0 .. n : i \in T
    BY <1>1, <1>4, <1>5, Induction
  <2> QED
    BY <2>1, <2>2
<1>7. Occurrences(groups, g) = Cardinality(Got(n))
  BY <1>1 DEF Occurrences
<1> HIDE DEF Got
<1> QED
  BY <1>2, <1>6, <1>7

(* A join request lists the client for every accepted name that is a       *)
(* group's: such a name is always taken for itself.                        *)
LEMMA AcceptsOccurs ==
  ASSUME NEW names \in Seq(Names), NEW g \in Group
  PROVE  Occurrences(Accepts(names), g) <= Occurrences(Groups(names), g)
<1> DEFINE from == AcceptedFrom(names)
           a == Accepts(names)
           b == Groups(names)
<1>1. a \in Seq(Names) /\ b \in Seq(Group)
  BY GroupsType
<1>2. b = [i \in 1 .. Len(a) |-> Resolved(names, from + (i - 1))]
  BY DEF Groups
<1>3. Len(a) \in Nat /\ DOMAIN a = 1 .. Len(a) /\ DOMAIN b = 1 .. Len(a)
  <2>1. Len(a) \in Nat /\ DOMAIN a = 1 .. Len(a)
    <3> HIDE DEF a
    <3> QED
      BY <1>1
  <2> QED
    BY <1>2, <2>1
<1>4. from \in 1 .. Len(names) + 1
  <2>1. Len(names) \in Nat /\ DOMAIN names = 1 .. Len(names)
    OBVIOUS
  <2>2. CASE Accepted(names) = {}
    BY <2>1, <2>2 DEF AcceptedFrom
  <2>3. CASE Accepted(names) # {}
    <3>1. Accepted(names) \subseteq 1 .. Len(names) /\ Accepted(names) \subseteq Nat
      BY <2>1 DEF Accepted
    <3>2. Min(Accepted(names)) \in Accepted(names)
      BY <2>3, <3>1, MinIn
    <3> QED
      BY <2>1, <2>3, <3>1, <3>2 DEF AcceptedFrom
  <2> QED
    BY <2>2, <2>3
<1>5. ASSUME NEW i \in 1 .. Len(a), a[i] = g
      PROVE  b[i] = g
  <2> DEFINE j == from + (i - 1)
             Known == {l \in 1 .. j : names[l] \in Group}
  <2>1. Len(a) = (Len(names) - from) + 1 /\ a[i] = names[j]
    <3> HIDE DEF from
    <3>1. a = SubSeq(names, from, Len(names))
      BY DEF Accepts, from
    <3>2. Len(SubSeq(names, from, Len(names))) = (Len(names) - from) + 1
      BY <1>4
    <3>3. i \in 1 .. (Len(names) - from) + 1
      BY <3>1, <3>2
    <3>4. SubSeq(names, from, Len(names))[i] = names[j]
      BY <1>4, <3>3
    <3> HIDE DEF a
    <3> QED
      BY <3>1, <3>2, <3>4
  <2>2. j \in Nat /\ j \in 1 .. j
    <3> HIDE DEF from, a
    <3> QED
      BY <1>3, <1>4
  <2>3. j \in Known /\ Known \subseteq 0 .. j
    BY <1>5, <2>1, <2>2
  <2>4. Max(Known) = j
    <3> HIDE DEF Known, j
    <3>1. Max(Known) \in Known /\ \A y \in Known : y <= Max(Known)
      BY <2>2, <2>3, MaxIn
    <3>2. Max(Known) \in 0 .. j /\ j <= Max(Known)
      BY <2>3, <3>1
    <3> QED
      BY <2>2, <3>2
  <2>5. Resolved(names, j) = names[j]
    BY <2>3, <2>4 DEF Resolved
  <2>6. b[i] = Resolved(names, j)
    <3> HIDE DEF a, from
    <3> QED
      BY <1>2
  <2> QED
    BY <1>5, <2>1, <2>5, <2>6
<1>6. Places(a, g) \subseteq Places(b, g)
  <2> HIDE DEF a, b
  <2> QED
    BY <1>3, <1>5 DEF Places
<1>7. /\ IsFiniteSet(Places(b, g)) /\ Occurrences(b, g) = Cardinality(Places(b, g))
      /\ Occurrences(a, g) = Cardinality(Places(a, g))
  <2> HIDE DEF a, b
  <2> QED
    BY <1>1, PlacesFinite
<1> HIDE DEF a, b
<1>8. Cardinality(Places(a, g)) <= Cardinality(Places(b, g))
  BY <1>6, <1>7, FS_Subset
<1> QED
  BY <1>7, <1>8 DEF a, b
----------------------------------------------------------------------------
(* The responses on their way: what a set R of them can still give to a    *)
(* client whose process was started after n requests, and the leaves in R. *)
Bringing(R, c, n) == {q \in R : q.type = "join" /\ q.to = c /\ q.id > n}
Nodes(R, c, g, n) == UNION {{r} \X Places(r.names, g) : r \in Bringing(R, c, n)}
Leaves(R, c, g) == {r \in R : r.type = "leave" /\ r.to = c /\ r.names = <<g>>}

LEMMA ComingCounts ==
  ASSUME NEW c, NEW g
  PROVE  /\ Coming(c, g) = Cardinality(Nodes(responses, c, g, started[c]))
         /\ Granted(c, g) = Cardinality(Leaves(responses, c, g))
  BY DEF Coming, Granted, Nodes, Bringing, Leaves, Places

(* A node is a response and the place of the group in it.                  *)
LEMMA NodeIs ==
  ASSUME NEW R, NEW c, NEW g, NEW n
  PROVE  \A x : x \in Nodes(R, c, g, n) <=>
                  \E r \in Bringing(R, c, n) : \E i \in Places(r.names, g) :
                    x = <<r, i>>
  BY DEF Nodes

(* One response gives as many nodes as it names the group.                 *)
LEMMA NodesOfOne ==
  ASSUME NEW r, NEW S, r.names \in Seq(S), NEW g
  PROVE  /\ IsFiniteSet({r} \X Places(r.names, g))
         /\ Cardinality({r} \X Places(r.names, g)) = Occurrences(r.names, g)
<1> DEFINE P == Places(r.names, g)
           f == [x \in {r} \X P |-> x[2]]
           h == [i \in P |-> <<r, i>>]
<1>1. /\ IsFiniteSet(P) /\ Occurrences(r.names, g) = Cardinality(P)
      /\ Occurrences(r.names, g) \in Nat
  BY PlacesFinite
<1> HIDE DEF P
<1>2. f \in [{r} \X P -> P]
  OBVIOUS
<1>3. \A x, y \in {r} \X P : f[x] = f[y] => x = y
  OBVIOUS
<1>4. /\ IsFiniteSet({r} \X P) /\ Cardinality({r} \X P) <= Cardinality(P)
  <2> HIDE DEF f
  <2> QED
    BY <1>1, <1>2, <1>3, FitsInto
<1>5. h \in [P -> {r} \X P]
  OBVIOUS
<1>6. \A x, y \in P : h[x] = h[y] => x = y
  OBVIOUS
<1>7. Cardinality(P) <= Cardinality({r} \X P)
  <2> HIDE DEF h
  <2> QED
    BY <1>4, <1>5, <1>6, FitsInto
<1>8. Cardinality({r} \X P) \in Nat
  BY <1>4, FS_CardinalityType
<1> QED
  BY <1>1, <1>4, <1>7, <1>8 DEF P

(* There are finitely many nodes and leaves on their way.                  *)
LEMMA NodesFinite ==
  ASSUME NEW R \in SUBSET Responses, IsFiniteSet(R), NEW c, NEW g, NEW n
  PROVE  /\ IsFiniteSet(Nodes(R, c, g, n)) /\ Cardinality(Nodes(R, c, g, n)) \in Nat
         /\ IsFiniteSet(Leaves(R, c, g)) /\ Cardinality(Leaves(R, c, g)) \in Nat
<1> DEFINE B == Bringing(R, c, n)
           f == [r \in B |-> {r} \X Places(r.names, g)]
<1>1. B \subseteq R /\ Leaves(R, c, g) \subseteq R
  BY DEF Bringing, Leaves
<1>2. IsFiniteSet(B) /\ IsFiniteSet(Leaves(R, c, g))
  BY <1>1, FS_Subset
<1> HIDE DEF B
<1>3. IsFiniteSet({f[r] : r \in B})
  <2> DEFINE I == {f[r] : r \in B}
  <2>1. DOMAIN f = B /\ f = [r \in B |-> f[r]] /\ I = {f[r] : r \in B}
    OBVIOUS
  <2> HIDE DEF f, I
  <2>2. IsFiniteSet(I)
    BY <1>2, <2>1, ImageIsFinite
  <2> QED
    BY <2>1, <2>2
<1>4. \A r \in B : IsFiniteSet(f[r])
  <2>1. ASSUME NEW r \in B
        PROVE  IsFiniteSet({r} \X Places(r.names, g))
    <3>1. r.names \in Seq(Names)
      BY <1>1 DEF Responses
    <3> QED
      BY <3>1, NodesOfOne
  <2> QED
    BY <2>1
<1>5. IsFiniteSet(UNION {f[r] : r \in B})
  <2> HIDE DEF f
  <2>1. \A x \in {f[r] : r \in B} : IsFiniteSet(x)
    BY <1>4
  <2> QED
    BY <1>3, <2>1, FS_UNION
<1>6. Nodes(R, c, g, n) = UNION {f[r] : r \in B}
  <2>1. {f[r] : r \in B} = {{r} \X Places(r.names, g) : r \in B}
    OBVIOUS
  <2> QED
    BY <2>1 DEF Nodes, B
<1>7. IsFiniteSet(Nodes(R, c, g, n))
  BY <1>5, <1>6
<1> QED
  BY <1>2, <1>7, FS_CardinalityType

(* Fewer responses give no more nodes and no more leaves.                  *)
LEMMA NodesShrink ==
  ASSUME NEW R \in SUBSET Responses, IsFiniteSet(R), NEW Q \in SUBSET R,
         NEW c, NEW g, NEW n
  PROVE  /\ Cardinality(Nodes(Q, c, g, n)) <= Cardinality(Nodes(R, c, g, n))
         /\ Cardinality(Leaves(Q, c, g)) <= Cardinality(Leaves(R, c, g))
<1>1. Bringing(Q, c, n) \subseteq Bringing(R, c, n)
  BY DEF Bringing
<1>2. Nodes(Q, c, g, n) \subseteq Nodes(R, c, g, n)
  BY <1>1 DEF Nodes
<1>3. Leaves(Q, c, g) \subseteq Leaves(R, c, g)
  BY DEF Leaves
<1>4. IsFiniteSet(Nodes(R, c, g, n)) /\ IsFiniteSet(Leaves(R, c, g))
  BY NodesFinite
<1> QED
  BY <1>2, <1>3, <1>4, FS_Subset

(* A response more gives at most as many nodes more as it names the group, *)
(* and none to another client or a later process; a leave not among them   *)
(* yet counts.                                                             *)
LEMMA NodesGrow ==
  ASSUME NEW R \in SUBSET Responses, IsFiniteSet(R), NEW q \in Responses,
         NEW c, NEW g, NEW n
  PROVE  /\ Cardinality(Nodes(R \cup {q}, c, g, n))
              <= Cardinality(Nodes(R, c, g, n))
                 + (IF q \in Bringing({q}, c, n) THEN Occurrences(q.names, g) ELSE 0)
         /\ Cardinality(Leaves(R \cup {q}, c, g))
              >= Cardinality(Leaves(R, c, g))
                 + (IF q \notin R /\ q \in Leaves({q}, c, g) THEN 1 ELSE 0)
<1> DEFINE N == Nodes(R, c, g, n)
           O == {q} \X Places(q.names, g)
           M == Nodes(R \cup {q}, c, g, n)
           L == Leaves(R, c, g)
<1>1. /\ IsFiniteSet(N) /\ Cardinality(N) \in Nat
      /\ IsFiniteSet(L) /\ Cardinality(L) \in Nat
  BY NodesFinite
<1>2. /\ IsFiniteSet(O) /\ Cardinality(O) = Occurrences(q.names, g)
      /\ Occurrences(q.names, g) \in Nat
  <2>1. q.names \in Seq(Names)
    BY DEF Responses
  <2> QED
    BY <2>1, NodesOfOne, PlacesFinite
<1>3. ASSUME q \in Bringing({q}, c, n)
      PROVE  Cardinality(M) <= Cardinality(N) + Occurrences(q.names, g)
  <2>1. \A r \in Bringing(R \cup {q}, c, n) : r \in Bringing(R, c, n) \/ r = q
    BY DEF Bringing
  <2>2. M \subseteq N \cup O
    BY <2>1 DEF Nodes
  <2> HIDE DEF M, N, O
  <2>3. /\ IsFiniteSet(N \cup O)
        /\ Cardinality(N \cup O) =
             Cardinality(N) + Cardinality(O) - Cardinality(N \cap O)
    BY <1>1, <1>2, FS_Union
  <2>4. IsFiniteSet(N \cap O)
    <3>1. N \cap O \in SUBSET N
      OBVIOUS
    <3> QED
      BY <1>1, <3>1, FS_Subset
  <2>5. Cardinality(N \cap O) \in Nat
    BY <2>4, FS_CardinalityType
  <2>6. Cardinality(M) <= Cardinality(N \cup O) /\ IsFiniteSet(M)
    BY <2>2, <2>3, FS_Subset
  <2>7. Cardinality(M) \in Nat /\ Cardinality(N \cup O) \in Nat
    BY <2>3, <2>6, FS_CardinalityType
  <2>8. Cardinality(M) <= Cardinality(N) + Cardinality(O)
    BY <1>1, <1>2, <2>3, <2>5, <2>6, <2>7
  <2> QED
    BY <1>2, <2>8
<1>4. ASSUME q \notin Bringing({q}, c, n)
      PROVE  Cardinality(M) <= Cardinality(N) + 0
  <2>1. Bringing(R \cup {q}, c, n) = Bringing(R, c, n)
    BY <1>4 DEF Bringing
  <2>2. M = N
    BY <2>1 DEF Nodes
  <2> HIDE DEF M, N
  <2> QED
    BY <1>1, <2>2
<1>5. Cardinality(Leaves(R \cup {q}, c, g)) >= Cardinality(L)
        + (IF q \notin R /\ q \in Leaves({q}, c, g) THEN 1 ELSE 0)
  <2>1. q \in Leaves({q}, c, g) => Leaves(R \cup {q}, c, g) = L \cup {q}
    BY DEF Leaves
  <2>2. q \notin Leaves({q}, c, g) => Leaves(R \cup {q}, c, g) = L
    BY DEF Leaves
  <2>3. q \in L => q \in R
    BY DEF Leaves
  <2> HIDE DEF L
  <2>4. Cardinality(L \cup {q}) = IF q \in L THEN Cardinality(L) ELSE Cardinality(L) + 1
    BY <1>1, FS_AddElement
  <2> QED
    BY <1>1, <2>1, <2>2, <2>3, <2>4
<1> QED
  BY <1>3, <1>4, <1>5

(* A response taken by the client's process takes its nodes off the way; a *)
(* leave that is taken is one leave less of its group and none of another. *)
LEMMA NodesTaken ==
  ASSUME NEW R \in SUBSET Responses, IsFiniteSet(R), NEW q \in R,
         NEW c, NEW g, NEW n
  PROVE  /\ q \in Bringing({q}, c, n) =>
              Cardinality(Nodes(R \ {q}, c, g, n)) + Occurrences(q.names, g)
                <= Cardinality(Nodes(R, c, g, n))
         /\ Cardinality(Leaves(R \ {q}, c, g))
              >= Cardinality(Leaves(R, c, g))
                 - (IF q \in Leaves({q}, c, g) THEN 1 ELSE 0)
<1> DEFINE N == Nodes(R \ {q}, c, g, n)
           O == {q} \X Places(q.names, g)
           M == Nodes(R, c, g, n)
           L == Leaves(R, c, g)
<1>0. R \ {q} \in SUBSET Responses /\ IsFiniteSet(R \ {q}) /\ q \in Responses
  BY FS_RemoveElement
<1>1. /\ IsFiniteSet(N) /\ Cardinality(N) \in Nat
      /\ IsFiniteSet(M) /\ Cardinality(M) \in Nat
      /\ IsFiniteSet(L) /\ Cardinality(L) \in Nat
  BY <1>0, NodesFinite
<1>2. /\ IsFiniteSet(O) /\ Cardinality(O) = Occurrences(q.names, g)
      /\ Occurrences(q.names, g) \in Nat
  <2>1. q.names \in Seq(Names)
    BY <1>0 DEF Responses
  <2> QED
    BY <2>1, NodesOfOne, PlacesFinite
<1>3. ASSUME q \in Bringing({q}, c, n)
      PROVE  Cardinality(N) + Occurrences(q.names, g) <= Cardinality(M)
  <2>1. /\ Bringing(R \ {q}, c, n) \subseteq Bringing(R, c, n)
        /\ q \in Bringing(R, c, n) /\ q \notin Bringing(R \ {q}, c, n)
    BY <1>3 DEF Bringing
  <2>2. N \cup O \subseteq M
    BY <2>1 DEF Nodes
  <2>3. N \cap O = {}
    BY <2>1 DEF Nodes
  <2> HIDE DEF M, N, O
  <2>4. /\ IsFiniteSet(N \cup O)
        /\ Cardinality(N \cup O) =
             Cardinality(N) + Cardinality(O) - Cardinality(N \cap O)
    BY <1>1, <1>2, FS_Union
  <2>5. Cardinality(N \cap O) = 0
    BY <2>3, FS_EmptySet
  <2>6. Cardinality(N \cup O) <= Cardinality(M)
    BY <1>1, <2>2, FS_Subset
  <2> QED
    BY <1>1, <1>2, <2>4, <2>5, <2>6
<1>4. Cardinality(Leaves(R \ {q}, c, g))
        >= Cardinality(L) - (IF q \in Leaves({q}, c, g) THEN 1 ELSE 0)
  <2>1. q \in Leaves({q}, c, g) => Leaves(R \ {q}, c, g) = L \ {q} /\ q \in L
    BY DEF Leaves
  <2>2. q \notin Leaves({q}, c, g) => Leaves(R \ {q}, c, g) = L
    BY DEF Leaves
  <2> HIDE DEF L
  <2>3. Cardinality(L \ {q}) = IF q \in L THEN Cardinality(L) - 1 ELSE Cardinality(L)
    BY <1>1, FS_RemoveElement
  <2>4. CASE q \in Leaves({q}, c, g)
    <3>1. Cardinality(Leaves(R \ {q}, c, g)) = Cardinality(L) - 1
      BY <2>1, <2>3, <2>4
    <3> QED
      BY <1>1, <2>4, <3>1
  <2>5. CASE q \notin Leaves({q}, c, g)
    BY <1>1, <2>2, <2>5
  <2> QED
    BY <2>4, <2>5
<1> QED
  BY <1>3, <1>4
----------------------------------------------------------------------------
(* The inductive invariant.                                                *)
(* Requests and responses: nothing bears a number that has not been used,  *)
(* a leave names one group, no client is sent to the primary again, and    *)
(* what a client's process asks while it talks to the primary goes there.  *)
Posted ==
  /\ IsFiniteSet(responses)
  /\ \A r \in requests \cup responses :
       r.id <= sent /\ (r.type = "leave" => Len(r.names) = 1)
  /\ \A c \in Client : started[c] <= sent /\ Primary \notin notices[c]
  /\ \A r \in requests : r.id > started[r.from] /\ server[r.from] = Primary =>
                         r.to = Primary

(* Unless datagrams are duplicated, a request is answered once.            *)
AnsweredOnce ==
  duplicated = "no" =>
    \A r \in requests : /\ \A q \in requests : q.id = r.id => q = r
                        /\ \A q \in responses : q.id # r.id

(* ListenersAreRegistered for one client, wherever the others have gone.   *)
Balanced ==
  duplicated = "no" =>
    \A c \in Client, g \in Group :
      process[c] = "running" /\ server[c] = Primary =>
        Occurrences(client_grp_list[c], g) + Coming(c, g)
          <= Occurrences(db[Primary].grp_list[c], g) + Granted(c, g)

(* The client's list cl, the responses R and the listings gl are balanced  *)
(* for the group g of the client c, started after n requests.              *)
Even(cl, R, n, gl, c, g) ==
  Occurrences(cl, g) + Cardinality(Nodes(R, c, g, n))
    <= Occurrences(gl, g) + Cardinality(Leaves(R, c, g))

LEMMA BalancedIs ==
  Balanced <=>
    (duplicated = "no" =>
       \A c \in Client, g \in Group :
         process[c] = "running" /\ server[c] = Primary =>
           Even(client_grp_list[c], responses, started[c],
                db[Primary].grp_list[c], c, g))
  BY DEF Balanced, Even, Coming, Granted, Nodes, Bringing, Leaves, Places

(* A client's process takes the response to a join.                        *)
LEMMA EvenJoinRsp ==
  ASSUME NEW cl \in Seq(Names), NEW gl \in Seq(Group), NEW R \in SUBSET Responses,
         IsFiniteSet(R), NEW n, NEW c, NEW g, NEW q \in R,
         q \in Bringing({q}, c, n), Even(cl, R, n, gl, c, g)
  PROVE  Even(Reverse(q.names) \o cl, R \ {q}, n, gl, c, g)
<1>1. q.names \in Seq(Names) /\ q.type = "join"
  BY DEF Responses, Bringing
<1>2. Reverse(q.names) \in Seq(Names)
  BY <1>1, ReverseType
<1>3. Occurrences(Reverse(q.names) \o cl, g)
        <= Occurrences(Reverse(q.names), g) + Occurrences(cl, g)
  BY <1>2, OccursConcat
<1>4. Occurrences(Reverse(q.names), g) <= Occurrences(q.names, g)
  BY <1>1, OccursReverse
<1>5. /\ Cardinality(Nodes(R \ {q}, c, g, n)) + Occurrences(q.names, g)
           <= Cardinality(Nodes(R, c, g, n))
      /\ Cardinality(Leaves(R \ {q}, c, g))
           >= Cardinality(Leaves(R, c, g))
              - (IF q \in Leaves({q}, c, g) THEN 1 ELSE 0)
  BY NodesTaken
<1>6. q \notin Leaves({q}, c, g)
  BY <1>1 DEF Leaves
<1>7. /\ Occurrences(Reverse(q.names), g) \in Nat /\ Occurrences(cl, g) \in Nat
      /\ Occurrences(q.names, g) \in Nat /\ Occurrences(gl, g) \in Nat
  BY <1>1, <1>2, PlacesFinite
<1>8. Occurrences(Reverse(q.names) \o cl, g) \in Nat
  <2>1. Reverse(q.names) \o cl \in Seq(Names)
    BY <1>2, ConcatProperties
  <2> QED
    BY <2>1, PlacesFinite
<1>9. /\ Cardinality(Nodes(R, c, g, n)) \in Nat /\ Cardinality(Leaves(R, c, g)) \in Nat
  BY NodesFinite
<1>10. /\ Cardinality(Nodes(R \ {q}, c, g, n)) \in Nat
       /\ Cardinality(Leaves(R \ {q}, c, g)) \in Nat
  BY FS_RemoveElement, NodesFinite
<1> QED
  BY <1>3, <1>4, <1>5, <1>6, <1>7, <1>8, <1>9, <1>10 DEF Even

(* A response that is no leave of this client from this group is taken.    *)
LEMMA EvenTaken ==
  ASSUME NEW cl \in Seq(Names), NEW gl \in Seq(Group), NEW R \in SUBSET Responses,
         IsFiniteSet(R), NEW n, NEW c, NEW g, NEW q \in R,
         q \notin Leaves({q}, c, g), Even(cl, R, n, gl, c, g)
  PROVE  Even(cl, R \ {q}, n, gl, c, g)
<1>1. Cardinality(Leaves(R \ {q}, c, g))
        >= Cardinality(Leaves(R, c, g))
           - (IF q \in Leaves({q}, c, g) THEN 1 ELSE 0)
  BY NodesTaken
<1>2. Cardinality(Nodes(R \ {q}, c, g, n)) <= Cardinality(Nodes(R, c, g, n))
  BY NodesShrink
<1>3. Occurrences(cl, g) \in Nat /\ Occurrences(gl, g) \in Nat
  BY PlacesFinite
<1>4. /\ Cardinality(Nodes(R, c, g, n)) \in Nat /\ Cardinality(Leaves(R, c, g)) \in Nat
  BY NodesFinite
<1>5. /\ Cardinality(Nodes(R \ {q}, c, g, n)) \in Nat
      /\ Cardinality(Leaves(R \ {q}, c, g)) \in Nat
  BY FS_RemoveElement, NodesFinite
<1> QED
  BY <1>1, <1>2, <1>3, <1>4, <1>5 DEF Even

(* A client's process takes the response to a leave and has a node.        *)
LEMMA EvenLeaveRsp ==
  ASSUME NEW cl \in Seq(Names), NEW gl \in Seq(Group), NEW R \in SUBSET Responses,
         IsFiniteSet(R), NEW n, NEW c, NEW g, NEW q \in R, NEW m,
         m = q.names[1], \E i \in DOMAIN cl : cl[i] = m, Even(cl, R, n, gl, c, g)
  PROVE  Even(RemoveFirst(cl, m), R \ {q}, n, gl, c, g)
<1>1. /\ Occurrences(RemoveFirst(cl, m), g) <= Occurrences(cl, g)
      /\ m = g => Occurrences(RemoveFirst(cl, m), g) + 1 <= Occurrences(cl, g)
  BY OccursRemoveFirst
<1>2. q \in Leaves({q}, c, g) => m = g
  BY DEF Leaves
<1>3. Cardinality(Leaves(R \ {q}, c, g))
        >= Cardinality(Leaves(R, c, g))
           - (IF q \in Leaves({q}, c, g) THEN 1 ELSE 0)
  BY NodesTaken
<1>4. Cardinality(Nodes(R \ {q}, c, g, n)) <= Cardinality(Nodes(R, c, g, n))
  BY NodesShrink
<1>5. Occurrences(cl, g) \in Nat /\ Occurrences(gl, g) \in Nat
  BY PlacesFinite
<1>6. Occurrences(RemoveFirst(cl, m), g) \in Nat
  BY RemoveFirstElements, PlacesFinite
<1>7. /\ Cardinality(Nodes(R, c, g, n)) \in Nat /\ Cardinality(Leaves(R, c, g)) \in Nat
  BY NodesFinite
<1>8. /\ Cardinality(Nodes(R \ {q}, c, g, n)) \in Nat
      /\ Cardinality(Leaves(R \ {q}, c, g)) \in Nat
  BY FS_RemoveElement, NodesFinite
<1> QED
  BY <1>1, <1>2, <1>3, <1>4, <1>5, <1>6, <1>7, <1>8 DEF Even

(* A join is answered, and the client gets at least as many listings as    *)
(* the response names the group, unless it is not for its process.         *)
LEMMA EvenJoin ==
  ASSUME NEW cl \in Seq(Names), NEW gl \in Seq(Group), NEW hl \in Seq(Group),
         NEW R \in SUBSET Responses, IsFiniteSet(R), NEW n, NEW c, NEW g,
         NEW q \in Responses,
         Occurrences(hl, g) >= Occurrences(gl, g)
           + (IF q \in Bringing({q}, c, n) THEN Occurrences(q.names, g) ELSE 0),
         Even(cl, R, n, gl, c, g)
  PROVE  Even(cl, R, n, hl, c, g) /\ Even(cl, R \cup {q}, n, hl, c, g)
<1>1. q.names \in Seq(Names)
  BY DEF Responses
<1>2. /\ Cardinality(Nodes(R \cup {q}, c, g, n))
           <= Cardinality(Nodes(R, c, g, n))
              + (IF q \in Bringing({q}, c, n) THEN Occurrences(q.names, g) ELSE 0)
      /\ Cardinality(Leaves(R \cup {q}, c, g))
           >= Cardinality(Leaves(R, c, g))
              + (IF q \notin R /\ q \in Leaves({q}, c, g) THEN 1 ELSE 0)
  BY NodesGrow
<1>3. /\ Occurrences(cl, g) \in Nat /\ Occurrences(gl, g) \in Nat
      /\ Occurrences(hl, g) \in Nat /\ Occurrences(q.names, g) \in Nat
  BY <1>1, PlacesFinite
<1>4. /\ Cardinality(Nodes(R, c, g, n)) \in Nat /\ Cardinality(Leaves(R, c, g)) \in Nat
  BY NodesFinite
<1>5. /\ Cardinality(Nodes(R \cup {q}, c, g, n)) \in Nat
      /\ Cardinality(Leaves(R \cup {q}, c, g)) \in Nat
  <2>1. R \cup {q} \in SUBSET Responses /\ IsFiniteSet(R \cup {q})
    BY FS_AddElement
  <2> QED
    BY <2>1, NodesFinite
<1> QED
  BY <1>2, <1>3, <1>4, <1>5 DEF Even

(* A leave of this client is granted: it has one listing less of the group *)
(* it names, and the response, which is new, has it under way.             *)
LEMMA EvenLeave ==
  ASSUME NEW cl \in Seq(Names), NEW gl \in Seq(Group), NEW R \in SUBSET Responses,
         IsFiniteSet(R), NEW n, NEW c, NEW g, NEW q \in Responses, q \notin R,
         NEW m, q.type = "leave", q.to = c, q.names = <<m>>,
         Even(cl, R, n, gl, c, g)
  PROVE  Even(cl, R \cup {q}, n, RemoveFirst(gl, m), c, g)
<1>1. Occurrences(RemoveFirst(gl, m), g)
        >= Occurrences(gl, g) - (IF m = g THEN 1 ELSE 0)
  BY OccursRemoveFirst
<1>2. (m = g => q \in Leaves({q}, c, g)) /\ q \notin Bringing({q}, c, n)
  BY DEF Leaves, Bringing
<1>3. /\ Cardinality(Nodes(R \cup {q}, c, g, n))
           <= Cardinality(Nodes(R, c, g, n))
              + (IF q \in Bringing({q}, c, n) THEN Occurrences(q.names, g) ELSE 0)
      /\ Cardinality(Leaves(R \cup {q}, c, g))
           >= Cardinality(Leaves(R, c, g))
              + (IF q \notin R /\ q \in Leaves({q}, c, g) THEN 1 ELSE 0)
  BY NodesGrow
<1>4. Occurrences(cl, g) \in Nat /\ Occurrences(gl, g) \in Nat
  BY PlacesFinite
<1>5. Occurrences(RemoveFirst(gl, m), g) \in Nat
  BY RemoveFirstElements, PlacesFinite
<1>6. /\ Cardinality(Nodes(R, c, g, n)) \in Nat /\ Cardinality(Leaves(R, c, g)) \in Nat
  BY NodesFinite
<1>7. /\ Cardinality(Nodes(R \cup {q}, c, g, n)) \in Nat
      /\ Cardinality(Leaves(R \cup {q}, c, g)) \in Nat
  <2>1. R \cup {q} \in SUBSET Responses /\ IsFiniteSet(R \cup {q})
    BY FS_AddElement
  <2> QED
    BY <2>1, NodesFinite
<1>8. /\ Cardinality(Nodes(R \cup {q}, c, g, n)) <= Cardinality(Nodes(R, c, g, n))
      /\ Cardinality(Leaves(R \cup {q}, c, g))
           >= Cardinality(Leaves(R, c, g)) + (IF m = g THEN 1 ELSE 0)
  BY <1>2, <1>3, <1>6, <1>7
<1> QED
  BY <1>1, <1>4, <1>5, <1>6, <1>7, <1>8 DEF Even
(* A message is taken off the network, or a copy of it stays there.        *)
LEMMA TakenLeaves ==
  ASSUME NEW m, NEW set, NEW set_, Taken(m, set, set_)
  PROVE  /\ set_ \subseteq set
         /\ duplicated' = "no" => duplicated = "no" /\ set_ = set \ {m}
  BY DEF Taken

(* What every action keeps of the requests and responses.                  *)
LEMMA PostedNext ==
  ASSUME TypeOK, Posted, [Next]_vars
  PROVE  Posted'
<1>0. /\ sent \in 0 .. MaxRequests /\ sent \in Nat /\ MaxRequests \in Nat
      /\ requests \subseteq Requests /\ responses \subseteq Responses
      /\ started \in [Client -> 0 .. MaxRequests]
      /\ notices \in [Client -> SUBSET Server] /\ server \in [Client -> Server]
      /\ IsFiniteSet(responses)
      /\ \A r \in requests \cup responses :
           r.id <= sent /\ (r.type = "leave" => Len(r.names) = 1)
      /\ \A c \in Client : started[c] <= sent /\ Primary \notin notices[c]
      /\ \A r \in requests : r.id > started[r.from] /\ server[r.from] = Primary =>
                             r.to = Primary
  BY NumbersAssumption DEF TypeOK, Posted
<1>1. /\ \A r \in requests : /\ r.id \in 1 .. MaxRequests /\ r.from \in Client
                             /\ r.type \in {"join", "leave"}
      /\ \A r \in responses : r.id \in 1 .. MaxRequests
  BY <1>0 DEF Requests, Responses
(* A request is sent: its number is new. *)
<1>2. ASSUME NEW c \in Client, NEW q, requests' = requests \cup {q},
             q.id = sent + 1, q.from = c, q.to = server'[c],
             q.type = "leave" => Len(q.names) = 1, sent' = sent + 1,
             UNCHANGED <<responses, started, notices, server>>
      PROVE  Posted'
  <2>1. \A r \in requests' \cup responses' :
          r.id <= sent' /\ (r.type = "leave" => Len(r.names) = 1)
    BY <1>0, <1>1, <1>2
  <2>2. \A b \in Client : started'[b] <= sent' /\ Primary \notin notices'[b]
    <3> TAKE b \in Client
    <3>1. started[b] \in 0 .. MaxRequests /\ started[b] <= sent
      BY <1>0
    <3> QED
      BY <1>0, <1>2, <3>1
  <2>3. \A r \in requests' : r.id > started'[r.from] /\ server'[r.from] = Primary =>
                             r.to = Primary
    BY <1>0, <1>1, <1>2
  <2> QED
    BY <1>0, <1>2, <2>1, <2>2, <2>3 DEF Posted
(* Requests are taken or answered, clients are told to go elsewhere. *)
<1>3. ASSUME requests' \subseteq requests, UNCHANGED <<sent, started>>,
             NEW q, responses' \subseteq responses \cup {q},
             q.id <= sent, q.type = "leave" => Len(q.names) = 1,
             \A b \in Client : /\ Primary \notin notices'[b]
                               /\ server'[b] = server[b] \/ server'[b] # Primary
      PROVE  Posted'
  <2>1. IsFiniteSet(responses')
    <3>1. IsFiniteSet(responses \cup {q})
      BY <1>0, FS_AddElement
    <3> QED
      BY <1>3, <3>1, FS_Subset
  <2>2. \A r \in requests' \cup responses' :
          r.id <= sent' /\ (r.type = "leave" => Len(r.names) = 1)
    BY <1>0, <1>3
  <2>3. \A r \in requests' : r.id > started'[r.from] /\ server'[r.from] = Primary =>
                             r.to = Primary
    BY <1>0, <1>1, <1>3
  <2> QED
    BY <1>0, <1>3, <2>1, <2>2, <2>3 DEF Posted
<1>4. ASSUME requests' \subseteq requests, responses' \subseteq responses,
             UNCHANGED <<sent, started>>,
             \A b \in Client : /\ Primary \notin notices'[b]
                               /\ server'[b] = server[b] \/ server'[b] # Primary
      PROVE  Posted'
  <2>1. IsFiniteSet(responses')
    BY <1>0, <1>4, FS_Subset
  <2>2. \A r \in requests' : r.id > started'[r.from] /\ server'[r.from] = Primary =>
                             r.to = Primary
    BY <1>0, <1>1, <1>4
  <2> QED
    BY <1>0, <1>4, <2>1, <2>2 DEF Posted
<1>5. CASE UNCHANGED <<requests, responses, notices, server, sent, started>>
  BY <1>5 DEF Posted
<1>6. ASSUME NEW c \in Client, NEW n \in Names, SendJoin(c, n)
      PROVE  Posted'
  <2> DEFINE q == [id |-> sent + 1, type |-> "join", from |-> c, to |-> server[c],
                   names |-> <<n>>, capability |-> client_capability[c]]
  <2>1. /\ requests' = requests \cup {q} /\ sent' = sent + 1
        /\ UNCHANGED <<responses, started, notices, server>>
    BY <1>6 DEF SendJoin, Post, client
  <2>2. q.id = sent + 1 /\ q.from = c /\ q.to = server'[c] /\ q.type # "leave"
    BY <2>1
  <2> HIDE DEF q
  <2> QED
    BY <1>0, <1>2, <2>1, <2>2
<1>7. ASSUME NEW c \in Client, NEW n \in Names, SendLeave(c, n)
      PROVE  Posted'
  <2> DEFINE q == [id |-> sent + 1, type |-> "leave", from |-> c, to |-> server[c],
                   names |-> <<n>>, capability |-> client_capability[c]]
  <2>1. /\ requests' = requests \cup {q} /\ sent' = sent + 1
        /\ UNCHANGED <<responses, started, notices, server>>
    BY <1>7 DEF SendLeave, Post, client
  <2>2. q.id = sent + 1 /\ q.from = c /\ q.to = server'[c] /\ Len(q.names) = 1
    BY <2>1
  <2> HIDE DEF q
  <2> QED
    BY <1>0, <1>2, <2>1, <2>2
<1>8. ASSUME NEW c \in Client, NEW l \in JoinLists, NEW k \in Capability,
             Start(c, l, k)
      PROVE  Posted'
  <2> DEFINE q == [id |-> sent + 1, type |-> "join", from |-> c, to |-> Primary,
                   names |-> l, capability |-> k]
  <2>1. /\ requests' = requests \cup {q} /\ sent' = sent + 1 /\ UNCHANGED responses
        /\ started' = [started EXCEPT ![c] = sent]
        /\ notices' = [notices EXCEPT ![c] = {}]
        /\ server' = [server EXCEPT ![c] = Primary]
    BY <1>8 DEF Start, Post
  <2>2. q.id = sent + 1 /\ q.from = c /\ q.to = server'[c] /\ q.type # "leave"
    BY <1>0, <2>1
  <2>3. started' \in [Client -> 0 .. MaxRequests]
    BY <1>0, <2>1
  <2>4. \A b \in Client \ {c} : /\ started'[b] = started[b] /\ server'[b] = server[b]
                                /\ notices'[b] = notices[b]
    BY <1>0, <2>1
  <2>5. started'[c] = sent /\ server'[c] = Primary /\ notices'[c] = {}
    BY <1>0, <2>1
  <2> HIDE DEF q
  (* The requests of the client's earlier process have numbers up to sent. *)
  <2>6. \A r \in requests' \cup responses' :
          r.id <= sent' /\ (r.type = "leave" => Len(r.names) = 1)
    BY <1>0, <1>1, <2>1, <2>2
  <2>7. \A b \in Client : started'[b] <= sent' /\ Primary \notin notices'[b]
    <3> TAKE b \in Client
    <3>1. started[b] \in 0 .. MaxRequests /\ started[b] <= sent
      BY <1>0
    <3> QED
      BY <1>0, <2>1, <2>4, <2>5, <3>1
  <2>8. ASSUME NEW r \in requests', r.id > started'[r.from], server'[r.from] = Primary
        PROVE  r.to = Primary
    <3>1. CASE r = q
      BY <2>2, <2>5, <3>1
    <3>2. CASE r \in requests
      <4>1. r.id <= sent /\ r.id \in Nat /\ r.from \in Client
        BY <1>0, <1>1, <3>2
      <4>2. r.from # c
        BY <1>0, <2>5, <2>8, <4>1
      <4> QED
        BY <1>0, <2>4, <2>8, <3>2, <4>1, <4>2
    <3> QED
      BY <2>1, <3>1, <3>2
  <2> QED
    BY <1>0, <2>1, <2>6, <2>7, <2>8 DEF Posted
<1>9. ASSUME NEW c \in Client, NEW r \in responses, RcvJoinRsp(c, r)
      PROVE  Posted'
  <2>1. responses' \subseteq responses
    BY <1>9, TakenLeaves DEF RcvJoinRsp
  <2> QED
    BY <1>0, <1>4, <1>9, <2>1 DEF RcvJoinRsp
<1>10. ASSUME NEW c \in Client, NEW r \in responses, RcvLeaveRsp(c, r)
       PROVE  Posted'
  <2>1. responses' \subseteq responses
    BY <1>10, TakenLeaves DEF RcvLeaveRsp
  <2> QED
    BY <1>0, <1>4, <1>10, <2>1 DEF RcvLeaveRsp
<1>11. ASSUME NEW c \in Client, NEW s \in Server, RcvNewServer(c, s)
       PROVE  Posted'
  <2>1. /\ s \in notices[c] /\ notices' = [notices EXCEPT ![c] = @ \ {s}]
        /\ server' = [server EXCEPT ![c] = s]
        /\ UNCHANGED <<requests, responses, started, sent>>
    BY <1>11 DEF RcvNewServer, history
  <2>2. \A b \in Client : /\ Primary \notin notices'[b]
                          /\ server'[b] = server[b] \/ server'[b] # Primary
    BY <1>0, <2>1
  <2> QED
    BY <1>4, <2>1, <2>2
<1>12. ASSUME NEW r \in requests, RcvJoin(r)
       PROVE  Posted'
  <2> DEFINE q == [id |-> r.id, type |-> "join", to |-> r.from,
                   names |-> Accepts(r.names)]
  <2>1. /\ requests' \subseteq requests /\ responses' \subseteq responses \cup {q}
        /\ UNCHANGED <<notices, server, sent, started>>
    BY <1>12, TakenLeaves DEF RcvJoin, client
  <2>2. q.id <= sent /\ q.type # "leave"
    BY <1>0
  <2> HIDE DEF q
  <2> QED
    BY <1>0, <1>3, <2>1, <2>2
<1>13. ASSUME NEW r \in requests, RcvLeave(r)
       PROVE  Posted'
  <2> DEFINE q == [id |-> r.id, type |-> "leave", to |-> r.from, names |-> r.names]
  <2>1. /\ requests' \subseteq requests /\ responses' \subseteq responses \cup {q}
        /\ UNCHANGED <<notices, server, sent, started>>
    BY <1>13, TakenLeaves DEF RcvLeave, client
  <2>2. q.id <= sent /\ Len(q.names) = 1
    BY <1>0, <1>13 DEF RcvLeave
  <2> HIDE DEF q
  <2> QED
    BY <1>0, <1>3, <2>1, <2>2
<1>14. CASE \E s \in Server : RcvCheckpoint(s)
  BY <1>5, <1>14 DEF RcvCheckpoint, net, client
<1>15. CASE \E s \in Server : CheckpointLost(s)
  BY <1>5, <1>15 DEF CheckpointLost, net, client
<1>16. CASE \E s \in Server : CheckpointOvertaken(s)
  BY <1>5, <1>16 DEF CheckpointOvertaken, net, client
<1>17. CASE \E s \in Server : NameBackup(s)
  BY <1>5, <1>17 DEF NameBackup, net, client
<1>18. ASSUME NEW s \in Server, Migrate(s)
       PROVE  Posted'
  <2>1. /\ UNCHANGED <<requests, responses, server, sent, started>>
        /\ \A b \in Client : notices'[b] \subseteq notices[b] \cup {BackupOf[s]}
    BY <1>0, <1>18 DEF Migrate, client, history
  <2> QED
    BY <1>0, <1>4, <2>1, BackupAssumption
<1>19. CASE \E s \in Server, g \in Group, c \in Client : WriteOff(s, g, c)
  BY <1>5, <1>19 DEF WriteOff, net, client
<1>20. CASE UNCHANGED vars
  BY <1>5, <1>20 DEF vars
<1> QED
  BY <1>6, <1>7, <1>8, <1>9, <1>10, <1>11, <1>12, <1>13, <1>14, <1>15, <1>16,
     <1>17, <1>18, <1>19, <1>20 DEF Next
(* A request that is answered is gone, unless a copy of it stays.          *)
LEMMA AnsweredOnceNext ==
  ASSUME TypeOK, Posted, AnsweredOnce, [Next]_vars
  PROVE  AnsweredOnce'
<1>0. /\ sent \in Nat
      /\ \A r \in requests \cup responses : r.id <= sent /\ r.id \in Nat
  BY NumbersAssumption DEF TypeOK, Posted, Requests, Responses
<1>1. ASSUME requests' \subseteq requests, responses' \subseteq responses,
             duplicated' = "no" => duplicated = "no"
      PROVE  AnsweredOnce'
  BY <1>1 DEF AnsweredOnce
<1>2. ASSUME NEW q, requests' = requests \cup {q}, q.id = sent + 1,
             UNCHANGED <<responses, duplicated>>
      PROVE  AnsweredOnce'
  <2>1. \A r \in requests \cup responses : r.id # q.id
    BY <1>0, <1>2
  <2> QED
    BY <1>2, <2>1 DEF AnsweredOnce
<1>3. ASSUME NEW r \in requests, Taken(r, requests, requests'), NEW q, q.id = r.id,
             responses' \subseteq responses \cup {q}
      PROVE  AnsweredOnce'
  <2>1. duplicated' = "no" => duplicated = "no" /\ requests' = requests \ {r}
    BY <1>3, TakenLeaves
  <2> QED
    BY <1>3, <2>1 DEF AnsweredOnce
<1>4. CASE \E c \in Client, n \in Names : SendJoin(c, n)
  <2>1. PICK q : /\ requests' = requests \cup {q} /\ q.id = sent + 1
                 /\ UNCHANGED <<responses, duplicated>>
    BY <1>4 DEF SendJoin, Post
  <2> QED
    BY <1>2, <2>1
<1>5. CASE \E c \in Client, n \in Names : SendLeave(c, n)
  <2>1. PICK q : /\ requests' = requests \cup {q} /\ q.id = sent + 1
                 /\ UNCHANGED <<responses, duplicated>>
    BY <1>5 DEF SendLeave, Post
  <2> QED
    BY <1>2, <2>1
<1>6. CASE \E c \in Client, l \in JoinLists, k \in Capability : Start(c, l, k)
  <2>1. PICK q : /\ requests' = requests \cup {q} /\ q.id = sent + 1
                 /\ UNCHANGED <<responses, duplicated>>
    BY <1>6 DEF Start, Post
  <2> QED
    BY <1>2, <2>1
<1>7. CASE \E c \in Client : \E r \in responses : RcvJoinRsp(c, r)
  BY <1>1, <1>7, TakenLeaves DEF RcvJoinRsp
<1>8. CASE \E c \in Client : \E r \in responses : RcvLeaveRsp(c, r)
  BY <1>1, <1>8, TakenLeaves DEF RcvLeaveRsp
<1>9. CASE \E c \in Client, s \in Server : RcvNewServer(c, s)
  BY <1>1, <1>9 DEF RcvNewServer, history
<1>10. ASSUME NEW r \in requests, RcvJoin(r)
       PROVE  AnsweredOnce'
  <2>1. PICK q : q.id = r.id /\ responses' \subseteq responses \cup {q}
    BY <1>10 DEF RcvJoin
  <2>2. Taken(r, requests, requests')
    BY <1>10 DEF RcvJoin
  <2> QED
    BY <1>3, <2>1, <2>2
<1>11. ASSUME NEW r \in requests, RcvLeave(r)
       PROVE  AnsweredOnce'
  <2>1. PICK q : q.id = r.id /\ responses' \subseteq responses \cup {q}
    BY <1>11 DEF RcvLeave
  <2>2. Taken(r, requests, requests')
    BY <1>11 DEF RcvLeave
  <2> QED
    BY <1>3, <2>1, <2>2
<1>12. CASE \E s \in Server : RcvCheckpoint(s)
  BY <1>1, <1>12 DEF RcvCheckpoint, net
<1>13. CASE \E s \in Server : CheckpointLost(s)
  BY <1>1, <1>13 DEF CheckpointLost, net
<1>14. CASE \E s \in Server : CheckpointOvertaken(s)
  BY <1>1, <1>14 DEF CheckpointOvertaken, net
<1>15. CASE \E s \in Server : NameBackup(s)
  BY <1>1, <1>15 DEF NameBackup, net
<1>16. CASE \E s \in Server : Migrate(s)
  BY <1>1, <1>16 DEF Migrate, history
<1>17. CASE \E s \in Server, g \in Group, c \in Client : WriteOff(s, g, c)
  BY <1>1, <1>17 DEF WriteOff, net
<1>18. CASE UNCHANGED vars
  BY <1>1, <1>18 DEF vars
<1> QED
  BY <1>4, <1>5, <1>6, <1>7, <1>8, <1>9, <1>10, <1>11, <1>12, <1>13, <1>14,
     <1>15, <1>16, <1>17, <1>18 DEF Next
(* Every action keeps the balance: what is sent or lost moves nothing; an  *)
(* answered join brings listings and nodes; a granted leave takes a        *)
(* listing and is under way; a response taken moves its nodes into the     *)
(* client's list, or takes one out.                                        *)
LEMMA BalancedNext ==
  ASSUME TypeOK, Consistent, Posted, AnsweredOnce, Balanced, Consistent',
         [Next]_vars
  PROVE  Balanced'
<1>1. SUFFICES ASSUME duplicated' = "no", NEW b \in Client, NEW g \in Group,
                      process'[b] = "running", server'[b] = Primary
               PROVE  Even(client_grp_list'[b], responses', started'[b],
                           db'[Primary].grp_list[b], b, g)
  BY DEF Balanced, Even, Coming, Granted, Nodes, Bringing, Leaves, Places
<1>2. ASSUME duplicated = "no", process[b] = "running", server[b] = Primary
      PROVE  Even(client_grp_list[b], responses, started[b],
                  db[Primary].grp_list[b], b, g)
  BY <1>2, BalancedIs
<1>3. /\ db \in [Server -> Sane] /\ db[Primary] \in Sane
      /\ client_grp_list \in [Client -> Seq(Names)] /\ client_grp_list[b] \in Seq(Names)
      /\ db[Primary].grp_list[b] \in Seq(Group)
      /\ db'[Primary].grp_list[b] \in Seq(Group)
      /\ responses \in SUBSET Responses /\ IsFiniteSet(responses)
      /\ requests \subseteq Requests
      /\ started \in [Client -> 0 .. MaxRequests] /\ sent \in Nat
      /\ process \in [Client -> {"running", "aborted"}] /\ server \in [Client -> Server]
  <2>1. db[Primary] \in Lists /\ db'[Primary] \in Lists
    BY PrimaryAssumption DEF Consistent, Sane
  <2> QED
    BY <2>1, PrimaryAssumption, NumbersAssumption DEF TypeOK, Posted, Consistent, Lists
<1>4. CASE /\ duplicated = "no" /\ process[b] = process'[b] /\ server[b] = server'[b]
           /\ client_grp_list'[b] = client_grp_list[b] /\ responses' = responses
           /\ started'[b] = started[b]
           /\ db'[Primary].grp_list[b] = db[Primary].grp_list[b]
  BY <1>1, <1>2, <1>4
<1>5. CASE \E c \in Client, n \in Names : SendJoin(c, n)
  BY <1>1, <1>4, <1>5 DEF SendJoin, client
<1>6. CASE \E c \in Client, n \in Names : SendLeave(c, n)
  BY <1>1, <1>4, <1>6 DEF SendLeave, client
<1>7. ASSUME NEW c \in Client, NEW l \in JoinLists, NEW k \in Capability,
             Start(c, l, k)
      PROVE  Even(client_grp_list'[b], responses', started'[b],
                  db'[Primary].grp_list[b], b, g)
  <2>1. /\ process' = [process EXCEPT ![c] = "running"]
        /\ client_grp_list' = [client_grp_list EXCEPT ![c] = <<>>]
        /\ server' = [server EXCEPT ![c] = Primary]
        /\ started' = [started EXCEPT ![c] = sent]
        /\ UNCHANGED <<db, responses, duplicated>>
    BY <1>7 DEF Start
  <2>2. CASE b # c
    BY <1>1, <1>3, <1>4, <2>1, <2>2
  <2>3. CASE b = c
    <3>1. client_grp_list'[b] = <<>> /\ started'[b] = sent
      BY <1>3, <2>1, <2>3
    <3>2. Bringing(responses, b, sent) = {}
      <4>1. \A r \in responses : r.id <= sent /\ r.id \in Nat
        BY <1>3 DEF Posted, Responses
      <4> QED
        BY <1>3, <4>1 DEF Bringing
    <3>3. Nodes(responses, b, g, sent) = {}
      BY <3>2 DEF Nodes
    <3>4. Cardinality(Nodes(responses, b, g, sent)) = 0
      BY <3>3, FS_EmptySet
    <3>5. Occurrences(<<>>, g) = 0
      <4>1. {i \in DOMAIN <<>> : <<>>[i] = g} = {}
        OBVIOUS
      <4> QED
        BY <4>1, FS_EmptySet DEF Occurrences
    <3>6. /\ Occurrences(db[Primary].grp_list[b], g) \in Nat
          /\ Cardinality(Leaves(responses, b, g)) \in Nat
      BY <1>3, PlacesFinite, NodesFinite
    <3> QED
      BY <2>1, <3>1, <3>4, <3>5, <3>6 DEF Even
  <2> QED
    BY <2>2, <2>3
<1>8. ASSUME NEW c \in Client, NEW r \in responses, RcvJoinRsp(c, r)
      PROVE  Even(client_grp_list'[b], responses', started'[b],
                  db'[Primary].grp_list[b], b, g)
  <2>1. /\ duplicated = "no" /\ responses' = responses \ {r}
        /\ client_grp_list' = [client_grp_list EXCEPT ![c] = Reverse(r.names) \o @]
        /\ UNCHANGED <<db, process, server, started>>
        /\ r.type = "join" /\ r.to = c /\ r.id > started[c]
    BY <1>1, <1>8, TakenLeaves DEF RcvJoinRsp, Reaches
  <2>2. Even(client_grp_list[b], responses, started[b], db[Primary].grp_list[b], b, g)
    BY <1>1, <1>2, <2>1
  <2>3. CASE b = c
    <3>1. r \in Bringing({r}, b, started[b])
      BY <2>1, <2>3 DEF Bringing
    <3>2. Even(Reverse(r.names) \o client_grp_list[b], responses \ {r}, started[b],
               db[Primary].grp_list[b], b, g)
      BY <1>3, <2>2, <3>1, EvenJoinRsp
    <3>3. client_grp_list'[b] = Reverse(r.names) \o client_grp_list[b]
      BY <1>3, <2>1, <2>3
    <3> QED
      BY <2>1, <3>2, <3>3
  <2>4. CASE b # c
    <3>1. r \notin Leaves({r}, b, g)
      BY <2>1, <2>4 DEF Leaves
    <3>2. Even(client_grp_list[b], responses \ {r}, started[b],
               db[Primary].grp_list[b], b, g)
      BY <1>3, <2>2, <3>1, EvenTaken
    <3>3. client_grp_list'[b] = client_grp_list[b]
      BY <1>3, <2>1, <2>4
    <3> QED
      BY <2>1, <3>2, <3>3
  <2> QED
    BY <2>3, <2>4
<1>9. ASSUME NEW c \in Client, NEW r \in responses, RcvLeaveRsp(c, r)
      PROVE  Even(client_grp_list'[b], responses', started'[b],
                  db'[Primary].grp_list[b], b, g)
  <2> DEFINE m == r.names[1]
             has == \E i \in DOMAIN client_grp_list[c] : client_grp_list[c][i] = m
  <2>1. /\ duplicated = "no" /\ responses' = responses \ {r}
        /\ client_grp_list' = [client_grp_list EXCEPT ![c] = RemoveFirst(@, m)]
        /\ process' = IF has THEN process ELSE [process EXCEPT ![c] = "aborted"]
        /\ UNCHANGED <<db, server, started>>
        /\ r.type = "leave" /\ r.to = c /\ process[c] = "running"
    BY <1>1, <1>9, TakenLeaves DEF RcvLeaveRsp, Reaches
  <2> HIDE DEF has
  <2>2. b = c => has
    BY <1>1, <1>3, <2>1
  <2>3. process[b] = "running" /\ server[b] = Primary
    BY <1>1, <1>3, <2>1, <2>2
  <2>4. Even(client_grp_list[b], responses, started[b], db[Primary].grp_list[b], b, g)
    BY <1>2, <2>1, <2>3
  <2>5. CASE b = c
    <3>1. \E i \in DOMAIN client_grp_list[b] : client_grp_list[b][i] = m
      BY <2>2, <2>5 DEF has
    <3>2. Even(RemoveFirst(client_grp_list[b], m), responses \ {r}, started[b],
               db[Primary].grp_list[b], b, g)
      BY <1>3, <2>4, <3>1, EvenLeaveRsp
    <3>3. client_grp_list'[b] = RemoveFirst(client_grp_list[b], m)
      BY <1>3, <2>1, <2>5
    <3> QED
      BY <2>1, <3>2, <3>3
  <2>6. CASE b # c
    <3>1. r \notin Leaves({r}, b, g)
      BY <2>1, <2>6 DEF Leaves
    <3>2. Even(client_grp_list[b], responses \ {r}, started[b],
               db[Primary].grp_list[b], b, g)
      BY <1>3, <2>4, <3>1, EvenTaken
    <3>3. client_grp_list'[b] = client_grp_list[b]
      BY <1>3, <2>1, <2>6
    <3> QED
      BY <2>1, <3>2, <3>3
  <2> QED
    BY <2>5, <2>6
<1>10. ASSUME NEW c \in Client, NEW s \in Server, RcvNewServer(c, s)
       PROVE  Even(client_grp_list'[b], responses', started'[b],
                   db'[Primary].grp_list[b], b, g)
  <2>1. /\ s \in notices[c] /\ server' = [server EXCEPT ![c] = s]
        /\ UNCHANGED <<db, responses, process, client_grp_list, started, duplicated>>
    BY <1>10 DEF RcvNewServer, history
  <2>2. b # c
    BY <1>1, <1>3, <2>1 DEF Posted
  <2> QED
    BY <1>1, <1>3, <1>4, <2>1, <2>2

<1>11. ASSUME NEW r \in requests, RcvJoin(r)
       PROVE  Even(client_grp_list'[b], responses', started'[b],
                   db'[Primary].grp_list[b], b, g)
  <2> DEFINE q == [id |-> r.id, type |-> "join", to |-> r.from,
                   names |-> Accepts(r.names)]
             gl == db[Primary].grp_list[b]
             hl == db'[Primary].grp_list[b]
             n == started[b]
  <2>1. /\ duplicated = "no"
        /\ responses' = responses \/ responses' = responses \cup {q}
        /\ db' = [db EXCEPT ![r.to] = Joined(@, Groups(r.names), r.from, r.capability)]
        /\ UNCHANGED <<process, client_grp_list, server, started>>
    BY <1>1, <1>11, TakenLeaves DEF RcvJoin, client
  <2>2. /\ r.to \in Server /\ r.from \in Client /\ r.names \in Seq(Names)
        /\ r.capability \in Capability /\ r.id \in 1 .. MaxRequests
    BY <1>3 DEF Requests
  <2>3. Groups(r.names) \in Seq(Group) /\ Accepts(r.names) \in Seq(Names)
    BY <2>2, GroupsType
  <2>4. q \in Responses
    BY <2>2, <2>3 DEF Responses
  <2>5. gl \in Seq(Group) /\ hl \in Seq(Group)
    BY <1>3
  <2>6. Even(client_grp_list[b], responses, n, gl, b, g)
    BY <1>1, <1>2, <2>1
  (* What the client's process asks while it talks to the primary goes there. *)
  <2>7. q \in Bringing({q}, b, n) => b = r.from /\ r.to = Primary
    BY <1>1, <2>1 DEF Bringing, Posted
  <2>8. r.to = Primary => db'[Primary] =
          Joined(db[Primary], Groups(r.names), r.from, r.capability)
    BY <1>3, <2>1, <2>2
  <2>9. r.to # Primary => db'[Primary] = db[Primary]
    BY <1>3, <2>1, <2>2
  <2>10. /\ Occurrences(gl, g) \in Nat /\ Occurrences(q.names, g) \in Nat
         /\ Occurrences(Groups(r.names), g) \in Nat /\ Occurrences(hl, g) \in Nat
    <3>1. q.names \in Seq(Names)
      BY <2>3
    <3> QED
      BY <2>3, <2>5, <3>1, PlacesFinite
  <2>11. Occurrences(q.names, g) <= Occurrences(Groups(r.names), g)
    <3>1. q.names = Accepts(r.names)
      OBVIOUS
    <3> QED
      BY <2>2, <3>1, AcceptsOccurs
  <2>12. Occurrences(hl, g) >= Occurrences(gl, g)
           + (IF q \in Bringing({q}, b, n) THEN Occurrences(q.names, g) ELSE 0)
    <3>1. CASE r.to = Primary /\ b = r.from
      <4>1. Occurrences(hl, g) >= Occurrences(gl, g) + Occurrences(Groups(r.names), g)
        BY <1>3, <2>2, <2>3, <2>8, <3>1, JoinedListings
      <4> HIDE DEF q, gl, hl
      <4> QED
        BY <2>10, <2>11, <4>1
    <3>2. CASE ~(r.to = Primary /\ b = r.from)
      <4>1. hl = gl
        BY <1>3, <2>2, <2>3, <2>8, <2>9, <3>2, JoinedListings
      <4> HIDE DEF q, gl, hl
      <4> QED
        BY <2>7, <2>10, <3>2, <4>1
    <3> QED
      BY <3>1, <3>2
  <2> HIDE DEF q, gl, hl, n
  <2>13. /\ Even(client_grp_list[b], responses, n, hl, b, g)
         /\ Even(client_grp_list[b], responses \cup {q}, n, hl, b, g)
    BY <1>3, <2>4, <2>5, <2>6, <2>12, EvenJoin
  <2> QED
    BY <2>1, <2>13 DEF hl, n
<1>12. ASSUME NEW r \in requests, RcvLeave(r)
       PROVE  Even(client_grp_list'[b], responses', started'[b],
                   db'[Primary].grp_list[b], b, g)
  <2> DEFINE m == r.names[1]
             q == [id |-> r.id, type |-> "leave", to |-> r.from, names |-> r.names]
             gl == db[Primary].grp_list[b]
             hl == db'[Primary].grp_list[b]
             n == started[b]
  <2>1. /\ duplicated = "no" /\ UNCHANGED <<process, client_grp_list, server, started>>
        /\ r.type = "leave"
        /\ \/ UNCHANGED <<db, responses>>
           \/ /\ Listed(db[r.to], m, r.from)
              /\ db' = [db EXCEPT ![r.to] = Removed(@, m, r.from)]
              /\ responses' = responses \cup {q}
    BY <1>1, <1>12, TakenLeaves DEF RcvLeave, client
  <2>2. CASE UNCHANGED <<db, responses>>
    BY <1>1, <1>4, <2>1, <2>2
  <2>3. CASE /\ Listed(db[r.to], m, r.from)
             /\ db' = [db EXCEPT ![r.to] = Removed(@, m, r.from)]
             /\ responses' = responses \cup {q}
    <3>1. /\ r.to \in Server /\ r.from \in Client /\ r.names \in Seq(Names)
          /\ r.id \in 1 .. MaxRequests
      BY <1>3 DEF Requests
    <3>2. q \in Responses
      BY <3>1 DEF Responses
    <3>3. gl \in Seq(Group) /\ hl \in Seq(Group)
      BY <1>3
    <3>4. Even(client_grp_list[b], responses, n, gl, b, g)
      BY <1>1, <1>2, <2>1
    <3>5. CASE r.to = Primary /\ b = r.from
      <4>1. db'[Primary] = Removed(db[Primary], m, b)
        BY <1>3, <2>3, <3>1, <3>5
      <4>2. Listed(db[Primary], m, b)
        BY <2>3, <3>5
      <4>3. m \in Group
        BY <1>3, <4>2 DEF Listed
      <4>4. hl = RemoveFirst(gl, m)
        BY <1>3, <4>1, <4>2, <4>3, RemovedListings
      <4>5. q \notin responses
        BY <2>1 DEF AnsweredOnce
      <4>6. q.names = <<m>> /\ q.type = "leave" /\ q.to = b
        BY <2>1, <3>1, <3>5 DEF Posted
      <4> HIDE DEF q, gl, hl, n, m
      <4>7. Even(client_grp_list[b], responses \cup {q}, n, RemoveFirst(gl, m), b, g)
        BY <1>3, <3>2, <3>3, <3>4, <4>5, <4>6, EvenLeave
      <4> QED
        BY <2>1, <2>3, <4>4, <4>7 DEF hl, n
    <3>6. CASE ~(r.to = Primary /\ b = r.from)
      <4>1. hl = gl
        <5>1. CASE r.to # Primary
          BY <1>3, <2>3, <3>1, <5>1
        <5>2. CASE r.to = Primary
          <6>1. db'[Primary] = Removed(db[Primary], m, r.from)
            BY <1>3, <2>3, <3>1, <5>2
          <6>2. Listed(db[Primary], m, r.from)
            BY <2>3, <5>2
          <6>3. m \in Group
            <7>1. db[Primary].grp_list[r.from] \in Seq(Group)
              BY <1>3, <3>1 DEF Sane, Lists
            <7> QED
              BY <6>2, <7>1, <5>2 DEF Listed
          <6> QED
            BY <1>3, <3>1, <3>6, <5>2, <6>1, <6>2, <6>3, RemovedListings
        <5> QED
          BY <5>1, <5>2
      <4>2. q \notin Bringing({q}, b, n)
        BY DEF Bringing
      <4>3. Occurrences(gl, g) \in Nat
        BY <3>3, PlacesFinite
      <4> HIDE DEF q, gl, hl, n, m
      <4>4. Occurrences(hl, g) >= Occurrences(gl, g)
              + (IF q \in Bringing({q}, b, n) THEN Occurrences(q.names, g) ELSE 0)
        BY <4>1, <4>2, <4>3
      <4>5. Even(client_grp_list[b], responses \cup {q}, n, hl, b, g)
        BY <1>3, <3>2, <3>3, <3>4, <4>4, EvenJoin
      <4> QED
        BY <2>1, <2>3, <4>5 DEF hl, n
    <3> QED
      BY <3>5, <3>6
  <2> QED
    BY <2>1, <2>2, <2>3
<1>13. ASSUME NEW s \in Server, RcvCheckpoint(s)
       PROVE  Even(client_grp_list'[b], responses', started'[b],
                   db'[Primary].grp_list[b], b, g)
  <2>1. /\ db' = [db EXCEPT ![BackupOf[s]] = Replayed(@, Head(link[s]))]
        /\ UNCHANGED <<responses, process, client_grp_list, server, started, duplicated>>
    BY <1>13 DEF RcvCheckpoint, net, client
  <2>2. db'[Primary] = db[Primary]
    BY <1>3, <2>1, BackupAssumption, PrimaryAssumption
  <2> QED
    BY <1>1, <1>4, <2>1, <2>2
<1>14. CASE \E s \in Server : CheckpointLost(s)
  BY <1>1, <1>4, <1>14 DEF CheckpointLost, net, client
<1>15. CASE \E s \in Server : CheckpointOvertaken(s)
  BY <1>1, <1>4, <1>15 DEF CheckpointOvertaken, net, client
<1>16. CASE \E s \in Server : NameBackup(s)
  BY <1>1, <1>4, <1>16 DEF NameBackup, net, client
<1>17. CASE \E s \in Server : Migrate(s)
  BY <1>1, <1>4, <1>17 DEF Migrate, client, history
<1>18. ASSUME NEW s \in Server, NEW h \in Group, NEW c \in Client, WriteOff(s, h, c)
       PROVE  Even(client_grp_list'[b], responses', started'[b],
                   db'[Primary].grp_list[b], b, g)
  <2>1. /\ UNCHANGED <<responses, process, client_grp_list, server, started, duplicated>>
        /\ db' = [db EXCEPT ![s].grp_capability[h] =
                              (@ - db[s].capability[c]) % Word]
    BY <1>18 DEF WriteOff, net, client
  <2>2. db'[Primary].grp_list = db[Primary].grp_list
    <3>1. CASE s # Primary
      BY <1>3, <2>1, <3>1
    <3>2. CASE s = Primary
      <4>1. db'[s] = [db[s] EXCEPT !.grp_capability[h] =
                        (@ - db[s].capability[c]) % Word]
        BY <1>3, <2>1, ZenonT(30)
      <4>2. PICK ci, gc, gl, cap :
              db[s] = [client_info |-> ci, grp_capability |-> gc, grp_list |-> gl,
                       capability |-> cap]
        BY <1>3 DEF Sane, Lists
      <4> QED
        BY <3>2, <4>1, <4>2
    <3> QED
      BY <3>1, <3>2
  <2> QED
    BY <1>1, <1>4, <2>1, <2>2
<1>19. CASE UNCHANGED vars
  BY <1>1, <1>4, <1>19 DEF vars
<1> QED
  BY <1>5, <1>6, <1>7, <1>8, <1>9, <1>10, <1>11, <1>12, <1>13, <1>14, <1>15,
     <1>16, <1>17, <1>18, <1>19 DEF Next

----------------------------------------------------------------------------
(* In every behaviour requests and responses are as they were posted, a    *)
(* request is answered once and the balance is kept.                       *)
LEMMA BalanceInvariance == Spec => [](Posted /\ AnsweredOnce /\ Balanced)
<1>1. ASSUME Init
      PROVE  Posted /\ AnsweredOnce /\ Balanced
  <2>1. Posted
    BY <1>1, FS_EmptySet DEF Init, Posted
  <2>2. AnsweredOnce
    BY <1>1 DEF Init, AnsweredOnce
  <2>3. ASSUME NEW c \in Client, NEW g \in Group
        PROVE  Even(client_grp_list[c], responses, started[c],
                    db[Primary].grp_list[c], c, g)
    <3>1. responses = {} /\ client_grp_list[c] = <<>> /\ db[Primary].grp_list[c] = <<>>
      BY <1>1, PrimaryAssumption DEF Init, NoClients
    <3>2. Nodes({}, c, g, started[c]) = {} /\ Leaves({}, c, g) = {}
      BY DEF Nodes, Bringing, Leaves
    <3>3. Occurrences(<<>>, g) = 0
      <4>1. {i \in DOMAIN <<>> : <<>>[i] = g} = {}
        OBVIOUS
      <4> QED
        BY <4>1, FS_EmptySet DEF Occurrences
    <3>4. /\ Cardinality(Nodes(responses, c, g, started[c])) = 0
          /\ Cardinality(Leaves(responses, c, g)) = 0
      BY <3>1, <3>2, FS_EmptySet
    <3> QED
      BY <3>1, <3>3, <3>4 DEF Even
  <2>4. Balanced
    BY <2>3, BalancedIs
  <2> QED
    BY <2>1, <2>2, <2>4
<1>2. ASSUME TypeOK, Consistent, Posted, AnsweredOnce, Balanced, Consistent', [Next]_vars
      PROVE  Posted' /\ AnsweredOnce' /\ Balanced'
  BY <1>2, PostedNext, AnsweredOnceNext, BalancedNext
<1>3. Spec => [](TypeOK /\ Consistent /\ Mirroring)
  BY Invariance
<1> QED
  BY <1>1, <1>2, <1>3, PTL DEF Spec

(* No client is in a group behind the server's back (handle_join_req,      *)
(* handle_leave_req and the handlers of their responses): while clients    *)
(* talk to the primary and no datagram is delivered twice, a client has no *)
(* more nodes for a group, those under way included, than its RBT node has *)
(* listings and leaves it has been granted - whatever is lost or           *)
(* overtaken, and however often clients are started again.                 *)
THEOREM NobodyListensUnknown == Spec => []ListenersAreRegistered
<1>1. Balanced => ListenersAreRegistered
  BY DEF Balanced, ListenersAreRegistered
<1> QED
  BY <1>1, BalanceInvariance, PTL
=============================================================================
