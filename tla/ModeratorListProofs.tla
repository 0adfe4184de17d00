------------------------- MODULE ModeratorListProofs -------------------------
(***************************************************************************)
(* The lists of a moderator stay lists, every part is accounted for and no *)
(* own part is forgotten, for any number of clients, worker threads and    *)
(* parts.  A list is what its pointers say one by one (Linked); a walk     *)
(* along them is not needed to reason about what the macros do.            *)
(***************************************************************************)
EXTENDS ModeratorLists, FoldLemmas

Places == Cell \cup List
Memories == [next : [Places -> Cell \cup {Null}], prev : [Places -> Cell \cup {Null}],
             length : [List -> Nat]]

(* The pointers m of list l hold the nodes s, in this order.               *)
Linked(m, l, s) ==
  /\ s \in Seq(Cell) /\ IsInjective(s)
  /\ m.prev[l] = IF s = <<>> THEN Null ELSE s[1]
  /\ m.next[l] = IF s = <<>> THEN Null ELSE s[Len(s)]
  /\ \A i \in 1 .. Len(s) :
       /\ m.prev[s[i]] = IF i = 1 THEN Null ELSE s[i - 1]
       /\ m.next[s[i]] = IF i = Len(s) THEN Null ELSE s[i + 1]
  /\ m.length[l] = Len(s)

(* The nodes of the pending list.                                          *)
Waiting == Range(meant[Pending])

(* Both lists are what their pointers say and share no node.               *)
Chained ==
  /\ meant \in [List -> Seq(Cell)]
  /\ \A l \in List : Linked(Memory, l, meant[l])
  /\ Waiting \cap Range(meant[Done]) = {}

(* A node in a list is allocated, a pending one waits for a part, and each *)
(* client has one.                                                         *)
Nodes ==
  /\ \A l \in List : \A e \in Range(meant[l]) : id[e] # Null
  /\ \A e \in Waiting : refs[e] # 0
  /\ \A e, f \in Waiting : id[e] = id[f] => e = f
  /\ role # "up" => \A l \in List : meant[l] = <<>>

(* There is memory for what is still to be entered.                        *)
Allocated == {e \in Cell : id[e] # Null}
Space ==
  /\ handed \in Nat /\ dropped \in Nat /\ refused \in Nat
  /\ Cardinality(Allocated) <= handed
  /\ handed + Len(todo) <= Cardinality(Cell)

(* The parts at the nodes of a set are counted by refs.                    *)
Parts(w, W) == SumFunctionOnSet(w, W)

Budget ==
  /\ role = "new" => handed = 0 /\ dropped = 0 /\ resp = 0 /\ refused = 0
  /\ role = "up" => resp + refused + Parts(refs, Waiting) + dropped = handed

(* What each thread may be at.                                             *)
Threads ==
  /\ pc["timer"] \in {"idle", "walk", "collected", "send"}
  /\ pc["main"] \notin {"hired", "working", "walk"}
  /\ \A w \in Worker : pc[w] \notin {"task", "walk", "cleanup", "push", "retire"}
  /\ pc["main"] = "task" => role = "up"
  /\ pc["main"] # "task" => todo = <<>>
  /\ pc["timer"] = "walk" => role = "up" /\ at \in Waiting \cup {Null}
  /\ role = "new" => given = {} /\ \A t \in Thread : pc[t] = "idle"

(* The mutex is its holder's; only one who works alone sends without it.   *)
Holders ==
  /\ \A t \in Thread : t # "timer" /\ pc[t] \in {"update", "collected", "send"} => lock = t
  /\ ~ alone => pc["timer"] \in {"idle", "walk"}

(* The workers that have a part in hand, and the parts of others.          *)
Engaged == {w \in Worker : pc[w] \in {"hired", "working", "check", "wait", "update"}}
All == 1 .. expected
Others == {p \in All : asked[p] # Self}

(* The response has different parts; those the main loop has in hand are   *)
(* others'; one of the moderator's own is in the hands of one thread until *)
(* it is answered, and is never given up.                                  *)
Answers ==
  /\ asked \in Seq(Client) /\ expected = Len(asked)
  /\ answered \subseteq All /\ resp = Cardinality(answered)
  /\ Self \notin gone
  /\ given \subseteq Client \X Others

InHand ==
  /\ pc["main"] \in {"check", "wait", "update"} => file["main"] \in Others
  /\ \A w \in Engaged : /\ file[w] \in All
                        /\ file[w] \notin Others => file[w] \notin answered
  /\ \A v, w \in Engaged : file[v] = file[w] /\ file[w] \notin Others => v = w

OwnParts == Answers /\ InHand /\ OwnPartsFirst

Inv == TypeOK /\ Chained /\ Nodes /\ Space /\ Budget /\ Threads /\ Holders /\ OwnParts

----------------------------------------------------------------------------
(* An element that is once in a sequence: what is removed is its place.    *)
LEMMA RemoveFirstOnce ==
  ASSUME NEW S, NEW seq \in Seq(S), IsInjective(seq), NEW i \in 1 .. Len(seq)
  PROVE  RemoveFirst(seq, seq[i]) = RemoveAt(seq, i)
<1>1. PICK j \in 1 .. Len(seq) : /\ seq[j] = seq[i]
                                 /\ RemoveFirst(seq, seq[i]) = RemoveAt(seq, j)
  BY RemoveFirstAt
<1>2. j = i
  BY <1>1 DEF IsInjective
<1> QED
  BY <1>1, <1>2

(* The pointers after SN_LIST_ELEMENT_UNLINK, one by one.                  *)
AfterUnlink(m, l, e, u) ==
  LET p == m.prev[e]
      n == m.next[e]
  IN  /\ u = [next |-> u.next, prev |-> u.prev, length |-> u.length]
      /\ u.next \in [Places -> Cell \cup {Null}]
      /\ u.prev \in [Places -> Cell \cup {Null}]
      /\ \A x \in Places :
           /\ u.next[x] = IF x = e THEN Null
                          ELSE IF n = Null /\ x = l THEN p
                          ELSE IF p # Null /\ x = p THEN n ELSE m.next[x]
           /\ u.prev[x] = IF x = e THEN Null
                          ELSE IF n # Null /\ x = n THEN p
                          ELSE IF p = Null /\ x = l THEN n ELSE m.prev[x]
      /\ u.length = [m.length EXCEPT ![l] = @ - 1]

LEMMA UnlinkedPointers ==
  ASSUME NEW m \in Memories, NEW l \in List, NEW e \in Cell
  PROVE  AfterUnlink(m, l, e, Unlinked(m, l, e))
<1> DEFINE p == m.prev[e]
           n == m.next[e]
           a == IF p # Null THEN [m EXCEPT !.next[p] = n] ELSE [m EXCEPT !.prev[l] = n]
           b == IF n # Null THEN [a EXCEPT !.prev[n] = p] ELSE [a EXCEPT !.next[l] = p]
           u == Unlinked(m, l, e)
<1>1. /\ m.next \in [Places -> Cell \cup {Null}] /\ m.prev \in [Places -> Cell \cup {Null}]
      /\ m.length \in [List -> Nat]
      /\ m = [next |-> m.next, prev |-> m.prev, length |-> m.length]
  BY DEF Memories
<1>2. /\ e \in Places /\ l \in Places /\ p \in Cell \cup {Null} /\ n \in Cell \cup {Null}
      /\ l \notin Cell /\ l # Null /\ Cell \subseteq Places
  BY <1>1, MemoryAssumption DEF Places, List
<1>3. a = [next |-> IF p # Null THEN [m.next EXCEPT ![p] = n] ELSE m.next,
           prev |-> IF p # Null THEN m.prev ELSE [m.prev EXCEPT ![l] = n],
           length |-> m.length]
  BY <1>1
<1>4. b = [next |-> IF n # Null THEN a.next ELSE [a.next EXCEPT ![l] = p],
           prev |-> IF n # Null THEN [a.prev EXCEPT ![n] = p] ELSE a.prev,
           length |-> m.length]
  <2>1. a = [next |-> a.next, prev |-> a.prev, length |-> m.length]
    BY <1>3
  <2> HIDE DEF a, p, n
  <2> QED
    BY <2>1
<1>5. u = [next |-> [b.next EXCEPT ![e] = Null], prev |-> [b.prev EXCEPT ![e] = Null],
           length |-> [m.length EXCEPT ![l] = @ - 1]]
  <2> DEFINE c == [b EXCEPT !.next[e] = Null]
             d == [c EXCEPT !.prev[e] = Null]
  <2>1. b = [next |-> b.next, prev |-> b.prev, length |-> m.length]
    BY <1>4
  <2>2. u = [b EXCEPT !.next[e] = Null, !.prev[e] = Null, !.length[l] = @ - 1]
    BY DEF Unlinked
  <2> HIDE DEF b, u
  <2>3. u = [d EXCEPT !.length[l] = m.length[l] - 1]
    <3>1. b.length = m.length
      BY <2>1
    <3>2. u = [b EXCEPT !.next[e] = Null, !.prev[e] = Null,
                        !.length[l] = m.length[l] - 1]
      BY <2>2, <3>1
    <3> QED
      BY <2>1, <3>2
  <2>4. c = [next |-> [b.next EXCEPT ![e] = Null], prev |-> b.prev, length |-> m.length]
    BY <2>1
  <2> HIDE DEF c
  <2>5. d = [next |-> c.next, prev |-> [b.prev EXCEPT ![e] = Null], length |-> m.length]
    BY <2>4
  <2> HIDE DEF d
  <2>6. u = [next |-> d.next, prev |-> d.prev,
             length |-> [m.length EXCEPT ![l] = m.length[l] - 1]]
    BY <2>3, <2>5
  <2> QED
    BY <2>4, <2>5, <2>6
<1>6. /\ a.next = IF p # Null THEN [m.next EXCEPT ![p] = n] ELSE m.next
      /\ a.prev = IF p # Null THEN m.prev ELSE [m.prev EXCEPT ![l] = n]
      /\ b.next = IF n # Null THEN a.next ELSE [a.next EXCEPT ![l] = p]
      /\ b.prev = IF n # Null THEN [a.prev EXCEPT ![n] = p] ELSE a.prev
      /\ u.next = [b.next EXCEPT ![e] = Null] /\ u.prev = [b.prev EXCEPT ![e] = Null]
      /\ u.length = [m.length EXCEPT ![l] = @ - 1]
  <2>1. /\ a.next = IF p # Null THEN [m.next EXCEPT ![p] = n] ELSE m.next
        /\ a.prev = IF p # Null THEN m.prev ELSE [m.prev EXCEPT ![l] = n]
    BY <1>3
  <2>2. /\ b.next = IF n # Null THEN a.next ELSE [a.next EXCEPT ![l] = p]
        /\ b.prev = IF n # Null THEN [a.prev EXCEPT ![n] = p] ELSE a.prev
    <3> HIDE DEF a, b, n, p
    <3> QED
      BY <1>4
  <2>3. /\ u.next = [b.next EXCEPT ![e] = Null] /\ u.prev = [b.prev EXCEPT ![e] = Null]
        /\ u.length = [m.length EXCEPT ![l] = @ - 1]
    <3> HIDE DEF b, u
    <3> QED
      BY <1>5
  <2> QED
    BY <2>1, <2>2, <2>3
<1>0. u = [next |-> u.next, prev |-> u.prev, length |-> u.length]
  <2> HIDE DEF b, u
  <2> QED
    BY <1>5
<1> HIDE DEF a, b, u, p, n
<1>7. /\ a.next \in [Places -> Cell \cup {Null}]
      /\ a.prev \in [Places -> Cell \cup {Null}]
      /\ \A x \in Places : /\ a.next[x] = IF p # Null /\ x = p THEN n ELSE m.next[x]
                           /\ a.prev[x] = IF p = Null /\ x = l THEN n ELSE m.prev[x]
  BY <1>1, <1>2, <1>6
<1>8. /\ b.next \in [Places -> Cell \cup {Null}]
      /\ b.prev \in [Places -> Cell \cup {Null}]
      /\ \A x \in Places : /\ b.next[x] = IF n = Null /\ x = l THEN p ELSE a.next[x]
                           /\ b.prev[x] = IF n # Null /\ x = n THEN p ELSE a.prev[x]
  BY <1>2, <1>6, <1>7
<1>9. /\ u.next \in [Places -> Cell \cup {Null}]
      /\ u.prev \in [Places -> Cell \cup {Null}]
      /\ \A x \in Places : /\ u.next[x] = IF x = e THEN Null ELSE b.next[x]
                           /\ u.prev[x] = IF x = e THEN Null ELSE b.prev[x]
  <2> DEFINE v == u.next
             w == b.next
             y == u.prev
             z == b.prev
  <2>1. /\ v = [w EXCEPT ![e] = Null] /\ w \in [Places -> Cell \cup {Null}]
        /\ y = [z EXCEPT ![e] = Null] /\ z \in [Places -> Cell \cup {Null}]
    BY <1>6, <1>8
  <2> HIDE DEF v, w, y, z
  <2>2. /\ v \in [Places -> Cell \cup {Null}]
        /\ \A x \in Places : v[x] = IF x = e THEN Null ELSE w[x]
    BY <1>2, <2>1
  <2>3. /\ y \in [Places -> Cell \cup {Null}]
        /\ \A x \in Places : y[x] = IF x = e THEN Null ELSE z[x]
    BY <1>2, <2>1
  <2> QED
    BY <2>2, <2>3 DEF v, w, y, z
<1>10. \A x \in Places :
         /\ u.next[x] = IF x = e THEN Null
                        ELSE IF n = Null /\ x = l THEN p
                        ELSE IF p # Null /\ x = p THEN n ELSE m.next[x]
         /\ u.prev[x] = IF x = e THEN Null
                        ELSE IF n # Null /\ x = n THEN p
                        ELSE IF p = Null /\ x = l THEN n ELSE m.prev[x]
  BY <1>7, <1>8, <1>9
<1> QED
  BY <1>0, <1>6, <1>9, <1>10 DEF u, p, n, AfterUnlink

(* The pointers after SN_LIST_ELEMENT_INSERT_BEFORE the head.              *)
AfterInsert(m, l, e, u) ==
  LET h == m.prev[l]
  IN  /\ u = [next |-> u.next, prev |-> u.prev, length |-> u.length]
      /\ u.next \in [Places -> Cell \cup {Null}]
      /\ u.prev \in [Places -> Cell \cup {Null}]
      /\ \A x \in Places :
           /\ u.next[x] = IF h = Null /\ x = l THEN e
                          ELSE IF x = e THEN h ELSE m.next[x]
           /\ u.prev[x] = IF h # Null /\ x = h THEN e
                          ELSE IF x = l THEN e
                          ELSE IF x = e THEN Null ELSE m.prev[x]
      /\ u.length = [m.length EXCEPT ![l] = @ + 1]

LEMMA InsertedPointers ==
  ASSUME NEW m \in Memories, NEW l \in List, NEW e \in Cell
  PROVE  AfterInsert(m, l, e, Inserted(m, l, e))
<1> DEFINE h == m.prev[l]
           a == [m EXCEPT !.prev[e] = Null, !.next[e] = h, !.prev[l] = e]
           b == IF h # Null THEN [a EXCEPT !.prev[h] = e] ELSE [a EXCEPT !.next[l] = e]
           u == Inserted(m, l, e)
<1>1. /\ m.next \in [Places -> Cell \cup {Null}] /\ m.prev \in [Places -> Cell \cup {Null}]
      /\ m.length \in [List -> Nat]
      /\ m = [next |-> m.next, prev |-> m.prev, length |-> m.length]
  BY DEF Memories
<1>2. /\ e \in Places /\ l \in Places /\ h \in Cell \cup {Null}
      /\ l \notin Cell /\ l # Null /\ Cell \subseteq Places
  BY <1>1, MemoryAssumption DEF Places, List
<1>3. /\ a.next = [m.next EXCEPT ![e] = h] /\ a.length = m.length
      /\ a.prev = [[m.prev EXCEPT ![e] = Null] EXCEPT ![l] = e]
      /\ a = [next |-> a.next, prev |-> a.prev, length |-> a.length]
  <2> DEFINE c == [m EXCEPT !.prev[e] = Null]
             d == [c EXCEPT !.next[e] = h]
  <2> HIDE DEF h
  <2>1. a = [d EXCEPT !.prev[l] = e]
    BY <1>1
  <2>2. c = [next |-> m.next, prev |-> [m.prev EXCEPT ![e] = Null], length |-> m.length]
    BY <1>1
  <2> HIDE DEF a, c
  <2>3. d = [next |-> [m.next EXCEPT ![e] = h], prev |-> c.prev, length |-> m.length]
    BY <2>2
  <2> HIDE DEF d
  <2>4. a = [next |-> d.next, prev |-> [d.prev EXCEPT ![l] = e], length |-> m.length]
    BY <2>1, <2>3
  <2> QED
    BY <2>2, <2>3, <2>4
<1>4. /\ b.next = IF h # Null THEN a.next ELSE [a.next EXCEPT ![l] = e]
      /\ b.prev = IF h # Null THEN [a.prev EXCEPT ![h] = e] ELSE a.prev
      /\ b.length = m.length
      /\ b = [next |-> b.next, prev |-> b.prev, length |-> b.length]
  <2> HIDE DEF a, h
  <2> QED
    BY <1>3
<1>5. /\ u.next = b.next /\ u.prev = b.prev /\ u.length = [m.length EXCEPT ![l] = @ + 1]
      /\ u = [next |-> u.next, prev |-> u.prev, length |-> u.length]
  <2>1. u = [b EXCEPT !.length[l] = @ + 1]
    BY DEF Inserted
  <2> HIDE DEF b, u
  <2> QED
    BY <1>4, <2>1
<1> HIDE DEF a, b, u, h
<1>6. /\ a.next \in [Places -> Cell \cup {Null}]
      /\ a.prev \in [Places -> Cell \cup {Null}]
      /\ \A x \in Places :
           /\ a.next[x] = IF x = e THEN h ELSE m.next[x]
           /\ a.prev[x] = IF x = l THEN e ELSE IF x = e THEN Null ELSE m.prev[x]
  BY <1>1, <1>2, <1>3
<1>7. /\ b.next \in [Places -> Cell \cup {Null}]
      /\ b.prev \in [Places -> Cell \cup {Null}]
      /\ \A x \in Places :
           /\ b.next[x] = IF h = Null /\ x = l THEN e ELSE a.next[x]
           /\ b.prev[x] = IF h # Null /\ x = h THEN e ELSE a.prev[x]
  BY <1>2, <1>4, <1>6
<1>8. \A x \in Places :
        /\ u.next[x] = IF h = Null /\ x = l THEN e
                       ELSE IF x = e THEN h ELSE m.next[x]
        /\ u.prev[x] = IF h # Null /\ x = h THEN e
                       ELSE IF x = l THEN e
                       ELSE IF x = e THEN Null ELSE m.prev[x]
  BY <1>5, <1>6, <1>7
<1> QED
  BY <1>5, <1>7, <1>8 DEF u, h, AfterInsert

(* Unlinking the i-th node of a list leaves a list of the others.          *)
LEMMA UnlinkedList ==
  ASSUME NEW m \in Memories, NEW l \in List, NEW s, Linked(m, l, s), NEW i \in 1 .. Len(s)
  PROVE  /\ Unlinked(m, l, s[i]) \in Memories
         /\ Linked(Unlinked(m, l, s[i]), l, RemoveAt(s, i))
<1> DEFINE e == s[i]
           u == Unlinked(m, l, e)
           r == RemoveAt(s, i)
           k == Len(s)
           p == m.prev[e]
           n == m.next[e]
<1>1. /\ s \in Seq(Cell) /\ k \in Nat \ {0} /\ i \in 1 .. k
      /\ \A j \in 1 .. k : s[j] \in Cell
      /\ e \in Cell
      /\ \A j, h \in 1 .. k : s[j] = s[h] => j = h
      /\ m.prev[l] = s[1] /\ m.next[l] = s[k] /\ m.length[l] = k
      /\ \A j \in 1 .. k : /\ m.prev[s[j]] = IF j = 1 THEN Null ELSE s[j - 1]
                           /\ m.next[s[j]] = IF j = k THEN Null ELSE s[j + 1]
  <2>1. s \in Seq(Cell)
    BY DEF Linked
  <2>2. /\ k \in Nat \ {0} /\ i \in 1 .. k /\ s # <<>> /\ DOMAIN s = 1 .. k
        /\ \A j \in 1 .. k : s[j] \in Cell
    BY <2>1
  <2>3. \A j, h \in 1 .. k : s[j] = s[h] => j = h
    BY <2>2 DEF Linked, IsInjective
  <2>4. m.prev[l] = s[1] /\ m.next[l] = s[k] /\ m.length[l] = k
    BY <2>2 DEF Linked
  <2>5. \A j \in 1 .. k : /\ m.prev[s[j]] = IF j = 1 THEN Null ELSE s[j - 1]
                          /\ m.next[s[j]] = IF j = k THEN Null ELSE s[j + 1]
    BY DEF Linked
  <2> QED
    BY <2>1, <2>2, <2>3, <2>4, <2>5
<1>2. /\ r \in Seq(Cell) /\ Len(r) = k - 1
      /\ \A j \in 1 .. k - 1 : r[j] = IF j < i THEN s[j] ELSE s[j + 1]
  BY <1>1, RemoveAtElements
<1>3. /\ l \notin Cell /\ l # Null /\ Null \notin Cell /\ l \in Places /\ Cell \subseteq Places
  BY MemoryAssumption DEF List, Places
<1>4. /\ u.next \in [Places -> Cell \cup {Null}]
      /\ u.prev \in [Places -> Cell \cup {Null}]
      /\ \A x \in Places :
           /\ u.next[x] = IF x = e THEN Null
                          ELSE IF n = Null /\ x = l THEN p
                          ELSE IF p # Null /\ x = p THEN n ELSE m.next[x]
           /\ u.prev[x] = IF x = e THEN Null
                          ELSE IF n # Null /\ x = n THEN p
                          ELSE IF p = Null /\ x = l THEN n ELSE m.prev[x]
      /\ u.length = [m.length EXCEPT ![l] = @ - 1]
      /\ u = [next |-> u.next, prev |-> u.prev, length |-> u.length]
  <2>1. AfterUnlink(m, l, e, u)
    BY <1>1, UnlinkedPointers
  <2> QED
    BY <2>1 DEF AfterUnlink
<1>5. p = (IF i = 1 THEN Null ELSE s[i - 1]) /\ n = (IF i = k THEN Null ELSE s[i + 1])
  BY <1>1
<1>6. m.length \in [List -> Nat]
  BY DEF Memories
<1>7. u \in Memories
  <2>1. u.length \in [List -> Nat]
    BY <1>1, <1>4, <1>6
  <2> HIDE DEF u
  <2> QED
    BY <1>4, <2>1 DEF Memories
<1> DEFINE un == u.next
           up == u.prev
<1>8. /\ e \in Cell /\ (\A j \in 1 .. k : s[j] = e <=> j = i)
      /\ p = Null <=> i = 1
      /\ n = Null <=> i = k
      /\ i # 1 => i - 1 \in 1 .. k /\ p = s[i - 1]
      /\ i # k => i + 1 \in 1 .. k /\ n = s[i + 1]
  <2>1. i # 1 => i - 1 \in 1 .. k
    BY <1>1
  <2>2. i # k => i + 1 \in 1 .. k
    BY <1>1
  <2>3. \A j \in 1 .. k : s[j] = e <=> j = i
    BY <1>1
  <2> QED
    BY <1>1, <1>3, <1>5, <2>1, <2>2, <2>3
<1>9. \A j \in 1 .. k : /\ (p # Null /\ s[j] = p) <=> (i # 1 /\ j = i - 1)
                        /\ (n # Null /\ s[j] = n) <=> (i # k /\ j = i + 1)
                        /\ s[j] # l /\ s[j] \in Places
  <2> HIDE DEF e, u, r, k, p, n
  <2>1. ASSUME NEW j \in 1 .. k
        PROVE  (p # Null /\ s[j] = p) <=> (i # 1 /\ j = i - 1)
    BY <1>1, <1>8
  <2>2. ASSUME NEW j \in 1 .. k
        PROVE  (n # Null /\ s[j] = n) <=> (i # k /\ j = i + 1)
    BY <1>1, <1>8
  <2>3. ASSUME NEW j \in 1 .. k
        PROVE  s[j] # l /\ s[j] \in Places
    BY <1>1, <1>3
  <2> QED
    BY <2>1, <2>2, <2>3
<1>10. \A j \in 1 .. k :
         j # i => /\ un[s[j]] = IF j = k THEN Null
                                ELSE IF j + 1 = i THEN (IF i = k THEN Null ELSE s[i + 1])
                                ELSE s[j + 1]
                  /\ up[s[j]] = IF j = 1 THEN Null
                                ELSE IF j - 1 = i THEN (IF i = 1 THEN Null ELSE s[i - 1])
                                ELSE s[j - 1]
  <2> HIDE DEF e, r, k, p, n
  <2>0. ASSUME NEW j \in 1 .. k, j # i
        PROVE  /\ un[s[j]] = IF i # 1 /\ j = i - 1 THEN n ELSE m.next[s[j]]
               /\ up[s[j]] = IF i # k /\ j = i + 1 THEN p ELSE m.prev[s[j]]
    BY <1>4, <1>8, <1>9, <2>0
  <2> HIDE DEF u, un, up
  <2>1. ASSUME NEW j \in 1 .. k, j # i
        PROVE  un[s[j]] = IF j = k THEN Null
                          ELSE IF j + 1 = i THEN (IF i = k THEN Null ELSE s[i + 1])
                          ELSE s[j + 1]
    <3>1. m.next[s[j]] = IF j = k THEN Null ELSE s[j + 1]
      BY <1>1
    <3>2. (i # 1 /\ j = i - 1) <=> (j # k /\ j + 1 = i)
      BY <1>1
    <3> QED
      BY <1>5, <2>0, <2>1, <3>1, <3>2
  <2>2. ASSUME NEW j \in 1 .. k, j # i
        PROVE  up[s[j]] = IF j = 1 THEN Null
                          ELSE IF j - 1 = i THEN (IF i = 1 THEN Null ELSE s[i - 1])
                          ELSE s[j - 1]
    <3>1. m.prev[s[j]] = IF j = 1 THEN Null ELSE s[j - 1]
      BY <1>1
    <3>2. (i # k /\ j = i + 1) <=> (j # 1 /\ j - 1 = i)
      BY <1>1
    <3> QED
      BY <1>5, <2>0, <2>2, <3>1, <3>2
  <2> QED
    BY <2>1, <2>2
<1>11. /\ un[l] = IF i = k THEN p ELSE s[k]
       /\ up[l] = IF i = 1 THEN n ELSE s[1]
  <2> HIDE DEF r, k, p, n
  <2> QED
    BY <1>1, <1>3, <1>4, <1>8
<1> HIDE DEF e, u, r, k, p, n, un, up
<1>15. up[l] = (IF r = <<>> THEN Null ELSE r[1])
  <2>1. r = <<>> <=> k = 1
    BY <1>1, <1>2
  <2>2. k # 1 => r[1] = IF i = 1 THEN s[2] ELSE s[1]
    BY <1>1, <1>2
  <2> QED
    BY <1>1, <1>5, <1>11, <2>1, <2>2
<1>16. un[l] = (IF r = <<>> THEN Null ELSE r[Len(r)])
  <2>1. r = <<>> <=> k = 1
    BY <1>1, <1>2
  <2>2. k # 1 => r[k - 1] = IF i = k THEN s[k - 1] ELSE s[k]
    <3>1. k # 1 => k - 1 \in 1 .. k - 1 /\ (k - 1 < i <=> i = k) /\ (k - 1) + 1 = k
      BY <1>1
    <3> QED
      BY <1>2, <3>1
  <2> QED
    BY <1>1, <1>2, <1>5, <1>11, <2>1, <2>2
<1>17. ASSUME NEW j \in 1 .. k - 1
       PROVE  /\ up[r[j]] = IF j = 1 THEN Null ELSE r[j - 1]
              /\ un[r[j]] = IF j = k - 1 THEN Null ELSE r[j + 1]
  <2>0. /\ j \in 1 .. k /\ j + 1 \in 1 .. k /\ j \in Int /\ k \in Int /\ i \in Int
        /\ j # 1 => j - 1 \in 1 .. k - 1 /\ (j - 1) + 1 = j
        /\ j # k - 1 => j + 1 \in 1 .. k - 1
    BY <1>1
  <2>1. CASE j < i
    <3>1. r[j] = s[j]
      BY <1>2, <2>1
    <3>2. j # 1 => r[j - 1] = s[j - 1]
      BY <1>2, <2>0, <2>1
    <3>3. j # k - 1 => r[j + 1] = IF j + 1 = i THEN s[i + 1] ELSE s[j + 1]
      BY <1>2, <2>0, <2>1
    <3>4. up[s[j]] = IF j = 1 THEN Null ELSE s[j - 1]
      BY <1>10, <2>0, <2>1
    <3>5. un[s[j]] = IF j = k THEN Null
                     ELSE IF j + 1 = i THEN (IF i = k THEN Null ELSE s[i + 1])
                     ELSE s[j + 1]
      BY <1>10, <2>0, <2>1
    <3>6. j # k /\ (j = k - 1 => j + 1 = i /\ i = k) /\ (j # k - 1 /\ j + 1 = i => i # k)
      BY <1>1, <2>0, <2>1
    <3> QED
      BY <3>1, <3>2, <3>3, <3>4, <3>5, <3>6
  <2>2. CASE ~ (j < i)
    <3>1. r[j] = s[j + 1]
      BY <1>2, <2>2
    <3>2. j # 1 => r[j - 1] = IF j = i THEN s[i - 1] ELSE s[j]
      BY <1>2, <2>0, <2>2
    <3>3. j # k - 1 => r[j + 1] = s[(j + 1) + 1]
      BY <1>2, <2>0, <2>2
    <3>4. un[s[j + 1]] = IF j + 1 = k THEN Null ELSE s[(j + 1) + 1]
      BY <1>10, <2>0, <2>2
    <3>5. up[s[j + 1]] = IF j = i THEN (IF i = 1 THEN Null ELSE s[i - 1]) ELSE s[j]
      <4>1. j + 1 # i /\ j + 1 # 1 /\ (j + 1) - 1 = j
        BY <2>0, <2>2
      <4> QED
        BY <1>10, <2>0, <4>1
    <3>6. (j + 1 = k <=> j = k - 1) /\ (j = 1 => i = 1 /\ j = i) /\ (j # 1 /\ j = i => i # 1)
      BY <1>1, <2>0, <2>2
    <3> QED
      BY <3>1, <3>2, <3>3, <3>4, <3>5, <3>6
  <2> QED
    BY <2>1, <2>2
<1>12. u.length[l] = Len(r)
  BY <1>1, <1>2, <1>4, <1>6
<1>13. IsInjective(r)
  <2>1. DOMAIN r = 1 .. k - 1
    BY <1>1, <1>2
  <2>2. ASSUME NEW a \in 1 .. k - 1, NEW b \in 1 .. k - 1, r[a] = r[b]
        PROVE  a = b
    <3>1. \A x \in 1 .. k - 1 : \E y \in 1 .. k :
            y # i /\ r[x] = s[y] /\ x = IF y < i THEN y ELSE y - 1
      <4>1. ASSUME NEW x \in 1 .. k - 1
            PROVE  \E y \in 1 .. k :
                     y # i /\ r[x] = s[y] /\ x = IF y < i THEN y ELSE y - 1
        <5>1. CASE x < i
          <6>1. x \in 1 .. k /\ x # i
            BY <1>1, <5>1
          <6> QED
            BY <1>2, <5>1, <6>1
        <5>2. CASE ~ (x < i)
          <6>1. x + 1 \in 1 .. k /\ x + 1 # i /\ ~ (x + 1 < i) /\ (x + 1) - 1 = x
            BY <1>1, <5>2
          <6> QED
            BY <1>2, <5>2, <6>1
        <5> QED
          BY <5>1, <5>2
      <4> QED
        BY <4>1
    <3>2. PICK y \in 1 .. k : r[a] = s[y] /\ a = IF y < i THEN y ELSE y - 1
      BY <3>1
    <3>3. PICK z \in 1 .. k : r[b] = s[z] /\ b = IF z < i THEN z ELSE z - 1
      BY <3>1
    <3>4. s[y] = s[z]
      BY <2>2, <3>2, <3>3
    <3>5. y = z
      BY <1>1, <3>4
    <3> QED
      BY <3>2, <3>3, <3>5
  <2> QED
    BY <2>1, <2>2 DEF IsInjective
<1>14. Linked(u, l, r)
  BY <1>2, <1>12, <1>13, <1>15, <1>16, <1>17 DEF Linked, un, up
<1> QED
  BY <1>7, <1>14 DEF u, r, e

(* A list that holds none of the nodes concerned is not disturbed.         *)
LEMMA UnlinkedOther ==
  ASSUME NEW m \in Memories, NEW l \in List, NEW k \in List, k # l,
         NEW s, Linked(m, l, s), NEW i \in 1 .. Len(s),
         NEW t, Linked(m, k, t), Range(s) \cap Range(t) = {}
  PROVE  Linked(Unlinked(m, l, s[i]), k, t)
<1> DEFINE e == s[i]
           u == Unlinked(m, l, e)
           p == m.prev[e]
           n == m.next[e]
<1>1. /\ s \in Seq(Cell) /\ Len(s) \in Nat /\ DOMAIN s = 1 .. Len(s)
      /\ t \in Seq(Cell) /\ Len(t) \in Nat /\ DOMAIN t = 1 .. Len(t)
      /\ e \in Cell
  BY DEF Linked
<1>2. /\ p = (IF i = 1 THEN Null ELSE s[i - 1]) /\ n = (IF i = Len(s) THEN Null ELSE s[i + 1])
  BY DEF Linked
<1>3. /\ l \notin Cell /\ l # Null /\ k \notin Cell /\ k # Null /\ k \in Places
      /\ Null \notin Cell /\ Cell \subseteq Places
  BY MemoryAssumption DEF List, Places
<1>4. /\ \A x \in Places :
           /\ u.next[x] = IF x = e THEN Null
                          ELSE IF n = Null /\ x = l THEN p
                          ELSE IF p # Null /\ x = p THEN n ELSE m.next[x]
           /\ u.prev[x] = IF x = e THEN Null
                          ELSE IF n # Null /\ x = n THEN p
                          ELSE IF p = Null /\ x = l THEN n ELSE m.prev[x]
      /\ u.length = [m.length EXCEPT ![l] = @ - 1]
  <2>1. AfterUnlink(m, l, e, u)
    BY <1>1, UnlinkedPointers
  <2> QED
    BY <2>1 DEF AfterUnlink
<1>5. \A j \in 1 .. Len(s) : \A h \in 1 .. Len(t) : s[j] # t[h]
  BY <1>1 DEF Range
<1>6. e \in Range(s) /\ (p = Null \/ p \in Range(s)) /\ (n = Null \/ n \in Range(s))
  <2>1. i - 1 \in 1 .. Len(s) \/ i = 1
    BY <1>1
  <2>2. i + 1 \in 1 .. Len(s) \/ i = Len(s)
    <3>1. Len(s) \in Nat /\ i \in 1 .. Len(s)
      BY <1>1
    <3> QED
      BY <3>1
  <2> QED
    BY <1>1, <1>2, <2>1, <2>2 DEF Range
<1>7. Range(s) \subseteq Cell
  BY <1>1 DEF Range
<1> HIDE DEF e, u, p, n
<1>8. \A x \in Places : x \notin Range(s) /\ x # l => /\ u.next[x] = m.next[x]
                                                     /\ u.prev[x] = m.prev[x]
  BY <1>3, <1>4, <1>6
<1>9. u.next[k] = m.next[k] /\ u.prev[k] = m.prev[k] /\ u.length[k] = m.length[k]
  <2>1. m.length \in [List -> Nat]
    BY DEF Memories
  <2> QED
    BY <1>3, <1>4, <1>7, <1>8, <2>1
<1>10. \A h \in 1 .. Len(t) : u.next[t[h]] = m.next[t[h]] /\ u.prev[t[h]] = m.prev[t[h]]
  <2>1. \A h \in 1 .. Len(t) : t[h] \in Cell /\ t[h] \in Range(t)
    BY <1>1 DEF Range
  <2> QED
    BY <1>3, <1>8, <2>1
<1>11. Linked(u, k, t)
  BY <1>9, <1>10 DEF Linked
<1> QED
  BY <1>11 DEF u, e

(* Inserting a node at the head of a list that has it not.                 *)
LEMMA InsertedList ==
  ASSUME NEW m \in Memories, NEW l \in List, NEW s, Linked(m, l, s),
         NEW e \in Cell, e \notin Range(s)
  PROVE  /\ Inserted(m, l, e) \in Memories
         /\ Linked(Inserted(m, l, e), l, <<e>> \o s)
<1> DEFINE u == Inserted(m, l, e)
           r == <<e>> \o s
           k == Len(s)
           h == m.prev[l]
           un == u.next
           up == u.prev
<1>1. /\ s \in Seq(Cell) /\ k \in Nat /\ DOMAIN s = 1 .. k /\ IsInjective(s)
      /\ \A j \in 1 .. k : s[j] \in Cell /\ s[j] # e
  <2>1. s \in Seq(Cell) /\ IsInjective(s)
    BY DEF Linked
  <2>2. k \in Nat /\ DOMAIN s = 1 .. k /\ \A j \in 1 .. k : s[j] \in Cell
    BY <2>1
  <2> QED
    BY <2>1, <2>2 DEF Range
<1>2. /\ h = (IF s = <<>> THEN Null ELSE s[1])
      /\ m.next[l] = (IF s = <<>> THEN Null ELSE s[k])
      /\ m.length[l] = k
      /\ \A j \in 1 .. k : /\ m.prev[s[j]] = IF j = 1 THEN Null ELSE s[j - 1]
                           /\ m.next[s[j]] = IF j = k THEN Null ELSE s[j + 1]
  BY DEF Linked
<1>3. /\ l \notin Cell /\ l # Null /\ Null \notin Cell /\ l \in Places /\ Cell \subseteq Places
  BY MemoryAssumption DEF List, Places
<1>4. /\ r \in Seq(Cell) /\ r # <<>> /\ Len(r) = k + 1 /\ r[1] = e
      /\ \A j \in 1 .. k : r[j + 1] = s[j]
      /\ IsInjective(r)
  <2>1. r \in Seq(Cell) /\ r # <<>> /\ IsInjective(r)
    BY <1>1, ConsElements
  <2>2. Len(r) = k + 1 /\ r[1] = e /\ \A j \in 1 .. k : r[j + 1] = s[j]
    BY <1>1
  <2> QED
    BY <2>1, <2>2
<1>5. AfterInsert(m, l, e, u)
  BY InsertedPointers
<1>6. \A x \in Places :
        /\ un[x] = IF h = Null /\ x = l THEN e ELSE IF x = e THEN h ELSE m.next[x]
        /\ up[x] = IF h # Null /\ x = h THEN e
                   ELSE IF x = l THEN e ELSE IF x = e THEN Null ELSE m.prev[x]
  BY <1>5 DEF AfterInsert
<1>7. u \in Memories /\ u.length[l] = k + 1
  <2>1. m.length \in [List -> Nat]
    BY DEF Memories
  <2>2. u.length = [m.length EXCEPT ![l] = @ + 1]
    BY <1>5 DEF AfterInsert
  <2>3. u.length \in [List -> Nat] /\ u.length[l] = k + 1
    BY <1>1, <1>2, <2>1, <2>2
  <2>4. /\ u = [next |-> u.next, prev |-> u.prev, length |-> u.length]
        /\ u.next \in [Places -> Cell \cup {Null}]
        /\ u.prev \in [Places -> Cell \cup {Null}]
    BY <1>5 DEF AfterInsert
  <2> HIDE DEF u
  <2> QED
    BY <2>3, <2>4 DEF Memories
<1>8. (s = <<>> <=> k = 0) /\ (h = Null <=> k = 0)
  <2>1. s = <<>> <=> k = 0
    BY <1>1
  <2>2. k # 0 => s[1] # Null
    BY <1>1, <1>3
  <2> HIDE DEF h
  <2> QED
    BY <1>2, <2>1, <2>2
<1> HIDE DEF u, r, k, h, un, up
<1>9. up[l] = r[1]
  BY <1>1, <1>2, <1>3, <1>4, <1>6, <1>8
<1>10. un[l] = r[k + 1]
  <2>1. k # 0 => r[k + 1] = s[k]
    BY <1>1, <1>4
  <2>2. un[l] = IF k = 0 THEN e ELSE s[k]
    BY <1>2, <1>3, <1>6, <1>8
  <2> QED
    BY <1>4, <2>1, <2>2
<1>11. /\ up[e] = Null
       /\ un[e] = IF k = 0 THEN Null ELSE s[1]
  <2>1. e # l /\ e \in Places /\ ~ (h # Null /\ e = h)
    BY <1>1, <1>2, <1>3, <1>8
  <2> QED
    BY <1>2, <1>6, <1>8, <2>1
<1>12. ASSUME NEW j \in 1 .. k
       PROVE  /\ up[s[j]] = IF j = 1 THEN e ELSE s[j - 1]
              /\ un[s[j]] = IF j = k THEN Null ELSE s[j + 1]
  <2>1. s[j] \in Places /\ s[j] # l /\ s[j] # e
    BY <1>1, <1>3
  <2>2. k # 0 /\ h = s[1] /\ h # Null
    BY <1>1, <1>2, <1>8
  <2>3. s[j] = h <=> j = 1
    BY <1>1, <2>2 DEF IsInjective
  <2> QED
    BY <1>2, <1>6, <2>1, <2>2, <2>3
<1>13. ASSUME NEW j \in 1 .. k + 1
       PROVE  /\ up[r[j]] = IF j = 1 THEN Null ELSE r[j - 1]
              /\ un[r[j]] = IF j = k + 1 THEN Null ELSE r[j + 1]
  <2>1. CASE j = 1
    <3>1. k # 0 => r[2] = s[1]
      <4>1. k # 0 => 1 \in 1 .. k
        BY <1>1
      <4> QED
        BY <1>4, <4>1
    <3>2. (j = k + 1 <=> k = 0) /\ j + 1 = 2
      BY <1>1, <2>1
    <3> QED
      BY <1>4, <1>11, <2>1, <3>1, <3>2
  <2>2. CASE j # 1
    <3>1. j - 1 \in 1 .. k /\ (j - 1) + 1 = j /\ (j = k + 1 <=> j - 1 = k)
      BY <1>1, <2>2
    <3>2. r[j] = s[j - 1]
      BY <1>4, <3>1
    <3>3. j # k + 1 => r[j + 1] = s[j]
      BY <1>1, <1>4, <2>2
    <3>4. r[j - 1] = IF j - 1 = 1 THEN e ELSE s[(j - 1) - 1]
      <4>1. j - 1 # 1 => (j - 1) - 1 \in 1 .. k /\ ((j - 1) - 1) + 1 = j - 1
        BY <1>1, <3>1
      <4> QED
        BY <1>4, <4>1
    <3>5. /\ up[s[j - 1]] = IF j - 1 = 1 THEN e ELSE s[(j - 1) - 1]
          /\ un[s[j - 1]] = IF j - 1 = k THEN Null ELSE s[(j - 1) + 1]
      BY <1>12, <3>1
    <3> QED
      BY <2>2, <3>1, <3>2, <3>3, <3>4, <3>5
  <2> QED
    BY <2>1, <2>2
<1>14. Linked(u, l, r)
  BY <1>4, <1>7, <1>9, <1>10, <1>13 DEF Linked, un, up
<1> QED
  BY <1>7, <1>14 DEF u, r

LEMMA InsertedOther ==
  ASSUME NEW m \in Memories, NEW l \in List, NEW k \in List, k # l,
         NEW s, Linked(m, l, s), NEW e \in Cell,
         NEW t, Linked(m, k, t), (Range(s) \cup {e}) \cap Range(t) = {}
  PROVE  Linked(Inserted(m, l, e), k, t)
<1> DEFINE u == Inserted(m, l, e)
           h == m.prev[l]
<1>1. /\ s \in Seq(Cell) /\ Len(s) \in Nat /\ DOMAIN s = 1 .. Len(s)
      /\ t \in Seq(Cell) /\ Len(t) \in Nat /\ DOMAIN t = 1 .. Len(t)
  BY DEF Linked
<1>2. h = Null \/ h \in Range(s)
  <2>1. s # <<>> => 1 \in DOMAIN s
    BY <1>1
  <2> QED
    BY <2>1 DEF Linked, Range
<1>3. /\ l \notin Cell /\ l # Null /\ k \notin Cell /\ k # Null /\ k \in Places
      /\ Null \notin Cell /\ Cell \subseteq Places
  BY MemoryAssumption DEF List, Places
<1>4. AfterInsert(m, l, e, u)
  BY InsertedPointers
<1>5. \A x \in Places :
        /\ u.next[x] = IF h = Null /\ x = l THEN e ELSE IF x = e THEN h ELSE m.next[x]
        /\ u.prev[x] = IF h # Null /\ x = h THEN e
                       ELSE IF x = l THEN e ELSE IF x = e THEN Null ELSE m.prev[x]
  BY <1>4 DEF AfterInsert
<1>6. u.length = [m.length EXCEPT ![l] = @ + 1] /\ m.length \in [List -> Nat]
  BY <1>4 DEF AfterInsert, Memories
<1>7. Range(s) \subseteq Cell /\ Range(t) \subseteq Cell
  BY <1>1 DEF Range
<1> HIDE DEF u, h
<1>8. \A x \in Places : x \notin Range(s) \cup {e} /\ x # l =>
        u.next[x] = m.next[x] /\ u.prev[x] = m.prev[x]
  BY <1>2, <1>5
<1>9. u.next[k] = m.next[k] /\ u.prev[k] = m.prev[k] /\ u.length[k] = m.length[k]
  BY <1>3, <1>6, <1>7, <1>8
<1>10. \A j \in 1 .. Len(t) : u.next[t[j]] = m.next[t[j]] /\ u.prev[t[j]] = m.prev[t[j]]
  <2>1. \A j \in 1 .. Len(t) : t[j] \in Cell /\ t[j] \in Range(t)
    BY <1>1 DEF Range
  <2> QED
    BY <1>3, <1>8, <2>1
<1>11. Linked(u, k, t)
  BY <1>9, <1>10 DEF Linked
<1> QED
  BY <1>11 DEF u

(* A walk along the pointers meets the nodes of the list in order.         *)
LEMMA AlongList ==
  ASSUME NEW s \in Seq(Cell), IsInjective(s), NEW link, NEW e,
         e = IF s = <<>> THEN Null ELSE s[1],
         \A i \in 1 .. Len(s) : link[s[i]] = IF i = Len(s) THEN Null ELSE s[i + 1]
  PROVE  Along(link, e) = s
<1> DEFINE k == Len(s)
           Most == Cardinality(Cell) + 1
           Step(f) == [n \in 1 .. Most |->
                         IF n = 1 THEN e
                         ELSE IF f[n - 1] = Null THEN Null ELSE link[f[n - 1]]]
           it == CHOOSE f : f = Step(f)
           g == [n \in 1 .. Most |-> IF n <= k THEN s[n] ELSE Null]
<1>1. /\ k \in Nat /\ k <= Cardinality(Cell) /\ Cardinality(Cell) \in Nat
      /\ \A i \in 1 .. k : s[i] \in Cell /\ s[i] # Null
      /\ s = <<>> <=> k = 0
  <2>1. k <= Cardinality(Cell)
    BY MemoryAssumption, InjectiveLen
  <2>2. Cardinality(Cell) \in Nat
    BY MemoryAssumption, FS_CardinalityType
  <2>3. k \in Nat /\ (s = <<>> <=> k = 0) /\ \A i \in 1 .. k : s[i] \in Cell
    OBVIOUS
  <2> QED
    BY <2>1, <2>2, <2>3, MemoryAssumption
<1>2. Most \in Nat /\ k + 1 <= Most
  BY <1>1
<1> HIDE DEF Most, k
<1>3. \A n \in 1 .. Most :
        g[n] = IF n = 1 THEN e ELSE IF g[n - 1] = Null THEN Null ELSE link[g[n - 1]]
  <2>1. ASSUME NEW n \in 1 .. Most
        PROVE  g[n] = IF n = 1 THEN e
                      ELSE IF g[n - 1] = Null THEN Null ELSE link[g[n - 1]]
    <3>1. CASE n = 1
      <4>1. g[1] = IF k = 0 THEN Null ELSE s[1]
        BY <1>1, <1>2
      <4> HIDE DEF g
      <4> QED
        BY <1>1, <3>1, <4>1
    <3>2. CASE n # 1
      <4>1. n - 1 \in 1 .. Most /\ (n - 1) + 1 = n /\ n \in Int
        BY <1>2, <3>2
      <4>2. /\ g[n - 1] = IF n - 1 <= k THEN s[n - 1] ELSE Null
            /\ g[n] = IF n <= k THEN s[n] ELSE Null
        BY <4>1
      <4> HIDE DEF g
      <4>3. CASE n - 1 <= k
        <5>1. n - 1 \in 1 .. k
          BY <1>1, <4>1, <4>3
        <5>2. link[s[n - 1]] = IF n - 1 = k THEN Null ELSE s[n]
          BY <4>1, <5>1 DEF k
        <5>3. n <= k <=> n - 1 # k
          BY <1>1, <4>1, <4>3
        <5> QED
          BY <1>1, <3>2, <4>2, <4>3, <5>1, <5>2, <5>3
      <4>4. CASE ~ (n - 1 <= k)
        <5>1. ~ (n <= k)
          BY <1>1, <4>1, <4>4
        <5> QED
          BY <3>2, <4>2, <4>4, <5>1
      <4> QED
        BY <4>3, <4>4
    <3> QED
      BY <3>1, <3>2
  <2> QED
    BY <2>1
<1>4. g = Step(g)
  <2>1. g = [n \in 1 .. Most |-> g[n]]
    OBVIOUS
  <2> HIDE DEF g
  <2> QED
    BY <1>3, <2>1
<1>5. it = Step(it)
  BY <1>4
<1>6. \A n \in 1 .. Most : it[n] = g[n]
  <2> DEFINE T == {n \in 0 .. Most : n = 0 \/ it[n] = g[n]}
  <2>1. 0 \in T
    BY <1>2
  <2>2. ASSUME NEW n \in 0 .. Most - 1, n \in T
        PROVE  n + 1 \in T
    <3>1. n + 1 \in 1 .. Most /\ (n + 1) - 1 = n /\ (n + 1 = 1 <=> n = 0)
      BY <1>2
    <3>2. it[n + 1] = IF n + 1 = 1 THEN e
                      ELSE IF it[n] = Null THEN Null ELSE link[it[n]]
      <4> HIDE DEF it
      <4>1. it[n + 1] = Step(it)[n + 1]
        BY <1>5
      <4>2. Step(it)[n + 1] = IF n + 1 = 1 THEN e
                              ELSE IF it[(n + 1) - 1] = Null THEN Null
                              ELSE link[it[(n + 1) - 1]]
        BY <3>1
      <4> QED
        BY <3>1, <4>1, <4>2
    <3>3. g[n + 1] = IF n + 1 = 1 THEN e ELSE IF g[n] = Null THEN Null ELSE link[g[n]]
      <4> HIDE DEF g
      <4> QED
        BY <1>3, <3>1
    <3> HIDE DEF it, g
    <3> QED
      BY <2>2, <3>1, <3>2, <3>3
  <2> HIDE DEF T
  <2>3. \A n \in 0 .. Most : n \in T
    BY <1>2, <2>1, <2>2, Induction
  <2>4. \A n \in 1 .. Most : n \in 0 .. Most /\ n # 0
    BY <1>2
  <2> HIDE DEF it, g
  <2> QED
    BY <2>3, <2>4 DEF T
<1>7. {n \in 1 .. Most : it[n] # Null} = 1 .. k
  <2> HIDE DEF it
  <2> QED
    BY <1>1, <1>2, <1>6
<1>8. Cardinality(1 .. k) = k
  BY IndexSet DEF k
<1>9. Along(link, e) = SubSeq(it, 1, k)
  BY <1>7, <1>8 DEF Along, Most
<1>10. SubSeq(it, 1, k) = s
  <2>1. \A i \in 1 .. k : it[i] = s[i]
    <3> HIDE DEF it
    <3> QED
      BY <1>1, <1>2, <1>6
  <2> HIDE DEF it
  <2>2. SubSeq(it, 1, k) = [i \in 1 .. k |-> it[i]]
    BY <1>1
  <2>3. s = [i \in 1 .. k |-> s[i]]
    BY DEF k
  <2> QED
    BY <2>1, <2>2, <2>3
<1> QED
  BY <1>9, <1>10

(* Read from either end, a list has its nodes, as many as its length says. *)
LEMMA ChainedIsWhole ==
  ASSUME Chained
  PROVE  ListsWhole
<1> SUFFICES ASSUME NEW l \in List
             PROVE  /\ Elements(l) = meant[l] /\ Backwards(l) = meant[l]
                    /\ length[l] = Len(meant[l])
  BY DEF ListsWhole
<1> DEFINE s == meant[l]
           r == Reverse(s)
           k == Len(s)
<1>1. Linked(Memory, l, s)
  BY DEF Chained
<1>2. /\ s \in Seq(Cell) /\ IsInjective(s) /\ k \in Nat /\ DOMAIN s = 1 .. k
      /\ s = <<>> <=> k = 0
      /\ prev[l] = IF s = <<>> THEN Null ELSE s[1]
      /\ next[l] = IF s = <<>> THEN Null ELSE s[k]
      /\ \A i \in 1 .. k : /\ prev[s[i]] = IF i = 1 THEN Null ELSE s[i - 1]
                           /\ next[s[i]] = IF i = k THEN Null ELSE s[i + 1]
      /\ length[l] = k
  <2>1. s \in Seq(Cell) /\ IsInjective(s)
    BY <1>1 DEF Linked
  <2>2. k \in Nat /\ DOMAIN s = 1 .. k /\ (s = <<>> <=> k = 0)
    BY <2>1
  <2>3. Memory.next = next /\ Memory.prev = prev /\ Memory.length = length
    BY DEF Memory
  <2> HIDE DEF s, k
  <2> QED
    BY <1>1, <2>1, <2>2, <2>3 DEF Linked, k
<1> HIDE DEF s, k
<1>3. Elements(l) = s
  <2>1. \A i \in 1 .. Len(s) : next[s[i]] = IF i = Len(s) THEN Null ELSE s[i + 1]
    BY <1>2 DEF k
  <2>2. Along(next, prev[l]) = s
    BY <1>2, <2>1, AlongList
  <2> QED
    BY <2>2 DEF Elements
<1>4. /\ r \in Seq(Cell) /\ Len(r) = k /\ \A i \in 1 .. k : r[i] = s[(k - i) + 1]
  BY <1>2, ReverseType DEF Reverse, k
<1>5. IsInjective(r)
  <2>1. DOMAIN r = 1 .. k
    BY <1>4
  <2>2. ASSUME NEW a \in 1 .. k, NEW b \in 1 .. k, r[a] = r[b]
        PROVE  a = b
    <3>1. (k - a) + 1 \in 1 .. k /\ (k - b) + 1 \in 1 .. k
      BY <1>2
    <3>2. s[(k - a) + 1] = s[(k - b) + 1]
      BY <1>4, <2>2
    <3>3. (k - a) + 1 = (k - b) + 1
      BY <1>2, <3>1, <3>2 DEF IsInjective
    <3> QED
      BY <1>2, <3>3
  <2> QED
    BY <2>1, <2>2 DEF IsInjective
<1>6. next[l] = IF r = <<>> THEN Null ELSE r[1]
  <2>1. r = <<>> <=> k = 0
    BY <1>2, <1>4
  <2>2. k # 0 => 1 \in 1 .. k /\ (k - 1) + 1 = k
    BY <1>2
  <2>3. k # 0 => r[1] = s[k]
    BY <1>4, <2>2
  <2> HIDE DEF r
  <2> QED
    BY <1>2, <2>1, <2>3
<1>7. ASSUME NEW i \in 1 .. k
      PROVE  prev[r[i]] = IF i = k THEN Null ELSE r[i + 1]
  <2>1. (k - i) + 1 \in 1 .. k /\ (i = k <=> (k - i) + 1 = 1)
    BY <1>2
  <2>2. i # k => i + 1 \in 1 .. k /\ (k - (i + 1)) + 1 = ((k - i) + 1) - 1
    BY <1>2
  <2>3. i # k => r[i + 1] = s[((k - i) + 1) - 1]
    BY <1>4, <2>2
  <2>4. r[i] = s[(k - i) + 1]
    BY <1>4
  <2>5. prev[s[(k - i) + 1]] = IF (k - i) + 1 = 1 THEN Null ELSE s[((k - i) + 1) - 1]
    BY <1>2, <2>1
  <2> HIDE DEF r
  <2> QED
    BY <2>1, <2>3, <2>4, <2>5
<1>8. Along(prev, next[l]) = r
  <2> HIDE DEF r
  <2>1. \A i \in 1 .. Len(r) : prev[r[i]] = IF i = Len(r) THEN Null ELSE r[i + 1]
    BY <1>4, <1>7
  <2>2. r \in Seq(Cell)
    BY <1>4
  <2> DEFINE e == next[l]
             link == prev
  <2>3. e = IF r = <<>> THEN Null ELSE r[1]
    BY <1>6
  <2>4. \A i \in 1 .. Len(r) : link[r[i]] = IF i = Len(r) THEN Null ELSE r[i + 1]
    BY <2>1
  <2> HIDE DEF e, link
  <2>5. Along(link, e) = r
    BY <1>5, <2>2, <2>3, <2>4, AlongList
  <2> QED
    BY <2>5 DEF e, link
<1>9. Reverse(r) = s
  <2>1. Reverse(r) = [i \in 1 .. k |-> r[(k - i) + 1]]
    BY <1>4 DEF Reverse
  <2>2. ASSUME NEW i \in 1 .. k
        PROVE  r[(k - i) + 1] = s[i]
    <3>1. (k - i) + 1 \in 1 .. k /\ (k - ((k - i) + 1)) + 1 = i
      BY <1>2
    <3> QED
      BY <1>4, <3>1
  <2>3. s = [i \in 1 .. k |-> s[i]]
    BY <1>2
  <2> HIDE DEF r
  <2> QED
    BY <2>1, <2>2, <2>3
<1>10. Backwards(l) = s
  BY <1>8, <1>9 DEF Backwards
<1> QED
  BY <1>2, <1>3, <1>10 DEF s, k

(* get_client_from_moderator_pending_list gives the client's node.         *)
LEMMA FoundNode ==
  ASSUME Chained, NEW c
  PROVE  /\ Found(c) = Null <=> \A e \in Waiting : id[e] # c
         /\ Found(c) # Null => Found(c) \in Waiting /\ id[Found(c)] = c
<1> DEFINE s == meant[Pending]
           I == {i \in 1 .. Len(s) : id[s[i]] = c}
           i == SelectInSeq(s, LAMBDA e : id[e] = c)
<1>1. s \in Seq(Cell) /\ Pending \in List
  BY DEF Chained, List
<1>2. Elements(Pending) = s
  BY <1>1, ChainedIsWhole DEF ListsWhole
<1>3. Found(c) = IF i = 0 THEN Null ELSE s[i]
  BY <1>2 DEF Found
<1>4. i = IF I # {} THEN Min(I) ELSE 0
  BY DEF SelectInSeq
<1>5. I # {} => Min(I) \in I
  <2>1. I \subseteq Nat
    OBVIOUS
  <2> HIDE DEF I
  <2> QED
    BY <2>1, MinIn
<1>6. Waiting = {s[j] : j \in 1 .. Len(s)}
  BY <1>1 DEF Waiting, Range
<1>7. \A j \in 1 .. Len(s) : s[j] \in Cell /\ s[j] # Null /\ j # 0
  BY <1>1, MemoryAssumption
<1>8. CASE I = {}
  <2>1. Found(c) = Null
    BY <1>3, <1>4, <1>8
  <2> QED
    BY <1>6, <1>8, <2>1
<1>9. CASE I # {}
  <2>1. i \in I
    BY <1>4, <1>5, <1>9
  <2>2. i \in 1 .. Len(s) /\ id[s[i]] = c
    BY <2>1
  <2>3. Found(c) = s[i]
    <3> HIDE DEF i
    <3> QED
      BY <1>3, <1>7, <2>2
  <2> HIDE DEF i, I
  <2> QED
    BY <1>6, <1>7, <2>2, <2>3
<1> QED
  BY <1>8, <1>9

----------------------------------------------------------------------------
(* What the pointers are before and after a step.                          *)
LEMMA MemoryIs ==
  ASSUME TypeOK
  PROVE  Memory \in Memories
<1>0. Cardinality(Cell) \in Nat
  BY MemoryAssumption, FS_CardinalityType
<1>1. /\ next \in [Places -> Cell \cup {Null}] /\ prev \in [Places -> Cell \cup {Null}]
      /\ length \in [List -> 0 .. Cardinality(Cell)]
  BY DEF TypeOK, Places
<1>2. length \in [List -> Nat]
  BY <1>0, <1>1
<1> QED
  BY <1>1, <1>2 DEF Memory, Memories

LEMMA MemoryBecomes ==
  ASSUME NEW m \in Memories, Becomes(m)
  PROVE  Memory' = m
<1>1. m = [next |-> m.next, prev |-> m.prev, length |-> m.length]
  BY DEF Memories
<1>2. next' = m.next /\ prev' = m.prev /\ length' = m.length
  BY DEF Becomes
<1>3. Memory' = [next |-> next', prev |-> prev', length |-> length']
  BY DEF Memory
<1> QED
  BY <1>1, <1>2, <1>3

(* The lists are never longer than the memory.                             *)
ListTypes(m) ==
  /\ m.next \in [Cell \cup List -> Cell \cup {Null}]
  /\ m.prev \in [Cell \cup List -> Cell \cup {Null}]
  /\ m.length \in [List -> 0 .. Cardinality(Cell)]

LEMMA LinkedTypes ==
  ASSUME NEW m \in Memories, NEW mean, \A l \in List : Linked(m, l, mean[l])
  PROVE  ListTypes(m)
<1>1. /\ m.next \in [Cell \cup List -> Cell \cup {Null}]
      /\ m.prev \in [Cell \cup List -> Cell \cup {Null}]
      /\ m.length \in [List -> Nat]
  BY DEF Memories, Places
<1>2. ASSUME NEW l \in List
      PROVE  m.length[l] \in 0 .. Cardinality(Cell)
  <2>1. m.length[l] = Len(mean[l]) /\ mean[l] \in Seq(Cell) /\ IsInjective(mean[l])
    BY DEF Linked
  <2>2. Len(mean[l]) <= Cardinality(Cell) /\ Cardinality(Cell) \in Nat
    BY <2>1, MemoryAssumption, InjectiveLen, FS_CardinalityType
  <2> QED
    BY <1>1, <2>1, <2>2
<1>3. m.length \in [List -> 0 .. Cardinality(Cell)]
  BY <1>1, <1>2
<1> QED
  BY <1>1, <1>3 DEF ListTypes

(* A pending node is taken out: by the walk, or to be put among the others.*)
LEMMA TakeOut ==
  ASSUME TypeOK, Chained, NEW e \in Waiting
  PROVE  LET u == Unlinked(Memory, Pending, e)
             r == RemoveFirst(meant[Pending], e)
         IN  /\ e \in Cell /\ u \in Memories
             /\ Linked(u, Pending, r) /\ Linked(u, Done, meant[Done])
             /\ r \in Seq(Cell) /\ Range(r) = Waiting \ {e}
<1> DEFINE s == meant[Pending]
           u == Unlinked(Memory, Pending, e)
           r == RemoveFirst(s, e)
<1>1. /\ Pending \in List /\ Done \in List /\ Pending # Done
      /\ s \in Seq(Cell) /\ IsInjective(s)
      /\ Linked(Memory, Pending, s) /\ Linked(Memory, Done, meant[Done])
      /\ Range(s) \cap Range(meant[Done]) = {}
  BY MemoryAssumption DEF List, Chained, Linked, Waiting
<1>2. PICK i \in 1 .. Len(s) : e = s[i]
  BY <1>1 DEF Waiting, Range
<1>3. Memory \in Memories
  BY MemoryIs
<1>4. r = RemoveAt(s, i)
  BY <1>1, <1>2, RemoveFirstOnce
<1> HIDE DEF s
<1>5. u \in Memories /\ Linked(u, Pending, RemoveAt(s, i))
  BY <1>1, <1>2, <1>3, UnlinkedList
<1>6. Linked(u, Done, meant[Done])
  BY <1>1, <1>2, <1>3, UnlinkedOther
<1>7. r \in Seq(Cell) /\ Range(r) = Range(s) \ {e}
  <2>1. /\ r \in Seq(Cell) /\ Range(r) \subseteq Range(s)
        /\ Range(s) \subseteq Range(r) \cup {e} /\ e \notin Range(r)
    BY <1>1, RemoveFirstElements
  <2> QED
    BY <2>1
<1>8. e \in Cell
  BY <1>1, <1>2
<1> QED
  BY <1>4, <1>5, <1>6, <1>7, <1>8 DEF Waiting, s

----------------------------------------------------------------------------
(* A step that leaves the pointers and the history of the lists alone.     *)
LEMMA ListsKept ==
  ASSUME TypeOK, Chained, UNCHANGED <<next, prev, length, meant>>
  PROVE  Chained' /\ Waiting' = Waiting /\ ListTypes(Memory')
<1>1. Memory' = Memory /\ Waiting' = Waiting
  BY DEF Memory, Waiting
<1>2. Chained'
  BY <1>1 DEF Chained
<1>3. ListTypes(Memory)
  BY DEF TypeOK, ListTypes, Memory
<1> QED
  BY <1>1, <1>2, <1>3

(* A step after which the pointers m hold the histories.                   *)
LEMMA ListsBecome ==
  ASSUME NEW m \in Memories, Becomes(m), meant' \in [List -> Seq(Cell)],
         Linked(m, Pending, meant'[Pending]), Linked(m, Done, meant'[Done]),
         Range(meant'[Pending]) \cap Range(meant'[Done]) = {}
  PROVE  Chained' /\ ListTypes(Memory')
<1>1. Memory' = m
  BY MemoryBecomes
<1>2. \A l \in List : Linked(m, l, meant'[l])
  BY DEF List
<1>3. ListTypes(m)
  <2> DEFINE mean == meant'
  <2>1. \A l \in List : Linked(m, l, mean[l])
    BY <1>2
  <2> HIDE DEF mean
  <2> QED
    BY <2>1, LinkedTypes
<1>4. Chained'
  BY <1>1, <1>2 DEF Chained, Waiting
<1> QED
  BY <1>1, <1>3, <1>4

(* One client of a request: what it does to the nodes.                     *)
Tracked(c) ==
  \/ \E e \in Waiting :
       /\ id[e] = c /\ id' = id /\ Waiting' = Waiting
       /\ refs' = [refs EXCEPT ![e] = @ + 1]
  \/ \E e \in Cell \ Allocated :
       /\ e \notin Waiting /\ \A f \in Waiting : id[f] # c
       /\ Waiting' = Waiting \cup {e}
       /\ id' = [id EXCEPT ![e] = c] /\ refs' = [refs EXCEPT ![e] = 1]

LEMMA TrackLists ==
  ASSUME Inv, Track
  PROVE  Chained' /\ Nodes' /\ ListTypes(Memory') /\ Tracked(Head(todo))
<1> DEFINE c == Head(todo)
           free == {f \in Cell : id[f] = Null}
<1>1. TypeOK /\ Chained /\ Nodes /\ Space /\ Threads
  BY DEF Inv
<1>2. /\ todo # <<>> /\ role' = role /\ role = "up" /\ c \in Client /\ c # Null
      /\ Pending \in List /\ Done \in List /\ Pending # Done
  <2>1. todo # <<>> /\ pc["main"] = "task" /\ role' = role /\ todo \in Seq(Client)
    BY <1>1 DEF Track, At, TypeOK
  <2> QED
    BY <2>1, <1>1, MemoryAssumption DEF Threads, List
<1>3. /\ Found(c) = Null <=> \A e \in Waiting : id[e] # c
      /\ Found(c) # Null => Found(c) \in Waiting /\ id[Found(c)] = c
  BY <1>1, FoundNode
<1>4. Waiting \subseteq Cell
  BY <1>1, <1>2 DEF Waiting, Chained, Range
<1>5. CASE Found(c) # Null
  <2> DEFINE e == Found(c)
  <2>1. /\ refs' = [refs EXCEPT ![e] = @ + 1]
        /\ UNCHANGED <<next, prev, length, id, meant>>
    BY <1>5 DEF Track
  <2>2. e \in Waiting /\ id[e] = c
    BY <1>3, <1>5
  <2> HIDE DEF e
  <2>3. Chained' /\ ListTypes(Memory') /\ Waiting' = Waiting
    BY <1>1, <2>1, ListsKept
  <2>4. Nodes'
    <3>1. \A f \in Waiting : refs'[f] # 0
      BY <1>1, <1>4, <2>1, <2>2 DEF Nodes, TypeOK
    <3> QED
      BY <1>1, <1>2, <2>1, <2>3, <3>1 DEF Nodes
  <2> QED
    BY <2>1, <2>2, <2>3, <2>4 DEF Tracked
<1>6. CASE Found(c) = Null
  <2> DEFINE e == Min(free)
             s == meant[Pending]
  <2>1. e \in Cell /\ id[e] = Null
    <3>1. free # {}
      <4>1. SUFFICES ASSUME free = {} PROVE FALSE
        OBVIOUS
      <4>2. Allocated = Cell
        BY <4>1 DEF Allocated
      <4>3. Cardinality(Cell) <= handed /\ handed + Len(todo) <= Cardinality(Cell)
        BY <1>1, <4>2 DEF Space
      <4>4. handed \in Nat /\ Cardinality(Cell) \in Nat /\ Len(todo) > 0
        <5>1. handed \in Nat /\ todo \in Seq(Client) /\ todo # <<>>
          BY <1>1, <1>2 DEF Space, TypeOK
        <5> QED
          BY <5>1, MemoryAssumption, FS_CardinalityType
      <4> HIDE DEF free
      <4> QED
        BY <4>3, <4>4
    <3>2. free \subseteq Nat
      BY MemoryAssumption
    <3>3. e \in free
      BY <3>1, <3>2, MinIn
    <3> QED
      BY <3>3
  <2>2. /\ id' = [id EXCEPT ![e] = c] /\ refs' = [refs EXCEPT ![e] = 1]
        /\ Becomes(Inserted(Memory, Pending, e))
        /\ meant' = [meant EXCEPT ![Pending] = <<e>> \o @]
    BY <1>6 DEF Track
  <2> HIDE DEF e
  <2>3. /\ \A l \in List : e \notin Range(meant[l])
        /\ e \notin Waiting /\ e \notin Allocated
    BY <1>1, <1>2, <2>1 DEF Nodes, Waiting, Allocated
  <2>4. /\ meant \in [List -> Seq(Cell)] /\ s \in Seq(Cell)
        /\ Linked(Memory, Pending, s) /\ Linked(Memory, Done, meant[Done])
        /\ Range(s) \cap Range(meant[Done]) = {}
        /\ Memory \in Memories
    BY <1>1, <1>2, MemoryIs DEF Chained, Waiting
  <2>5. meant'[Pending] = <<e>> \o s /\ meant'[Done] = meant[Done]
    BY <1>2, <2>2, <2>4
  <2>6. /\ <<e>> \o s \in Seq(Cell) /\ Range(<<e>> \o s) = Range(s) \cup {e}
    BY <2>1, <2>4, ConsElements
  <2>7. /\ Inserted(Memory, Pending, e) \in Memories
        /\ Linked(Inserted(Memory, Pending, e), Pending, <<e>> \o s)
    <3> HIDE DEF s
    <3> QED
      BY <1>2, <2>1, <2>3, <2>4, InsertedList DEF s
  <2>8. Linked(Inserted(Memory, Pending, e), Done, meant[Done])
    <3>1. (Range(s) \cup {e}) \cap Range(meant[Done]) = {}
      BY <1>2, <2>3, <2>4
    <3> HIDE DEF s
    <3> QED
      BY <1>2, <2>1, <2>4, <3>1, InsertedOther
  <2>9. /\ meant' \in [List -> Seq(Cell)]
        /\ Range(meant'[Pending]) \cap Range(meant'[Done]) = {}
        /\ Waiting' = Waiting \cup {e}
    <3>1. meant' \in [List -> Seq(Cell)]
      BY <2>2, <2>4, <2>6
    <3>2. Waiting' = Waiting \cup {e}
      BY <2>5, <2>6 DEF Waiting
    <3> QED
      BY <1>2, <2>3, <2>4, <2>5, <2>6, <3>1, <3>2
  <2>10. Chained' /\ ListTypes(Memory')
    <3>1. /\ Linked(Inserted(Memory, Pending, e), Pending, meant'[Pending])
          /\ Linked(Inserted(Memory, Pending, e), Done, meant'[Done])
      BY <2>5, <2>7, <2>8
    <3> QED
      BY <2>2, <2>7, <2>9, <3>1, ListsBecome
  <2>11. Nodes'
    <3>1. id \in [Cell -> Client \cup {Null}] /\ refs \in [Cell -> Nat]
      BY <1>1 DEF TypeOK
    <3>2. \A f \in Cell : id[f] # Null => id'[f] # Null
      BY <1>2, <2>2, <3>1
    <3>3. id'[e] = c /\ refs'[e] = 1
      BY <2>1, <2>2, <3>1
    <3>4. \A f \in Waiting : id'[f] = id[f] /\ refs'[f] = refs[f]
      BY <1>4, <2>2, <2>3, <3>1
    <3>5. \A l \in List : \A f \in Range(meant'[l]) : id'[f] # Null
      <4>1. \A f \in Range(meant[Done]) : f \in Cell /\ id[f] # Null
        BY <1>1, <1>2, <2>4 DEF Nodes, Range
      <4>2. \A f \in Waiting : f \in Cell /\ id[f] # Null
        BY <1>1, <1>2, <1>4 DEF Nodes, Waiting
      <4> QED
        BY <1>2, <2>5, <2>9, <3>2, <3>3, <4>1, <4>2 DEF List, Waiting
    <3>6. \A f \in Waiting' : refs'[f] # 0
      BY <1>1, <2>9, <3>3, <3>4 DEF Nodes
    <3>7. \A f, g \in Waiting' : id'[f] = id'[g] => f = g
      BY <1>1, <1>3, <1>6, <2>9, <3>3, <3>4 DEF Nodes
    <3> QED
      BY <1>2, <3>5, <3>6, <3>7 DEF Nodes
  <2>12. Tracked(c)
    BY <1>3, <1>6, <2>1, <2>2, <2>3, <2>9 DEF Tracked
  <2> QED
    BY <2>10, <2>11, <2>12
<1> QED
  BY <1>5, <1>6

(* A result: what it does to the nodes when there is one it is for.        *)
Updated(c) ==
  \E e \in Waiting :
    /\ id[e] = c /\ id' = id /\ refs' = [refs EXCEPT ![e] = @ - 1]
    /\ Waiting' = IF refs[e] = 1 THEN Waiting \ {e} ELSE Waiting

LEMMA UpdateLists ==
  ASSUME Inv, NEW t \in Thread, Update(t)
  PROVE  /\ Chained' /\ Nodes' /\ ListTypes(Memory')
         /\ IF Wanted(arg[t]) THEN role = "up" /\ Updated(arg[t])
            ELSE Waiting' = Waiting /\ UNCHANGED <<id, refs>>
<1> DEFINE c == arg[t]
<1>1. TypeOK /\ Chained /\ Nodes
  BY DEF Inv
<1>2. /\ role' = role /\ id' = id /\ Pending \in List /\ Done \in List /\ Pending # Done
      /\ meant \in [List -> Seq(Cell)]
      /\ id \in [Cell -> Client \cup {Null}] /\ refs \in [Cell -> Nat]
  BY <1>1, MemoryAssumption DEF Update, lists, List, Chained, TypeOK
<1>3. Waiting \subseteq Cell
  BY <1>2 DEF Waiting, Range
<1>4. CASE ~Wanted(c)
  <2>1. UNCHANGED <<next, prev, length, id, refs, meant>>
    BY <1>4 DEF Update, lists
  <2>2. Chained' /\ ListTypes(Memory') /\ Waiting' = Waiting
    BY <1>1, <2>1, ListsKept
  <2>3. Nodes'
    BY <1>1, <1>2, <2>1, <2>2 DEF Nodes
  <2> QED
    BY <1>4, <2>1, <2>2, <2>3
<1>5. CASE Wanted(c)
  <2> DEFINE e == Found(c)
             u == Unlinked(Memory, Pending, e)
             s == meant[Pending]
             r == RemoveFirst(s, e)
             d == meant[Done]
  <2>1. e \in Waiting /\ id[e] = c /\ role = "up"
    BY <1>1, <1>5, FoundNode DEF Wanted
  <2>2. /\ refs' = [refs EXCEPT ![e] = @ - 1]
        /\ IF Finished(e)
           THEN /\ Becomes(Inserted(Unlinked(Memory, Pending, e), Done, e))
                /\ meant' = [meant EXCEPT ![Pending] = RemoveFirst(@, e), ![Done] = <<e>> \o @]
           ELSE UNCHANGED <<next, prev, length, meant>>
    BY <1>5 DEF Update
  <2> HIDE DEF e
  <2>3. CASE refs[e] # 1
    <3>1. UNCHANGED <<next, prev, length, meant>>
      BY <2>2, <2>3 DEF Finished
    <3>2. Chained' /\ ListTypes(Memory') /\ Waiting' = Waiting
      BY <1>1, <3>1, ListsKept
    <3>3. refs[e] \in Nat /\ refs[e] # 0 /\ refs'[e] = refs[e] - 1
      BY <1>1, <1>2, <1>3, <2>1, <2>2 DEF Nodes
    <3>4. \A f \in Waiting : refs'[f] # 0
      BY <1>1, <1>2, <1>3, <2>2, <2>3, <3>3 DEF Nodes
    <3>5. Nodes'
      BY <1>1, <1>2, <3>1, <3>2, <3>4 DEF Nodes
    <3>6. Updated(c)
      BY <1>2, <2>1, <2>2, <2>3, <3>2 DEF Updated
    <3> QED
      BY <1>5, <2>1, <3>2, <3>5, <3>6
  <2>4. CASE refs[e] = 1
    <3>1. /\ Becomes(Inserted(u, Done, e))
          /\ meant' = [meant EXCEPT ![Pending] = RemoveFirst(@, e), ![Done] = <<e>> \o @]
      BY <2>2, <2>4 DEF Finished
    <3>2. /\ e \in Cell /\ u \in Memories
          /\ Linked(u, Pending, r) /\ Linked(u, Done, d)
          /\ r \in Seq(Cell) /\ Range(r) = Waiting \ {e}
      BY <1>1, <2>1, TakeOut
    <3>3. meant'[Pending] = r /\ meant'[Done] = <<e>> \o d
      BY <1>2, <3>1
    <3>4. d \in Seq(Cell) /\ Waiting \cap Range(d) = {}
      BY <1>1, <1>2 DEF Chained
    <3> HIDE DEF u, r, d
    <3>5. <<e>> \o d \in Seq(Cell) /\ Range(<<e>> \o d) = Range(d) \cup {e}
      BY <3>2, <3>4, ConsElements
    <3>6. /\ Inserted(u, Done, e) \in Memories
          /\ Linked(Inserted(u, Done, e), Done, <<e>> \o d)
      BY <1>2, <2>1, <3>2, <3>4, InsertedList
    <3>7. Linked(Inserted(u, Done, e), Pending, r)
      <4>1. (Range(d) \cup {e}) \cap Range(r) = {}
        BY <3>2, <3>4
      <4> QED
        BY <1>2, <3>2, <4>1, InsertedOther
    <3>8. /\ meant' \in [List -> Seq(Cell)]
          /\ Waiting' = Waiting \ {e}
          /\ Range(meant'[Pending]) \cap Range(meant'[Done]) = {}
      <4>1. meant' \in [List -> Seq(Cell)]
        <5>1. /\ DOMAIN meant' = List
              /\ meant' = [x \in DOMAIN meant' |-> meant'[x]]
          BY <1>2, <3>1
        <5>2. \A l \in List : meant'[l] \in Seq(Cell)
          BY <3>2, <3>3, <3>5 DEF List
        <5> QED
          BY <5>1, <5>2
      <4>2. Waiting' = Waiting \ {e}
        BY <3>2, <3>3 DEF Waiting
      <4> QED
        BY <3>2, <3>3, <3>4, <3>5, <4>1, <4>2
    <3>9. Chained' /\ ListTypes(Memory')
      <4>1. /\ Linked(Inserted(u, Done, e), Pending, meant'[Pending])
            /\ Linked(Inserted(u, Done, e), Done, meant'[Done])
        BY <3>3, <3>6, <3>7
      <4> QED
        BY <3>1, <3>6, <3>8, <4>1, ListsBecome
    <3>10. Nodes'
      <4>1. \A f \in Range(d) : id[f] # Null
        BY <1>1, <1>2 DEF Nodes, d
      <4>2. \A f \in Waiting : id[f] # Null
        BY <1>1, <1>2 DEF Nodes, Waiting
      <4>3. \A l \in List : \A f \in Range(meant'[l]) : id'[f] # Null
        BY <1>2, <2>1, <3>2, <3>3, <3>5, <4>1, <4>2 DEF List
      <4>4. \A f \in Waiting' : refs'[f] # 0
        BY <1>1, <1>2, <1>3, <2>2, <3>8 DEF Nodes
      <4> QED
        BY <1>1, <1>2, <2>1, <3>8, <4>3, <4>4 DEF Nodes
    <3>11. Updated(c)
      BY <1>2, <2>1, <2>2, <2>4, <3>8 DEF Updated
    <3> QED
      BY <1>5, <2>1, <3>9, <3>10, <3>11
  <2> QED
    BY <2>3, <2>4
<1> QED
  BY <1>4, <1>5

(* The handler's loop: a node that is given up leaves with its parts.      *)
Dropped ==
  /\ Silent(at) /\ Waiting' = Waiting \ {at} /\ dropped' = dropped + refs[at]

LEMMA WalkLists ==
  ASSUME Inv, Walk
  PROVE  /\ Chained' /\ Nodes' /\ ListTypes(Memory') /\ UNCHANGED <<id, refs>>
         /\ at \in Waiting /\ at' \in Waiting' \cup {Null}
         /\ (Waiting' = Waiting /\ dropped' = dropped) \/ Dropped
<1>1. TypeOK /\ Chained /\ Nodes /\ Threads
  BY DEF Inv
<1>2. /\ role = "up" /\ role' = role /\ at \in Waiting /\ UNCHANGED <<id, refs>>
      /\ Pending \in List /\ Done \in List /\ Pending # Done
      /\ meant \in [List -> Seq(Cell)]
  BY <1>1, MemoryAssumption DEF Walk, At, lists, Threads, List, Chained
<1>3. CASE at' = next[at] /\ UNCHANGED <<lists, dropped>>
  <2>1. UNCHANGED <<next, prev, length, meant>>
    BY <1>3 DEF lists
  <2>2. Chained' /\ ListTypes(Memory') /\ Waiting' = Waiting
    BY <1>1, <2>1, ListsKept
  <2>3. Nodes'
    BY <1>1, <1>2, <2>1, <2>2 DEF Nodes
  <2>4. next[at] \in Waiting \cup {Null}
    <3> DEFINE s == meant[Pending]
    <3>1. Linked(Memory, Pending, s) /\ s \in Seq(Cell)
      BY <1>1, <1>2 DEF Chained
    <3>2. PICK i \in 1 .. Len(s) : at = s[i]
      BY <1>2, <3>1 DEF Waiting, Range
    <3>3. Memory.next[s[i]] = IF i = Len(s) THEN Null ELSE s[i + 1]
      BY <3>1, <3>2 DEF Linked
    <3>4. i # Len(s) => i + 1 \in 1 .. Len(s)
      BY <3>1, <3>2
    <3>5. \A j \in 1 .. Len(s) : s[j] \in Waiting
      BY <3>1 DEF Waiting, Range
    <3> HIDE DEF s
    <3> QED
      BY <3>2, <3>3, <3>4, <3>5 DEF Memory
  <2> QED
    BY <1>2, <1>3, <2>2, <2>3, <2>4
<1>4. CASE /\ Silent(at) /\ Becomes(Unlinked(Memory, Pending, at))
           /\ meant' = [meant EXCEPT ![Pending] = RemoveFirst(@, at)]
           /\ dropped' = dropped + refs[at] /\ at' = next'[at]
  <2> DEFINE u == Unlinked(Memory, Pending, at)
             r == RemoveFirst(meant[Pending], at)
  <2>1. /\ at \in Cell /\ u \in Memories
        /\ Linked(u, Pending, r) /\ Linked(u, Done, meant[Done])
        /\ r \in Seq(Cell) /\ Range(r) = Waiting \ {at}
    BY <1>1, <1>2, TakeOut
  <2>2. meant'[Pending] = r /\ meant'[Done] = meant[Done]
    BY <1>2, <1>4
  <2>3. u.next[at] = Null
    <3>1. AfterUnlink(Memory, Pending, at, u)
      BY <1>1, <1>2, <2>1, MemoryIs, UnlinkedPointers
    <3> HIDE DEF u
    <3> QED
      BY <2>1, <3>1 DEF AfterUnlink, Places
  <2>4. at' = Null
    BY <1>4, <2>3 DEF Becomes
  <2> HIDE DEF u
  <2>5. /\ meant' \in [List -> Seq(Cell)]
        /\ Waiting' = Waiting \ {at}
        /\ Range(meant'[Pending]) \cap Range(meant'[Done]) = {}
    <3>1. meant' \in [List -> Seq(Cell)]
      <4> HIDE DEF r
      <4>1. meant' = [meant EXCEPT ![Pending] = r]
        BY <1>4 DEF r
      <4> QED
        BY <1>2, <2>1, <4>1
    <3>2. Waiting' = Waiting \ {at}
      BY <2>1, <2>2 DEF Waiting
    <3>3. Waiting \cap Range(meant[Done]) = {}
      BY <1>1 DEF Chained
    <3> QED
      BY <2>1, <2>2, <3>1, <3>2, <3>3
  <2>6. Chained' /\ ListTypes(Memory')
    <3>1. Linked(u, Pending, meant'[Pending]) /\ Linked(u, Done, meant'[Done])
      BY <2>1, <2>2
    <3>2. Becomes(u)
      BY <1>4 DEF u
    <3> QED
      BY <2>1, <2>5, <3>1, <3>2, ListsBecome
  <2>7. Nodes'
    <3>1. \A l \in List : \A f \in Range(meant'[l]) : id'[f] # Null
      <4>1. /\ \A f \in Range(meant[Done]) : id[f] # Null
            /\ \A f \in Waiting : id[f] # Null
        BY <1>1, <1>2 DEF Nodes, Waiting
      <4> QED
        BY <1>2, <2>1, <2>2, <4>1 DEF List
    <3> QED
      BY <1>1, <1>2, <2>5, <3>1 DEF Nodes
  <2> QED
    BY <1>2, <1>4, <2>4, <2>5, <2>6, <2>7 DEF Dropped
<1> QED
  BY <1>3, <1>4 DEF Walk

(* The moderator is freed, and its lists with it, or stays as it is.       *)
Freeing ==
  \/ role' \in {"sent", "freed"} /\ ListsFreed
  \/ UNCHANGED <<role, lists>>

LEMMA FreeLists ==
  ASSUME Inv, Freeing
  PROVE  /\ Chained' /\ Nodes' /\ ListTypes(Memory')
         /\ \/ /\ role' \in {"sent", "freed"} /\ Waiting' = {}
               /\ id' = [e \in Cell |-> Null] /\ refs' = [e \in Cell |-> 0]
            \/ UNCHANGED <<role, id, refs>> /\ Waiting' = Waiting
<1>1. TypeOK /\ Chained /\ Nodes
  BY DEF Inv
<1>2. CASE UNCHANGED <<role, lists>>
  <2>1. UNCHANGED <<role, next, prev, length, id, refs, meant>>
    BY <1>2 DEF lists
  <2>2. Chained' /\ ListTypes(Memory') /\ Waiting' = Waiting
    BY <1>1, <2>1, ListsKept
  <2>3. Nodes'
    BY <1>1, <2>1, <2>2 DEF Nodes
  <2> QED
    BY <2>1, <2>2, <2>3
<1>3. CASE role' \in {"sent", "freed"} /\ ListsFreed
  <2> DEFINE m == [next |-> [e \in Cell \cup List |-> Null],
                   prev |-> [e \in Cell \cup List |-> Null],
                   length |-> [l \in List |-> 0]]
  <2>1. /\ role' \in {"sent", "freed"}
        /\ id' = [e \in Cell |-> Null] /\ refs' = [e \in Cell |-> 0]
        /\ meant' = [l \in List |-> <<>>]
        /\ next' = [e \in Cell \cup List |-> Null] /\ prev' = next'
        /\ length' = [l \in List |-> 0]
    BY <1>3 DEF ListsFreed
  <2>2. m \in Memories /\ Becomes(m)
    BY <2>1 DEF Memories, Places, Becomes
  <2>3. /\ meant' \in [List -> Seq(Cell)] /\ \A l \in List : meant'[l] = <<>>
        /\ Pending \in List /\ Done \in List
    BY <2>1 DEF List
  <2>4. Range(meant'[Pending]) = {} /\ Range(meant'[Done]) = {}
    BY <2>3 DEF Range
  <2>5. ASSUME NEW l \in List
        PROVE  Linked(m, l, <<>>)
    <3>1. m.prev[l] = Null /\ m.next[l] = Null /\ m.length[l] = 0
      OBVIOUS
    <3>2. <<>> \in Seq(Cell) /\ Len(<<>>) = 0 /\ IsInjective(<<>>)
      BY DEF IsInjective
    <3> HIDE DEF m
    <3> QED
      BY <3>1, <3>2 DEF Linked
  <2> HIDE DEF m
  <2>6. Chained' /\ ListTypes(Memory')
    <3>1. Linked(m, Pending, meant'[Pending]) /\ Linked(m, Done, meant'[Done])
      BY <2>3, <2>5
    <3> QED
      BY <2>2, <2>3, <2>4, <3>1, ListsBecome
  <2>7. Waiting' = {}
    BY <2>4 DEF Waiting
  <2>8. Nodes'
    <3>1. \A l \in List : Range(meant'[l]) = {}
      BY <2>3 DEF Range
    <3> QED
      BY <2>3, <2>7, <3>1 DEF Nodes
  <2> QED
    BY <2>1, <2>6, <2>7, <2>8
<1> QED
  BY <1>2, <1>3 DEF Freeing

(* Every other step leaves the nodes alone.                                *)
LEMMA OtherLists ==
  ASSUME Inv, UNCHANGED lists, role' = role \/ role' = "up"
  PROVE  Chained' /\ Nodes' /\ ListTypes(Memory') /\ Waiting' = Waiting
         /\ UNCHANGED <<id, refs>>
<1>1. TypeOK /\ Chained /\ Nodes /\ UNCHANGED <<next, prev, length, id, refs, meant>>
  BY DEF Inv, lists
<1>2. Chained' /\ ListTypes(Memory') /\ Waiting' = Waiting
  BY <1>1, ListsKept
<1>3. Nodes'
  BY <1>1, <1>2 DEF Nodes
<1> QED
  BY <1>1, <1>2, <1>3

----------------------------------------------------------------------------
(* What becomes of the number of parts when only the count of e is another.*)
Counted(w, v, W, e) ==
  /\ Parts(w, W) \in Nat /\ Parts(v, W) \in Nat
  /\ Parts(w, W \ {e}) = Parts(v, W \ {e}) /\ Parts(w, W \ {e}) \in Nat
  /\ e \in W => /\ Parts(w, W) = w[e] + Parts(w, W \ {e})
                /\ Parts(v, W) = v[e] + Parts(v, W \ {e})

LEMMA PartsCounted ==
  ASSUME NEW w \in [Cell -> Nat], NEW v \in [Cell -> Nat], NEW W \in SUBSET Cell,
         NEW e \in Cell, \A x \in Cell : x # e => w[x] = v[x]
  PROVE  Counted(w, v, W, e)
<1>1. AddsUp(w, Cell) /\ AddsUp(v, Cell)
  BY MemoryAssumption, SumOverSplit
<1>2. /\ Parts(w, W) = SumOver(w, W) /\ Parts(v, W) = SumOver(v, W)
      /\ Parts(w, W \ {e}) = SumOver(w, W \ {e})
      /\ Parts(v, W \ {e}) = SumOver(v, W \ {e})
  BY SumOfFunction DEF Parts
<1>3. SumOver(w, W \ {e}) = SumOver(v, W \ {e})
  <2>1. Agree(w, v, W \ {e})
    BY DEF Agree
  <2> QED
    BY <2>1, SumsAgree
<1>4. /\ SumOver(w, W) \in Nat /\ SumOver(v, W) \in Nat /\ SumOver(w, W \ {e}) \in Nat
  BY <1>1 DEF AddsUp
<1>5. e \in W => /\ SumOver(w, W) = w[e] + SumOver(w, W \ {e})
                 /\ SumOver(v, W) = v[e] + SumOver(v, W \ {e})
  BY <1>1 DEF AddsUp
<1> QED
  BY <1>2, <1>3, <1>4, <1>5 DEF Counted

LEMMA NoParts ==
  ASSUME NEW w \in [Cell -> Nat], NEW W \in SUBSET Cell
  PROVE  /\ Parts(w, W) \in Nat /\ Parts(w, {}) = 0
         /\ Parts(w, W) = 0 /\ (\A x \in W : w[x] # 0) => W = {}
<1>1. AddsUp(w, Cell)
  BY MemoryAssumption, SumOverSplit
<1>2. Parts(w, W) = SumOver(w, W) /\ Parts(w, {}) = SumOver(w, {})
  BY SumOfFunction DEF Parts
<1>3. SumOver(w, {}) = 0 /\ SumOver(w, W) \in Nat
  BY <1>1 DEF AddsUp
<1>4. ASSUME NEW x \in W, Parts(w, W) = 0, \A y \in W : w[y] # 0
      PROVE  FALSE
  <2>1. SumOver(w, W) = w[x] + SumOver(w, W \ {x})
    BY <1>1 DEF AddsUp
  <2>2. SumOver(w, W \ {x}) \in Nat /\ w[x] \in Nat /\ w[x] # 0
    BY <1>1, <1>4 DEF AddsUp
  <2>3. SumOver(w, W) = 0
    BY <1>2, <1>4
  <2> DEFINE a == SumOver(w, W)
             b == SumOver(w, W \ {x})
             k == w[x]
  <2>4. a = k + b /\ b \in Nat /\ k \in Nat /\ k # 0 /\ a = 0
    BY <2>1, <2>2, <2>3
  <2> HIDE DEF a, b, k
  <2> QED
    BY <2>4
<1> QED
  BY <1>2, <1>3, <1>4

----------------------------------------------------------------------------
(* The steps that have nothing to do with the lists and the counts.        *)
Elsewhere == UNCHANGED <<role, lists, counts, todo>>

Quiet ==
  \/ TaskDone \/ TimerFires \/ Walked \/ ForceCleanup \/ MasksCleanup \/ RcvUpdate
  \/ UNCHANGED vars
  \/ \E g \in given : RcvResult(g[1], g[2])
  \/ \E w \in Worker : Computed(w)
  \/ \E t \in Thread : Check(t) \/ Locks(t) \/ Masks(t)

(* The steps that may free the moderator.                                  *)
Final ==
  /\ (\E t \in Thread : Send(t)) \/ Push \/ Retire
  /\ Freeing /\ UNCHANGED <<counts, arg, file, todo, at>>

LEMMA Steps ==
  ASSUME [Next]_vars
  PROVE  \/ \E ids \in TaskLists : RcvTask(ids)
         \/ Track \/ Walk \/ Final
         \/ \E t \in Thread : Update(t)
         \/ Quiet /\ Elsewhere
<1>1. TaskDone \/ TimerFires \/ Walked => Elsewhere
  BY DEF TaskDone, TimerFires, Walked, Elsewhere
<1>2. ForceCleanup \/ MasksCleanup \/ RcvUpdate => Elsewhere
  BY DEF ForceCleanup, MasksCleanup, RcvUpdate, Elsewhere
<1>3. \A g \in given : RcvResult(g[1], g[2]) => Elsewhere
  BY DEF RcvResult, Elsewhere
<1>4. \A w \in Worker : Computed(w) => Elsewhere
  BY DEF Computed, Elsewhere
<1>5. \A t \in Thread : Check(t) \/ Locks(t) \/ Masks(t) => Elsewhere
  BY DEF Check, Locks, Masks, Elsewhere
<1>6. UNCHANGED vars => Elsewhere
  BY DEF vars, threads, Elsewhere
<1>7. \A t \in Thread : Send(t) => Freeing /\ UNCHANGED <<counts, arg, file, todo, at>>
  BY DEF Send, Freeing
<1>8. Push \/ Retire => Freeing /\ UNCHANGED <<counts, arg, file, todo, at>>
  BY DEF Push, Retire, Freeing
<1> QED
  BY <1>1, <1>2, <1>3, <1>4, <1>5, <1>6, <1>7, <1>8 DEF Next, Quiet, Final

(* The pointers, the nodes and the histories after any step.               *)
LEMMA ChainedNext ==
  ASSUME Inv, [Next]_vars
  PROVE  Chained' /\ Nodes' /\ ListTypes(Memory')
<1>1. CASE \E ids \in TaskLists : RcvTask(ids)
  BY <1>1, OtherLists DEF RcvTask
<1>2. CASE Track
  BY <1>2, TrackLists
<1>3. CASE Walk
  BY <1>3, WalkLists
<1>4. CASE \E t \in Thread : Update(t)
  BY <1>4, UpdateLists
<1>5. CASE Final
  BY <1>5, FreeLists DEF Final
<1>6. CASE Elsewhere
  BY <1>6, OtherLists DEF Elsewhere
<1> QED
  BY <1>1, <1>2, <1>3, <1>4, <1>5, <1>6, Steps

(* The memory suffices: a client is entered for a part that was counted.   *)
LEMMA SpaceNext ==
  ASSUME Inv, [Next]_vars
  PROVE  Space'
<1>1. TypeOK /\ Chained /\ Space /\ Threads
  BY DEF Inv
<1>2. /\ handed \in Nat /\ dropped \in Nat /\ refused \in Nat
      /\ Cardinality(Allocated) <= handed
      /\ handed + Len(todo) <= Cardinality(Cell) /\ Cardinality(Cell) \in Nat
      /\ todo \in Seq(Client) /\ refs \in [Cell -> Nat]
      /\ id \in [Cell -> Client \cup {Null}]
      /\ IsFiniteSet(Allocated) /\ Cardinality(Allocated) \in Nat
  <2>1. IsFiniteSet(Allocated)
    BY MemoryAssumption, FS_Subset DEF Allocated
  <2> QED
    BY <1>1, <2>1, MemoryAssumption, FS_CardinalityType DEF Space, TypeOK
<1>3. Waiting \subseteq Cell
  BY <1>1, MemoryAssumption DEF Chained, Waiting, Range, List
<1>4. ASSUME NEW ids \in TaskLists, RcvTask(ids)
      PROVE  Space'
  <2>1. /\ UNCHANGED <<id, handed, refused, dropped>> /\ todo' = ids
        /\ handed + Len(ids) <= Cardinality(Cell)
    BY <1>4 DEF RcvTask, lists
  <2>2. Allocated' = Allocated
    BY <2>1 DEF Allocated
  <2> QED
    BY <1>2, <2>1, <2>2 DEF Space
<1>5. CASE Track
  <2>1. /\ handed' = handed + 1 /\ todo' = Tail(todo) /\ todo # <<>>
        /\ UNCHANGED <<refused, dropped>>
        /\ Head(todo) \in Client
    BY <1>2, <1>5 DEF Track
  <2>2. Len(todo') = Len(todo) - 1 /\ Len(todo) \in Nat
    BY <1>2, <2>1
  <2>3. \E e \in Cell : Allocated' \subseteq Allocated \cup {e}
    <3>1. Tracked(Head(todo))
      BY <1>5, TrackLists
    <3>2. CASE id' = id /\ \E e \in Waiting : TRUE
      BY <1>3, <3>2 DEF Allocated
    <3>3. CASE \E e \in Cell : id' = [id EXCEPT ![e] = Head(todo)]
      <4>1. PICK e \in Cell : id' = [id EXCEPT ![e] = Head(todo)]
        BY <3>3
      <4>2. \A f \in Cell : f # e => id'[f] = id[f]
        BY <1>2, <4>1
      <4> QED
        BY <4>2 DEF Allocated
    <3> QED
      BY <3>1, <3>2, <3>3 DEF Tracked
  <2>4. Cardinality(Allocated') <= Cardinality(Allocated) + 1
    <3>1. PICK e \in Cell : Allocated' \subseteq Allocated \cup {e}
      BY <2>3
    <3> DEFINE n == Cardinality(Allocated)
               k == Cardinality(Allocated \cup {e})
    <3>2. IsFiniteSet(Allocated \cup {e}) /\ k <= n + 1
      <4>1. IsFiniteSet(Allocated \cup {e}) /\ (k = n \/ k = n + 1)
        BY <1>2, FS_AddElement
      <4>2. n \in Nat
        BY <1>2
      <4> HIDE DEF n, k
      <4> QED
        BY <4>1, <4>2
    <3>3. IsFiniteSet(Allocated') /\ Cardinality(Allocated') <= Cardinality(Allocated \cup {e})
      BY <3>1, <3>2, FS_Subset
    <3>4. Cardinality(Allocated') \in Nat /\ Cardinality(Allocated \cup {e}) \in Nat
      BY <3>2, <3>3, FS_CardinalityType
    <3> QED
      BY <1>2, <3>2, <3>3, <3>4
  <2>5. Cardinality(Allocated') \in Nat
    BY MemoryAssumption, FS_Subset, FS_CardinalityType DEF Allocated
  <2> QED
    BY <1>2, <2>1, <2>2, <2>4, <2>5 DEF Space
<1>6. CASE Walk
  <2>1. /\ UNCHANGED <<handed, refused, todo, id>> /\ at \in Waiting
        /\ dropped' \in {dropped, dropped + refs[at]}
    BY <1>6, WalkLists DEF Walk, Dropped
  <2>2. Allocated' = Allocated /\ dropped' \in Nat
    BY <1>2, <1>3, <2>1 DEF Allocated
  <2> QED
    BY <1>2, <2>1, <2>2 DEF Space
<1>7. ASSUME NEW t \in Thread, Update(t)
      PROVE  Space'
  <2>1. UNCHANGED <<id, handed, dropped, todo>> /\ refused' \in {refused, refused + 1}
    BY <1>7, UpdateLists DEF Update, Updated
  <2>2. Allocated' = Allocated
    BY <2>1 DEF Allocated
  <2> QED
    BY <1>2, <2>1, <2>2 DEF Space
<1>8. CASE Final
  <2>1. UNCHANGED <<handed, refused, dropped, todo>>
    BY <1>8 DEF Final, counts
  <2>2. Allocated' = Allocated \/ Allocated' = {}
    BY <1>8, FreeLists DEF Allocated, Final
  <2>3. Cardinality(Allocated') <= handed
    <3>1. Cardinality({}) = 0
      BY FS_EmptySet
    <3>2. CASE Allocated' = {}
      BY <1>2, <3>1, <3>2
    <3> QED
      BY <1>2, <2>2, <3>2
  <2> QED
    BY <1>2, <2>1, <2>3 DEF Space
<1>9. CASE Elsewhere
  BY <1>2, <1>9 DEF Elsewhere, lists, counts, Space, Allocated
<1> QED
  BY <1>4, <1>5, <1>6, <1>7, <1>8, <1>9, Steps

(* Every part stays accounted for.                                         *)
LEMMA BudgetNext ==
  ASSUME Inv, [Next]_vars
  PROVE  Budget'
<1>1. TypeOK /\ Chained /\ Nodes /\ Space /\ Threads /\ Budget
  BY DEF Inv
<1>2. /\ handed \in Nat /\ dropped \in Nat /\ resp \in Nat /\ refused \in Nat
      /\ refs \in [Cell -> Nat] /\ Waiting \subseteq Cell
      /\ Parts(refs, Waiting) \in Nat
  <2>1. refs \in [Cell -> Nat] /\ Waiting \subseteq Cell
    BY <1>1, MemoryAssumption DEF Chained, Waiting, Range, List, TypeOK
  <2>2. Parts(refs, Waiting) \in Nat
    BY <2>1, NoParts
  <2> QED
    BY <1>1, <2>1, <2>2 DEF Space, TypeOK
<1>4. ASSUME NEW ids \in TaskLists, RcvTask(ids)
      PROVE  Budget'
  <2>1. /\ role' = "up" /\ role \in {"new", "up"}
        /\ UNCHANGED <<lists, resp, handed, refused, dropped>>
    BY <1>4 DEF RcvTask
  <2>2. refs' = refs /\ Waiting' = Waiting
    BY <2>1 DEF lists, Waiting
  <2>3. CASE role = "new"
    <3>1. Parts(refs, Waiting) = 0
      <4>1. meant[Pending] = <<>>
        BY <1>1, <2>3 DEF Nodes, List
      <4>2. Waiting = {}
        BY <4>1 DEF Waiting, Range
      <4> QED
        BY <1>2, <4>2, NoParts
    <3>2. handed = 0 /\ dropped = 0 /\ resp = 0 /\ refused = 0
      BY <1>1, <2>3 DEF Budget
    <3> QED
      BY <2>1, <2>2, <3>1, <3>2 DEF Budget
  <2>4. CASE role = "up"
    BY <1>1, <2>1, <2>2, <2>4 DEF Budget
  <2> QED
    BY <2>1, <2>3, <2>4
<1>5. CASE Track
  <2>1. /\ handed' = handed + 1
        /\ UNCHANGED <<role, resp, refused, dropped>> /\ role = "up"
    BY <1>1, <1>5 DEF Track, At, Threads
  <2>3. Parts(refs', Waiting') = Parts(refs, Waiting) + 1
    <3>1. Tracked(Head(todo))
      BY <1>5, TrackLists
    <3>2. ASSUME NEW e \in Waiting, Waiting' = Waiting, refs' = [refs EXCEPT ![e] = @ + 1]
          PROVE  Parts(refs', Waiting') = Parts(refs, Waiting) + 1
      <4> DEFINE v == refs'
      <4>1. /\ v \in [Cell -> Nat] /\ \A x \in Cell : x # e => refs[x] = v[x]
            /\ v[e] = refs[e] + 1 /\ refs[e] \in Nat
        BY <1>2, <3>2
      <4> HIDE DEF v
      <4>2. Counted(refs, v, Waiting, e)
        BY <1>2, <4>1, PartsCounted
      <4>3. Parts(v, Waiting) = Parts(refs, Waiting) + 1
        BY <4>1, <4>2 DEF Counted
      <4> QED
        BY <3>2, <4>3 DEF v
    <3>3. ASSUME NEW e \in Cell, e \notin Waiting, Waiting' = Waiting \cup {e},
                 refs' = [refs EXCEPT ![e] = 1]
          PROVE  Parts(refs', Waiting') = Parts(refs, Waiting) + 1
      <4> DEFINE v == refs'
                 W == Waiting \cup {e}
      <4>1. /\ v \in [Cell -> Nat] /\ \A x \in Cell : x # e => refs[x] = v[x]
            /\ v[e] = 1 /\ W \in SUBSET Cell /\ W \ {e} = Waiting /\ e \in W
        BY <1>2, <3>3
      <4> HIDE DEF v, W
      <4>2. Counted(refs, v, W, e)
        BY <1>2, <4>1, PartsCounted
      <4>3. Parts(v, W) = v[e] + Parts(v, W \ {e}) /\ Parts(refs, W \ {e}) = Parts(v, W \ {e})
        BY <4>1, <4>2 DEF Counted
      <4>4. Parts(v, W) = 1 + Parts(refs, Waiting)
        BY <4>1, <4>3
      <4>5. Parts(v, W) = Parts(refs, Waiting) + 1
        BY <1>2, <4>4
      <4> QED
        BY <3>3, <4>5 DEF v, W
    <3> QED
      BY <3>1, <3>2, <3>3 DEF Tracked
  <2>5. resp + refused + Parts(refs, Waiting) + dropped = handed
    BY <1>1, <2>1 DEF Budget
  <2> QED
    BY <1>2, <2>1, <2>3, <2>5 DEF Budget
<1>6. CASE Walk
  <2>1. /\ UNCHANGED <<role, resp, refused, handed, refs>> /\ at \in Waiting
        /\ (Waiting' = Waiting /\ dropped' = dropped) \/ Dropped
        /\ role = "up"
    BY <1>1, <1>6, WalkLists DEF Walk, At, Threads
  <2>2. Parts(refs, Waiting') + dropped' = Parts(refs, Waiting) + dropped
        /\ dropped' \in Nat /\ dropped' >= dropped
    <3>1. CASE Waiting' = Waiting /\ dropped' = dropped
      BY <1>2, <3>1
    <3>2. CASE Dropped
      <4>1. Waiting' = Waiting \ {at} /\ dropped' = dropped + refs[at] /\ refs[at] \in Nat
        BY <1>2, <2>1, <3>2 DEF Dropped
      <4>2. Counted(refs, refs, Waiting, at)
        BY <1>2, <2>1, PartsCounted
      <4> QED
        BY <1>2, <2>1, <4>1, <4>2 DEF Counted
    <3> QED
      BY <2>1, <3>1, <3>2
  <2>3. resp + refused + Parts(refs, Waiting) + dropped = handed
    BY <1>1, <1>2, <2>1 DEF Budget
  <2>4. Parts(refs, Waiting') \in Nat
    <3>1. Waiting' \subseteq Cell
      BY <1>2, <2>1 DEF Dropped
    <3> QED
      BY <1>2, <3>1, NoParts
  <2>5. resp' + refused' + Parts(refs', Waiting') + dropped' = handed'
    <3> DEFINE p == Parts(refs, Waiting)
               q == Parts(refs, Waiting')
               d == dropped'
    <3>1. /\ q + d = p + dropped /\ resp + refused + p + dropped = handed
          /\ p \in Nat /\ q \in Nat /\ d \in Nat
      BY <1>2, <2>2, <2>3, <2>4
    <3> HIDE DEF p, q, d
    <3>2. resp + refused + q + d = handed
      BY <1>2, <3>1
    <3> QED
      BY <2>1, <3>2 DEF q, d
  <2> QED
    BY <2>1, <2>5 DEF Budget
<1>7. ASSUME NEW t \in Thread, Update(t)
      PROVE  Budget'
  <2>1. UNCHANGED <<role, handed, dropped>>
    BY <1>7 DEF Update
  <2>2. CASE ~Wanted(arg[t])
    <3>1. resp' = resp /\ refused' = refused /\ refs' = refs /\ Waiting' = Waiting
      BY <1>7, <2>2, UpdateLists DEF Update
    <3> QED
      BY <1>1, <2>1, <3>1 DEF Budget
  <2>3. CASE Wanted(arg[t])
    <3>1. /\ role = "up" /\ Updated(arg[t])
          /\ \/ resp' = resp + 1 /\ refused' = refused
             \/ resp' = resp /\ refused' = refused + 1
      BY <1>7, <2>3, UpdateLists DEF Update
    <3>2. PICK e \in Waiting : /\ refs' = [refs EXCEPT ![e] = @ - 1]
                               /\ Waiting' = IF refs[e] = 1 THEN Waiting \ {e} ELSE Waiting
      BY <3>1 DEF Updated
    <3> DEFINE v == refs'
    <3>3. refs[e] \in Nat /\ refs[e] # 0
      BY <1>1, <1>2, <3>2 DEF Nodes
    <3>4. /\ v \in [Cell -> Nat] /\ \A x \in Cell : x # e => refs[x] = v[x]
          /\ v[e] = refs[e] - 1
      <4>1. refs[e] - 1 \in Nat
        BY <3>3
      <4> QED
        BY <1>2, <3>2, <4>1
    <3> HIDE DEF v
    <3>5. Counted(refs, v, Waiting, e)
      BY <1>2, <3>2, <3>4, PartsCounted
    <3>6. Parts(v, Waiting') + 1 = Parts(refs, Waiting) /\ Parts(v, Waiting') \in Nat
      <4>1. /\ Parts(refs, Waiting) = refs[e] + Parts(v, Waiting \ {e})
            /\ Parts(v, Waiting) = v[e] + Parts(v, Waiting \ {e})
            /\ Parts(v, Waiting \ {e}) \in Nat /\ Parts(v, Waiting) \in Nat
        BY <3>5 DEF Counted
      <4>2. CASE refs[e] = 1
        BY <3>2, <4>1, <4>2
      <4>3. CASE refs[e] # 1
        <5>1. Waiting' = Waiting
          BY <3>2, <4>3
        <5> QED
          BY <3>3, <3>4, <4>1, <5>1
      <4> QED
        BY <4>2, <4>3
    <3>7. resp + refused + Parts(refs, Waiting) + dropped = handed
      BY <1>1, <3>1 DEF Budget
    <3>8. resp' + refused' + Parts(v, Waiting') + dropped = handed
      BY <1>2, <3>1, <3>6, <3>7
    <3>9. role' = "up" /\ resp' + refused' + Parts(refs', Waiting') + dropped' = handed'
      BY <2>1, <3>1, <3>8 DEF v
    <3> QED
      BY <3>9 DEF Budget
  <2> QED
    BY <2>2, <2>3
<1>8. CASE Final
  <2>1. UNCHANGED <<resp, handed, refused, dropped>>
    BY <1>8 DEF Final, counts
  <2>2. role' \in {"sent", "freed"} \/ (UNCHANGED <<role, refs>> /\ Waiting' = Waiting)
    BY <1>8, FreeLists DEF Final
  <2> QED
    BY <1>1, <2>1, <2>2 DEF Budget
<1>9. CASE Elsewhere
  <2>1. UNCHANGED <<role, resp, handed, refused, dropped>> /\ UNCHANGED lists
    BY <1>9 DEF Elsewhere, counts
  <2>2. refs' = refs /\ Waiting' = Waiting
    BY <2>1 DEF lists, Waiting
  <2> QED
    BY <1>1, <2>1, <2>2 DEF Budget
<1> QED
  BY <1>4, <1>5, <1>6, <1>7, <1>8, <1>9, Steps

----------------------------------------------------------------------------
(* Types: what the lists leave to be shown.                                *)
(* A request names a part for each of its clients.                         *)
LEMMA RcvTaskGiven ==
  ASSUME NEW ids \in TaskLists, RcvTask(ids)
  PROVE  \E parts \in [DOMAIN ids -> Nat] : Given(ids, parts)
<1>1. ids \in Seq(Client)
  BY ClientsAssumption
<1>2. CASE Given(ids, [i \in DOMAIN ids |-> i])
  <2>1. [i \in DOMAIN ids |-> i] \in [DOMAIN ids -> Nat]
    BY <1>1
  <2> QED
    BY <1>2, <2>1
<1>3. CASE \E parts \in [DOMAIN ids -> Again] : Given(ids, parts)
  <2>1. PICK parts \in [DOMAIN ids -> Again] : Given(ids, parts)
    BY <1>3
  <2>2. Again \subseteq Nat
    BY DEF Again
  <2>3. parts \in [DOMAIN ids -> Nat]
    BY <2>1, <2>2
  <2> QED
    BY <2>1, <2>3
<1> QED
  BY <1>2, <1>3 DEF RcvTask

LEMMA TypesAre ==
  ASSUME ListTypes(Memory'), role' \in {"new", "up", "sent", "freed"},
         id' \in [Cell -> Client \cup {Null}], refs' \in [Cell -> Nat],
         resp' \in Nat, expected' \in Nat, alone' \in BOOLEAN,
         lock' \in Thread \cup {Null}, ignored' \in BOOLEAN,
         pc' \in [Thread -> {"idle", "task", "hired", "working", "check", "wait",
                             "update", "collected", "send", "walk", "cleanup", "push",
                             "retire"}],
         arg' \in [Thread -> Client], file' \in [Thread -> Nat], todo' \in Seq(Client),
         at' \in Cell \cup {Null}
  PROVE  TypeOK'
BY DEF TypeOK, ListTypes, Memory

LEMMA TypesNext ==
  ASSUME Inv, [Next]_vars
  PROVE  TypeOK'
<1> DEFINE Where == {"idle", "task", "hired", "working", "check", "wait",
                     "update", "collected", "send", "walk", "cleanup", "push", "retire"}
<1>1. /\ ListTypes(Memory') /\ "main" \in Thread /\ "timer" \in Thread
      /\ Worker \subseteq Thread /\ Pending \in List
  BY ChainedNext DEF Thread, List
<1>2. /\ role \in {"new", "up", "sent", "freed"}
      /\ id \in [Cell -> Client \cup {Null}] /\ refs \in [Cell -> Nat]
      /\ resp \in Nat /\ expected \in Nat /\ alone \in BOOLEAN
      /\ lock \in Thread \cup {Null} /\ ignored \in BOOLEAN
      /\ pc \in [Thread -> Where] /\ arg \in [Thread -> Client]
      /\ file \in [Thread -> Nat] /\ todo \in Seq(Client) /\ at \in Cell \cup {Null}
      /\ prev \in [Cell \cup List -> Cell \cup {Null}]
  BY DEF Inv, TypeOK
<1>3. Waiting \subseteq Cell /\ Nodes
  BY MemoryAssumption DEF Inv, Chained, Waiting, Range, List
<1>4. ASSUME NEW t \in Thread, NEW where \in Where, Goes(t, where)
      PROVE  pc' \in [Thread -> Where]
  BY <1>2, <1>4 DEF Goes
<1> HIDE DEF Where
<1>5. {"idle", "check", "wait", "update", "collected", "send", "walk", "hired",
       "task", "working", "cleanup", "push", "retire"} \subseteq Where
  BY DEF Where
<1>6. ASSUME NEW ids \in TaskLists, RcvTask(ids)
      PROVE  TypeOK'
  <2>1. /\ role' = "up" /\ ignored' = TRUE /\ todo' \in Seq(Client)
        /\ UNCHANGED <<id, refs, resp, lock, at>>
    BY <1>6, ClientsAssumption DEF RcvTask, lists
  <2>2. expected' \in Nat /\ alone' \in BOOLEAN
    <3>1. Len(ids) \in Nat
      BY ClientsAssumption
    <3> QED
      BY <1>2, <1>6, <3>1 DEF RcvTask
  <2>3. /\ \E W \in SUBSET Worker :
             /\ pc' = [t \in Thread |-> IF t \in W THEN "hired"
                                        ELSE IF t = "main" THEN "task" ELSE pc[t]]
             /\ arg' = [t \in Thread |-> IF t \in W THEN Self ELSE arg[t]]
        /\ file' \in [Thread -> Nat]
    <3>1. PICK parts \in [DOMAIN ids -> Nat] : Given(ids, parts)
      BY <1>6, RcvTaskGiven
    <3>2. PICK W \in SUBSET {w \in Worker : pc[w] = "idle"} :
            \E h \in Bijection(W, {i \in DOMAIN ids : ids[i] = Self}) :
              /\ pc' = [t \in Thread |-> IF t \in W THEN "hired"
                                         ELSE IF t = "main" THEN "task" ELSE pc[t]]
              /\ arg' = [t \in Thread |-> IF t \in W THEN Self ELSE arg[t]]
              /\ file' = [t \in Thread |-> IF t \in W THEN parts[h[t]] ELSE file[t]]
      BY <3>1 DEF Given
    <3>4. file' \in [Thread -> Nat]
      <4>1. PICK h \in Bijection(W, {i \in DOMAIN ids : ids[i] = Self}) :
              file' = [t \in Thread |-> IF t \in W THEN parts[h[t]] ELSE file[t]]
        BY <3>2
      <4>2. h \in [W -> DOMAIN ids]
        BY DEF Bijection, Injection
      <4> QED
        BY <1>2, <3>1, <4>1, <4>2
    <3>5. W \subseteq Worker
      BY <3>2
    <3> QED
      BY <3>2, <3>4, <3>5
  <2>4. pc' \in [Thread -> Where] /\ arg' \in [Thread -> Client]
    BY <1>2, <1>5, <2>3, ClientsAssumption
  <2> QED
    BY <1>1, <1>2, <2>1, <2>2, <2>3, <2>4, TypesAre DEF Where
<1>7. CASE Track
  <2>1. /\ UNCHANGED <<role, resp, expected, alone, lock, ignored, pc, arg, file, at>>
        /\ todo # <<>> /\ todo' = Tail(todo)
    BY <1>7 DEF Track
  <2>2. Head(todo) \in Client /\ todo' \in Seq(Client)
    BY <1>2, <2>1
  <2>4. id' \in [Cell -> Client \cup {Null}] /\ refs' \in [Cell -> Nat]
    <3>1. Tracked(Head(todo))
      BY <1>7, TrackLists
    <3>2. \E e \in Cell : refs' = [refs EXCEPT ![e] = @ + 1] \/ refs' = [refs EXCEPT ![e] = 1]
      BY <1>3, <3>1 DEF Tracked
    <3>3. id' = id \/ \E e \in Cell : id' = [id EXCEPT ![e] = Head(todo)]
      BY <3>1 DEF Tracked
    <3>4. id' \in [Cell -> Client \cup {Null}]
      BY <1>2, <2>2, <3>3
    <3>5. PICK e \in Cell : refs' = [refs EXCEPT ![e] = @ + 1] \/ refs' = [refs EXCEPT ![e] = 1]
      BY <3>2
    <3>6. refs' \in [Cell -> Nat]
      <4>1. refs[e] + 1 \in Nat /\ 1 \in Nat /\ refs \in [Cell -> Nat]
        BY <1>2
      <4>2. CASE refs' = [refs EXCEPT ![e] = @ + 1]
        BY <4>1, <4>2
      <4>3. CASE refs' = [refs EXCEPT ![e] = 1]
        BY <4>1, <4>3
      <4> QED
        BY <3>5, <4>2, <4>3
    <3> QED
      BY <3>4, <3>6
  <2> QED
    BY <1>1, <1>2, <2>1, <2>2, <2>4, TypesAre DEF Where
<1>8. CASE Walk
  <2>1. /\ UNCHANGED <<role, resp, expected, alone, lock, ignored, pc, arg, file,
                       id, refs, todo>>
        /\ at' \in Waiting' \cup {Null} /\ (Waiting' = Waiting \/ Dropped)
    BY <1>8, WalkLists DEF Walk
  <2>2. at' \in Cell \cup {Null}
    BY <1>3, <2>1 DEF Dropped
  <2> QED
    BY <1>1, <1>2, <2>1, <2>2, TypesAre DEF Where
<1>9. ASSUME NEW t \in Thread, Update(t)
      PROVE  TypeOK'
  <2>1. UNCHANGED <<role, expected, alone, arg, file, todo, at>>
    BY <1>9 DEF Update
  <2>2. CASE ~Wanted(arg[t])
    <3>1. Ends(t) /\ Releases(t) /\ UNCHANGED <<id, refs, resp>>
      BY <1>9, <2>2 DEF Update, lists
    <3>2. pc' \in [Thread -> Where] /\ lock' \in Thread \cup {Null} /\ ignored' \in BOOLEAN
      BY <1>2, <1>4, <1>5, <3>1 DEF Ends, Releases
    <3> QED
      BY <1>1, <1>2, <2>1, <3>1, <3>2, TypesAre DEF Where
  <2>3. CASE Wanted(arg[t])
    <3>1. /\ Goes(t, "collected") /\ UNCHANGED <<lock, ignored, id>>
          /\ resp' \in {resp, resp + 1}
      BY <1>9, <2>3 DEF Update
    <3>2. pc' \in [Thread -> Where]
      BY <1>4, <1>5, <3>1
    <3>3. refs' \in [Cell -> Nat]
      <4>1. PICK e \in Waiting : refs' = [refs EXCEPT ![e] = @ - 1]
        BY <1>9, <2>3, UpdateLists DEF Updated
      <4>2. refs[e] \in Nat /\ refs[e] # 0
        BY <1>2, <1>3, <4>1 DEF Nodes
      <4>3. refs[e] - 1 \in Nat
        BY <4>2
      <4> QED
        BY <1>2, <4>1, <4>3
    <3>4. resp' \in Nat
      BY <1>2, <3>1
    <3> QED
      BY <1>1, <1>2, <2>1, <3>1, <3>2, <3>3, <3>4, TypesAre DEF Where
  <2> QED
    BY <2>2, <2>3
<1>10. CASE Final
  <2>1. UNCHANGED <<resp, expected, alone, arg, file, todo, at>>
    BY <1>10 DEF Final, counts
  <2>2. /\ pc' \in [Thread -> Where] /\ lock' \in Thread \cup {Null}
        /\ ignored' \in BOOLEAN
    <3>1. /\ \E t \in Thread : Goes(t, "idle")
          /\ lock' \in {lock, Null} /\ ignored' = FALSE
      BY <1>1, <1>10 DEF Final, Send, Push, Retire, Releases
    <3>2. PICK t \in Thread : Goes(t, "idle")
      BY <3>1
    <3>3. pc' \in [Thread -> Where]
      BY <1>4, <1>5, <3>2
    <3> QED
      BY <1>2, <3>1, <3>3
  <2>3. /\ role' \in {"new", "up", "sent", "freed"} /\ id' \in [Cell -> Client \cup {Null}]
        /\ refs' \in [Cell -> Nat]
    BY <1>2, <1>10, FreeLists DEF Final
  <2> QED
    BY <1>1, <1>2, <2>1, <2>2, <2>3, TypesAre DEF Where
<1>11. CASE Quiet /\ Elsewhere
  <2>1. UNCHANGED <<role, id, refs, resp, expected, alone, todo>>
    BY <1>11 DEF Elsewhere, lists, counts
  <2> DEFINE Typed == /\ lock' \in Thread \cup {Null} /\ ignored' \in BOOLEAN
                      /\ pc' \in [Thread -> Where] /\ arg' \in [Thread -> Client]
                      /\ file' \in [Thread -> Nat] /\ at' \in Cell \cup {Null}
  <2>2. ASSUME TaskDone
        PROVE  Typed
    <3>1. /\ pc' \in [Thread -> Where] /\ ignored' = FALSE
          /\ UNCHANGED <<lock, arg, file, at>>
      BY <1>2, <1>5, <2>2 DEF TaskDone
    <3> QED
      BY <1>2, <3>1
  <2>3. ASSUME NEW g \in given, RcvResult(g[1], g[2])
        PROVE  Typed
    <3>1. /\ arg' = [arg EXCEPT !["main"] = g[1]]
          /\ file' = [file EXCEPT !["main"] = g[2]]
          /\ Goes("main", "check") /\ ignored' = TRUE /\ UNCHANGED <<lock, at>>
      BY <2>3 DEF RcvResult
    <3>2. g[1] \in Client /\ g[2] \in Nat
      BY DEF Inv, OwnParts, Answers, Others, All
    <3> QED
      BY <1>1, <1>2, <1>4, <1>5, <3>1, <3>2
  <2>4. ASSUME NEW w \in Worker, Computed(w)
        PROVE  Typed
    <3>1. /\ Goes(w, "check") \/ Goes(w, "idle")
          /\ UNCHANGED <<lock, ignored, arg, file, at>>
      BY <2>4 DEF Computed, Goes, counts
    <3>2. pc' \in [Thread -> Where]
      BY <1>1, <1>4, <1>5, <3>1
    <3> QED
      BY <1>2, <3>1, <3>2
  <2>5. ASSUME NEW t \in Thread, Check(t) \/ Locks(t) \/ Masks(t)
        PROVE  Typed
    <3>1. /\ \E where \in {"wait", "idle", "update", "send"} : Goes(t, where)
          /\ ignored' \in BOOLEAN /\ lock' \in {lock, t} /\ UNCHANGED <<arg, file, at>>
      BY <1>2, <2>5 DEF Check, Locks, Masks, Ends, counts
    <3>2. pc' \in [Thread -> Where]
      BY <1>4, <1>5, <3>1
    <3> QED
      BY <1>2, <3>1, <3>2
  <2>6. ASSUME TimerFires
        PROVE  Typed
    <3>1. /\ Goes("timer", "collected") \/ Goes("timer", "walk")
          /\ at' \in {at, prev[Pending]} /\ UNCHANGED <<lock, ignored, arg, file>>
      BY <2>6 DEF TimerFires, counts
    <3>2. pc' \in [Thread -> Where] /\ prev[Pending] \in Cell \cup {Null}
      BY <1>1, <1>2, <1>4, <1>5, <3>1
    <3> QED
      BY <1>2, <3>1, <3>2
  <2>7. ASSUME Walked
        PROVE  Typed
    <3>1. Goes("timer", "idle") /\ UNCHANGED <<lock, ignored, arg, file, at>>
      BY <2>7 DEF Walked, counts
    <3>2. pc' \in [Thread -> Where]
      BY <1>1, <1>4, <1>5, <3>1
    <3> QED
      BY <1>2, <3>1, <3>2
  <2>8. ASSUME UNCHANGED vars
        PROVE  Typed
    BY <1>2, <2>8 DEF vars, counts, threads
  <2>9. ASSUME ForceCleanup \/ MasksCleanup \/ RcvUpdate
        PROVE  Typed
    <3>1. /\ \E where \in {"cleanup", "push", "retire"} : Goes("main", where)
          /\ ignored' \in BOOLEAN /\ UNCHANGED <<lock, arg, file, at>>
      BY <1>2, <2>9 DEF ForceCleanup, MasksCleanup, RcvUpdate
    <3>2. pc' \in [Thread -> Where]
      BY <1>1, <1>4, <1>5, <3>1
    <3> QED
      BY <1>2, <3>1, <3>2
  <2>10. Typed
    BY <1>11, <2>2, <2>3, <2>4, <2>5, <2>6, <2>7, <2>8, <2>9 DEF Quiet
  <2> QED
    BY <1>1, <1>2, <2>1, <2>10, TypesAre DEF Where
<1> QED
  BY <1>6, <1>7, <1>8, <1>9, <1>10, <1>11, Steps

(* What the threads may be at.                                             *)
LEMMA ThreadsNext ==
  ASSUME Inv, [Next]_vars
  PROVE  Threads'
<1>1. /\ TypeOK /\ Chained /\ Threads
      /\ "main" \in Thread /\ "timer" \in Thread /\ Worker \subseteq Thread
      /\ "main" \notin Worker /\ "timer" \notin Worker
  BY WorkersAssumption DEF Inv, Thread
<1>2. DOMAIN pc = Thread /\ pc = [t \in Thread |-> pc[t]]
  BY <1>1 DEF TypeOK
<1>3. ASSUME NEW t \in Thread, NEW where, Goes(t, where)
      PROVE  pc'[t] = where /\ \A u \in Thread : u # t => pc'[u] = pc[u]
  BY <1>2, <1>3 DEF Goes
<1>4. ASSUME NEW ids \in TaskLists, RcvTask(ids)
      PROVE  Threads'
  <2>1. /\ role' = "up" /\ at' = at /\ pc["main"] = "idle" /\ pc["timer"] = "idle"
    BY <1>4 DEF RcvTask, At
  <2>2. PICK W \in SUBSET Worker :
          pc' = [t \in Thread |-> IF t \in W THEN "hired"
                                  ELSE IF t = "main" THEN "task" ELSE pc[t]]
    <3>1. PICK parts : Given(ids, parts)
      BY <1>4, RcvTaskGiven
    <3>2. {w \in Worker : pc[w] = "idle"} \subseteq Worker
      OBVIOUS
    <3> QED
      BY <3>1, <3>2 DEF Given
  <2>3. /\ pc'["timer"] = "idle" /\ pc'["main"] = "task"
        /\ \A w \in Worker : pc'[w] \in {"hired", pc[w]}
    BY <1>1, <2>1, <2>2
  <2> QED
    BY <1>1, <2>1, <2>3 DEF Threads
<1>5. CASE Track
  <2>1. /\ UNCHANGED <<role, pc, at, given>> /\ pc["main"] = "task" /\ pc["timer"] = "idle"
    BY <1>5 DEF Track, At
  <2> QED
    BY <1>1, <2>1 DEF Threads
<1>6. CASE Walk
  <2>1. /\ UNCHANGED <<role, pc, todo, given>> /\ at' \in Waiting' \cup {Null}
    BY <1>6, WalkLists DEF Walk
  <2> QED
    BY <1>1, <2>1 DEF Threads
<1>7. ASSUME NEW t \in Thread, Update(t)
      PROVE  Threads'
  <2>1. /\ UNCHANGED <<role, todo, given, at>> /\ pc[t] = "update" /\ t # "timer"
        /\ Goes(t, "idle") \/ Goes(t, "collected")
    BY <1>1, <1>7 DEF Update, At, Ends, Threads
  <2>2. pc["timer"] # "walk" /\ pc["main"] # "task"
    BY <1>1, <1>7, <2>1 DEF Update, At, Overlap, Inside
  <2>3. /\ pc'[t] \in {"idle", "collected"} /\ pc'["timer"] = pc["timer"]
        /\ \A u \in Thread : u # t => pc'[u] = pc[u]
    BY <1>1, <1>3, <2>1
  <2>4. role # "new"
    BY <1>1, <2>1 DEF Threads
  <2> QED
    BY <1>1, <2>1, <2>2, <2>3, <2>4 DEF Threads
<1>8. CASE Final
  <2>1. /\ UNCHANGED <<todo, given, at>> /\ role' \in {role, "sent", "freed"}
    BY <1>8 DEF Final, Freeing, counts
  <2>2. \E t \in Thread : /\ pc[t] \in {"send", "push", "retire"} /\ Goes(t, "idle")
                         /\ pc["timer"] # "walk" /\ (t # "main" => pc["main"] # "task")
    <3>1. ASSUME NEW t \in Thread, Send(t)
          PROVE  /\ pc[t] = "send" /\ Goes(t, "idle")
                 /\ pc["timer"] # "walk" /\ (t # "main" => pc["main"] # "task")
      BY <1>1, <3>1 DEF Send, At, Overlap, Inside
    <3>2. ASSUME Push \/ Retire
          PROVE  /\ pc["main"] \in {"push", "retire"} /\ Goes("main", "idle")
                 /\ pc["timer"] # "walk"
      BY <1>1, <3>2 DEF Push, Retire, At
    <3> QED
      BY <1>1, <1>8, <3>1, <3>2 DEF Final
  <2>3. PICK t \in Thread : /\ pc[t] \in {"send", "push", "retire"} /\ Goes(t, "idle")
                           /\ pc["timer"] # "walk"
                           /\ (t # "main" => pc["main"] # "task")
    BY <2>2
  <2>4. /\ pc'[t] = "idle"
        /\ \A u \in Thread : u # t => pc'[u] = pc[u]
    BY <1>1, <1>3, <2>3
  <2>5. role # "new"
    BY <1>1, <2>3 DEF Threads
  <2>6. pc'["timer"] # "walk" /\ pc'["main"] # "task"
        /\ (pc'["main"] # "task" => todo' = <<>>)
    <3>1. pc["main"] # "task"
      BY <2>3
    <3> QED
      BY <1>1, <2>1, <2>3, <2>4, <3>1 DEF Threads
  <2>7. /\ pc'["timer"] \in {"idle", pc["timer"]} /\ pc'["main"] \in {"idle", pc["main"]}
        /\ \A w \in Worker : pc'[w] \in {"idle", pc[w]}
    BY <1>1, <2>4
  <2> QED
    BY <1>1, <2>1, <2>5, <2>6, <2>7 DEF Threads
<1>9. CASE Quiet /\ Elsewhere
  <2>1. role' = role /\ todo' = todo /\ Waiting' = Waiting /\ given' = given
    BY <1>9 DEF Elsewhere, lists, Waiting, counts
  <2>2. ASSUME TaskDone
        PROVE  Threads'
    <3>1. /\ pc["main"] = "task" /\ todo = <<>> /\ at' = at
          /\ pc' = [t \in Thread |-> IF t = "main" THEN "idle"
                             ELSE IF pc[t] = "hired" THEN "working" ELSE pc[t]]
      BY <2>2 DEF TaskDone, At, counts
    <3>2. /\ pc'["main"] = "idle" /\ pc'["timer"] = pc["timer"]
          /\ \A w \in Worker : pc'[w] \in {"working", pc[w]}
      BY <1>1, <3>1 DEF Threads
    <3> QED
      BY <1>1, <2>1, <3>1, <3>2 DEF Threads
  <2>3. ASSUME NEW g \in given, RcvResult(g[1], g[2])
        PROVE  Threads'
    <3>1. /\ pc["main"] = "idle" /\ Goes("main", "check") /\ given # {} /\ at' = at
      BY <2>3 DEF RcvResult, At
    <3>2. /\ pc'["main"] = "check" /\ role # "new"
          /\ \A u \in Thread : u # "main" => pc'[u] = pc[u]
      BY <1>1, <1>3, <3>1 DEF Threads
    <3> QED
      BY <1>1, <2>1, <3>1, <3>2 DEF Threads
  <2>4. ASSUME NEW w \in Worker, Computed(w)
        PROVE  Threads'
    <3>1. /\ pc[w] = "working" /\ (Goes(w, "check") \/ Goes(w, "idle"))
          /\ at' = at
      BY <2>4 DEF Computed, At, Goes, counts
    <3>2. /\ pc'[w] \in {"check", "idle"} /\ role # "new"
          /\ \A u \in Thread : u # w => pc'[u] = pc[u]
      BY <1>1, <1>3, <3>1 DEF Threads
    <3> QED
      BY <1>1, <2>1, <3>1, <3>2 DEF Threads
  <2>5. ASSUME NEW t \in Thread, Check(t) \/ Locks(t) \/ Masks(t)
        PROVE  Threads'
    <3>1. /\ at' = at
          /\ \/ pc[t] = "check" /\ (Goes(t, "wait") \/ Goes(t, "idle"))
             \/ pc[t] = "wait" /\ Goes(t, "update")
             \/ pc[t] = "collected" /\ Goes(t, "send")
      BY <2>5 DEF Check, Locks, Masks, At, Ends, counts
    <3>2. /\ pc'[t] \in {"wait", "idle", "update", "send"} /\ role # "new"
          /\ pc[t] # "task"
          /\ \A u \in Thread : u # t => pc'[u] = pc[u]
      BY <1>1, <1>3, <3>1 DEF Threads
    <3>3. t = "timer" => pc'[t] = "send"
      BY <1>1, <1>3, <3>1 DEF Threads
    <3> QED
      BY <1>1, <2>1, <3>1, <3>2, <3>3 DEF Threads
  <2>6. ASSUME TimerFires
        PROVE  Threads'
    <3>1. /\ role = "up" /\ pc["timer"] = "idle"
          /\ \/ Goes("timer", "collected")
             \/ Goes("timer", "walk") /\ at' = prev[Pending]
      BY <2>6 DEF TimerFires, At, counts
    <3>2. prev[Pending] \in Waiting \cup {Null}
      <4> DEFINE s == meant[Pending]
      <4>1. Linked(Memory, Pending, s) /\ s \in Seq(Cell)
        BY <1>1, MemoryAssumption DEF Chained, List
      <4>2. Memory.prev[Pending] = IF s = <<>> THEN Null ELSE s[1]
        BY <4>1 DEF Linked
      <4>3. s # <<>> => s[1] \in Waiting
        <5>1. s # <<>> => 1 \in DOMAIN s
          BY <4>1
        <5> QED
          BY <5>1 DEF Waiting, Range
      <4> HIDE DEF s
      <4> QED
        BY <4>2, <4>3 DEF Memory
    <3>3. /\ \/ pc'["timer"] = "collected"
             \/ pc'["timer"] = "walk" /\ at' \in Waiting \cup {Null}
          /\ \A u \in Thread : u # "timer" => pc'[u] = pc[u]
      BY <1>1, <1>3, <3>1, <3>2
    <3> QED
      BY <1>1, <2>1, <3>1, <3>3 DEF Threads
  <2>7. ASSUME Walked
        PROVE  Threads'
    <3>1. Goes("timer", "idle") /\ at' = at
      BY <2>7 DEF Walked, counts
    <3>2. pc'["timer"] = "idle" /\ \A u \in Thread : u # "timer" => pc'[u] = pc[u]
      BY <1>1, <1>3, <3>1
    <3> QED
      BY <1>1, <2>1, <3>1, <3>2 DEF Threads
  <2>8. ASSUME UNCHANGED vars
        PROVE  Threads'
    BY <1>1, <2>1, <2>8 DEF vars, counts, threads, Threads
  <2>9. ASSUME ForceCleanup \/ MasksCleanup \/ RcvUpdate
        PROVE  Threads'
    <3>1. /\ role = "up" \/ pc["main"] # "idle"
          /\ pc["main"] # "task"
          /\ \E where \in {"cleanup", "push", "retire"} : Goes("main", where)
      BY <2>9 DEF ForceCleanup, MasksCleanup, RcvUpdate, At
    <3>2. /\ pc'["main"] \in {"cleanup", "push", "retire"} /\ role # "new"
          /\ \A u \in Thread : u # "main" => pc'[u] = pc[u]
      BY <1>1, <1>3, <3>1 DEF Threads
    <3>3. at' = at
      BY <2>9 DEF ForceCleanup, MasksCleanup, RcvUpdate
    <3> QED
      BY <1>1, <2>1, <3>1, <3>2, <3>3 DEF Threads
  <2> QED
    BY <1>9, <2>2, <2>3, <2>4, <2>5, <2>6, <2>7, <2>8, <2>9 DEF Quiet
<1> QED
  BY <1>4, <1>5, <1>6, <1>7, <1>8, <1>9, Steps

(* Who has the mutex.                                                      *)
LEMMA HoldersNext ==
  ASSUME Inv, [Next]_vars
  PROVE  Holders'
<1>1. /\ TypeOK /\ Threads /\ Holders
      /\ "main" \in Thread /\ "timer" \in Thread /\ Worker \subseteq Thread
      /\ "main" \notin Worker /\ "timer" \notin Worker /\ Null \notin Thread
  BY WorkersAssumption DEF Inv, Thread
<1>2. DOMAIN pc = Thread /\ pc = [t \in Thread |-> pc[t]]
  BY <1>1 DEF TypeOK
<1>3. ASSUME NEW t \in Thread, NEW where, Goes(t, where)
      PROVE  pc'[t] = where /\ \A u \in Thread : u # t => pc'[u] = pc[u]
  BY <1>2, <1>3 DEF Goes
<1>4. ASSUME NEW ids \in TaskLists, RcvTask(ids)
      PROVE  Holders'
  <2>1. /\ lock' = lock /\ pc["timer"] = "idle" /\ (alone' = alone \/ role = "new")
    BY <1>4 DEF RcvTask, At
  <2>2. PICK W \in SUBSET Worker :
          pc' = [t \in Thread |-> IF t \in W THEN "hired"
                                  ELSE IF t = "main" THEN "task" ELSE pc[t]]
    <3>1. PICK parts : Given(ids, parts)
      BY <1>4, RcvTaskGiven
    <3>2. {w \in Worker : pc[w] = "idle"} \subseteq Worker
      OBVIOUS
    <3> QED
      BY <3>1, <3>2 DEF Given
  <2>3. /\ pc'["timer"] = "idle"
        /\ \A t \in Thread : pc'[t] \in {"hired", "task", pc[t]}
    BY <1>1, <2>1, <2>2
  <2> QED
    BY <1>1, <2>1, <2>3 DEF Holders
<1>5. CASE Track \/ Walk
  BY <1>1, <1>5 DEF Track, Walk, Holders
<1>6. ASSUME NEW t \in Thread, Update(t)
      PROVE  Holders'
  <2>1. /\ alone' = alone /\ pc[t] = "update" /\ t # "timer"
        /\ \/ Goes(t, "idle") /\ Releases(t)
           \/ Goes(t, "collected") /\ lock' = lock
    BY <1>1, <1>6 DEF Update, At, Ends, Threads
  <2>2. lock = t
    BY <1>1, <2>1 DEF Holders
  <2>3. /\ pc'[t] = "idle" \/ (pc'[t] = "collected" /\ lock' = lock)
        /\ pc'["timer"] = pc["timer"]
        /\ \A u \in Thread : u # t => pc'[u] = pc[u]
    BY <1>1, <1>3, <2>1
  <2> QED
    BY <1>1, <2>1, <2>2, <2>3 DEF Holders
<1>7. CASE Final
  <2>1. alone' = alone
    BY <1>7 DEF Final, counts
  <2>2. ASSUME NEW t \in Thread, Send(t)
        PROVE  Holders'
    <3>1. pc[t] = "send" /\ Goes(t, "idle") /\ Releases(t)
      BY <2>2 DEF Send, At
    <3>2. /\ pc'[t] = "idle"
          /\ \A u \in Thread : u # t => pc'[u] = pc[u]
      BY <1>1, <1>3, <3>1
    <3> QED
      BY <1>1, <2>1, <3>1, <3>2 DEF Holders, Releases
  <2>3. ASSUME Push \/ Retire
        PROVE  Holders'
    <3>1. lock' = lock /\ Goes("main", "idle")
      BY <2>3 DEF Push, Retire
    <3>2. /\ pc'["main"] = "idle"
          /\ \A u \in Thread : u # "main" => pc'[u] = pc[u]
      BY <1>1, <1>3, <3>1
    <3> QED
      BY <1>1, <2>1, <3>1, <3>2 DEF Holders
  <2> QED
    BY <1>7, <2>2, <2>3 DEF Final
<1>8. CASE Quiet /\ Elsewhere
  <2>1. alone' = alone
    BY <1>8 DEF Elsewhere, counts
  <2>2. ASSUME TaskDone
        PROVE  Holders'
    <3>1. /\ lock' = lock
          /\ pc' = [t \in Thread |-> IF t = "main" THEN "idle"
                             ELSE IF pc[t] = "hired" THEN "working" ELSE pc[t]]
      BY <2>2 DEF TaskDone
    <3>2. /\ pc'["timer"] = pc["timer"]
          /\ \A t \in Thread : pc'[t] \in {"idle", "working", pc[t]}
      BY <1>1, <3>1 DEF Threads
    <3> QED
      BY <1>1, <2>1, <3>1, <3>2 DEF Holders
  <2>3. ASSUME NEW g \in given, RcvResult(g[1], g[2])
        PROVE  Holders'
    <3>1. Goes("main", "check") /\ lock' = lock
      BY <2>3 DEF RcvResult
    <3>2. pc'["main"] = "check" /\ \A u \in Thread : u # "main" => pc'[u] = pc[u]
      BY <1>1, <1>3, <3>1
    <3> QED
      BY <1>1, <2>1, <3>1, <3>2 DEF Holders
  <2>4. ASSUME NEW w \in Worker, Computed(w)
        PROVE  Holders'
    <3>1. (Goes(w, "check") \/ Goes(w, "idle")) /\ lock' = lock
      BY <2>4 DEF Computed, Goes
    <3>2. pc'[w] \in {"check", "idle"} /\ \A u \in Thread : u # w => pc'[u] = pc[u]
      BY <1>1, <1>3, <3>1
    <3> QED
      BY <1>1, <2>1, <3>1, <3>2 DEF Holders
  <2>5. ASSUME NEW t \in Thread, Check(t) \/ Masks(t)
        PROVE  Holders'
    <3>1. /\ lock' = lock
          /\ \/ pc[t] = "check" /\ (Goes(t, "wait") \/ Goes(t, "idle"))
             \/ pc[t] = "collected" /\ Goes(t, "send")
      BY <2>5 DEF Check, Masks, At, Ends
    <3>2. /\ pc'[t] \in {"wait", "idle"} \/ (pc'[t] = "send" /\ pc[t] = "collected")
          /\ \A u \in Thread : u # t => pc'[u] = pc[u]
      BY <1>1, <1>3, <3>1
    <3>3. t = "timer" => pc[t] = "collected"
      BY <1>1, <3>1 DEF Threads
    <3> QED
      BY <1>1, <2>1, <3>1, <3>2, <3>3 DEF Holders
  <2>6. ASSUME NEW t \in Thread, Locks(t)
        PROVE  Holders'
    <3>1. lock = Null /\ lock' = t /\ Goes(t, "update") /\ pc[t] = "wait"
      BY <2>6 DEF Locks, At
    <3>2. pc'[t] = "update" /\ \A u \in Thread : u # t => pc'[u] = pc[u]
      BY <1>1, <1>3, <3>1
    <3>3. t # "timer"
      BY <1>1, <3>1 DEF Threads
    <3> QED
      BY <1>1, <2>1, <3>1, <3>2, <3>3 DEF Holders
  <2>7. ASSUME TimerFires
        PROVE  Holders'
    <3>1. /\ lock' = lock
          /\ Goes("timer", "walk") \/ (alone /\ Goes("timer", "collected"))
      BY <2>7 DEF TimerFires
    <3>2. /\ pc'["timer"] = "walk" \/ alone
          /\ \A u \in Thread : u # "timer" => pc'[u] = pc[u]
      BY <1>1, <1>3, <3>1
    <3> QED
      BY <1>1, <2>1, <3>1, <3>2 DEF Holders
  <2>8. ASSUME Walked
        PROVE  Holders'
    <3>1. Goes("timer", "idle") /\ lock' = lock
      BY <2>8 DEF Walked
    <3>2. pc'["timer"] = "idle" /\ \A u \in Thread : u # "timer" => pc'[u] = pc[u]
      BY <1>1, <1>3, <3>1
    <3> QED
      BY <1>1, <2>1, <3>1, <3>2 DEF Holders
  <2>9. ASSUME UNCHANGED vars
        PROVE  Holders'
    BY <1>1, <2>1, <2>9 DEF vars, threads, Holders
  <2>10. ASSUME ForceCleanup \/ MasksCleanup \/ RcvUpdate
         PROVE  Holders'
    <3>1. /\ lock' = lock
          /\ \E where \in {"cleanup", "push", "retire"} : Goes("main", where)
      BY <2>10 DEF ForceCleanup, MasksCleanup, RcvUpdate
    <3>2. /\ pc'["main"] \in {"cleanup", "push", "retire"}
          /\ \A u \in Thread : u # "main" => pc'[u] = pc[u]
      BY <1>1, <1>3, <3>1
    <3> QED
      BY <1>1, <2>1, <3>1, <3>2 DEF Holders
  <2> QED
    BY <1>8, <2>2, <2>3, <2>4, <2>5, <2>6, <2>7, <2>8, <2>9, <2>10 DEF Quiet
<1> QED
  BY <1>4, <1>5, <1>6, <1>7, <1>8, Steps

----------------------------------------------------------------------------
(* Steps that give no worker a part: one that is idle stays so, and what   *)
(* the main loop takes in hand is a part of others.                        *)
Busy(t) == pc[t] \in {"check", "wait", "update"}

Calm ==
  /\ \A w \in Worker : file'[w] = file[w] /\ (pc[w] = "idle" => pc'[w] = "idle")
  /\ Engaged' \subseteq Engaged
  /\ Busy("main")' => (Busy("main") /\ file' = file) \/ file'["main"] \in Others

(* A thread goes on, and takes nothing in hand that it had not before.     *)
LEMMA CalmStep ==
  ASSUME Inv, NEW t \in Thread, NEW where, Goes(t, where), file' = file,
         t \in Worker => pc[t] # "idle" /\ where \notin {"hired", "working"},
         where \in {"check", "wait", "update"} => Busy(t) \/ (t \in Worker /\ pc[t] = "working")
  PROVE  Calm
<1>1. /\ Threads /\ Worker \subseteq Thread /\ "main" \notin Worker /\ "main" \in Thread
      /\ DOMAIN pc = Thread
  BY WorkersAssumption DEF Inv, TypeOK, Thread
<1>2. pc'[t] = where /\ \A u \in Thread : u # t => pc'[u] = pc[u]
  BY <1>1 DEF Goes
<1>3. Engaged' \subseteq Engaged
  <2>1. ASSUME NEW w \in Engaged'
        PROVE  w \in Engaged
    <3>1. w \in Worker /\ pc'[w] \in {"hired", "working", "check", "wait", "update"}
      BY DEF Engaged
    <3>2. CASE w # t
      BY <1>1, <1>2, <3>1, <3>2 DEF Engaged
    <3>3. CASE w = t
      BY <1>2, <3>1, <3>3 DEF Engaged, Busy
    <3> QED
      BY <3>2, <3>3
  <2> QED
    BY <2>1
<1>4. \A w \in Worker : pc[w] = "idle" => pc'[w] = "idle"
  BY <1>1, <1>2
<1>5. Busy("main")' => Busy("main")
  BY <1>1, <1>2 DEF Busy
<1> QED
  BY <1>3, <1>4, <1>5 DEF Calm

LEMMA CalmSteps ==
  ASSUME Inv, Quiet \/ Track \/ Walk \/ Final \/ \E t \in Thread : Update(t)
  PROVE  Calm
<1>1. /\ TypeOK /\ Threads /\ Worker \subseteq Thread
      /\ "main" \in Thread /\ "timer" \in Thread
      /\ "main" \notin Worker /\ "timer" \notin Worker
  BY WorkersAssumption DEF Inv, Thread
<1>2. DOMAIN pc = Thread /\ DOMAIN file = Thread
  BY <1>1 DEF TypeOK
<1>3. ASSUME pc' = pc, file' = file
      PROVE  Calm
  BY <1>3 DEF Calm, Engaged, Busy
<1>4. ASSUME NEW t \in Thread, Update(t)
      PROVE  Calm
  <2>1. /\ file' = file /\ pc[t] = "update"
        /\ \E where \in {"idle", "collected"} : Goes(t, where)
    BY <1>4 DEF Update, At, Ends
  <2> QED
    BY <2>1, CalmStep
<1>5. CASE Final
  <2>1. ASSUME NEW t \in Thread, Send(t)
        PROVE  Calm
    <3>1. pc[t] = "send" /\ Goes(t, "idle") /\ file' = file
      BY <2>1 DEF Send, At
    <3> QED
      BY <3>1, CalmStep
  <2>2. ASSUME Push \/ Retire
        PROVE  Calm
    <3>1. Goes("main", "idle") /\ file' = file
      BY <2>2 DEF Push, Retire
    <3> QED
      BY <1>1, <3>1, CalmStep
  <2> QED
    BY <1>5, <2>1, <2>2 DEF Final
<1>6. CASE TaskDone
  <2>1. /\ file' = file
        /\ pc' = [t \in Thread |-> IF t = "main" THEN "idle"
                           ELSE IF pc[t] = "hired" THEN "working" ELSE pc[t]]
    BY <1>6 DEF TaskDone
  <2>2. /\ pc'["main"] = "idle"
        /\ \A w \in Worker : pc'[w] = IF pc[w] = "hired" THEN "working" ELSE pc[w]
    BY <1>1, <2>1
  <2> QED
    BY <2>1, <2>2 DEF Calm, Engaged, Busy
<1>7. ASSUME NEW g \in given, RcvResult(g[1], g[2])
      PROVE  Calm
  <2>1. file' = [file EXCEPT !["main"] = g[2]] /\ Goes("main", "check")
    BY <1>7 DEF RcvResult
  <2>2. g[2] \in Others
    BY DEF Inv, OwnParts, Answers
  <2>3. /\ file'["main"] = g[2]
        /\ \A w \in Worker : file'[w] = file[w] /\ pc'[w] = pc[w]
    BY <1>1, <1>2, <2>1 DEF Goes
  <2> QED
    BY <2>2, <2>3 DEF Calm, Engaged
<1>8. ASSUME NEW w \in Worker, Computed(w)
      PROVE  Calm
  <2>1. /\ file' = file /\ pc[w] = "working"
        /\ \E where \in {"check", "idle"} : Goes(w, where)
    BY <1>8 DEF Computed, At, Goes
  <2> QED
    BY <1>1, <2>1, CalmStep
<1>9. ASSUME NEW t \in Thread, Check(t) \/ Locks(t) \/ Masks(t)
      PROVE  Calm
  <2>1. /\ file' = file
        /\ \/ pc[t] = "check" /\ \E where \in {"wait", "idle"} : Goes(t, where)
           \/ pc[t] = "wait" /\ Goes(t, "update")
           \/ pc[t] = "collected" /\ Goes(t, "send")
    BY <1>9 DEF Check, Locks, Masks, At, Ends
  <2>2. PICK where : /\ Goes(t, where) /\ pc[t] # "idle"
                     /\ where \notin {"hired", "working"}
                     /\ where \in {"check", "wait", "update"} => Busy(t)
    BY <2>1 DEF Busy
  <2> QED
    BY <2>1, <2>2, CalmStep
<1>10. CASE TimerFires \/ Walked
  <2>1. file' = file /\ \E where \in {"collected", "walk", "idle"} : Goes("timer", where)
    BY <1>10 DEF TimerFires, Walked
  <2> QED
    BY <1>1, <2>1, CalmStep
<1>11. CASE ForceCleanup \/ MasksCleanup \/ RcvUpdate
  <2>1. file' = file /\ \E where \in {"cleanup", "push", "retire"} : Goes("main", where)
    BY <1>11 DEF ForceCleanup, MasksCleanup, RcvUpdate
  <2> QED
    BY <1>1, <2>1, CalmStep
<1>12. CASE Track \/ Walk \/ UNCHANGED vars
  BY <1>3, <1>12 DEF Track, Walk, vars, threads
<1> QED
  BY <1>4, <1>5, <1>6, <1>7, <1>8, <1>9, <1>10, <1>11, <1>12 DEF Quiet

(* The parts a later request gives again are others'.                      *)
LEMMA AgainOthers ==
  ASSUME Inv
  PROVE  Again \subseteq Others
BY DEF Inv, OwnParts, Answers, Again, Others, All

(* What a task request says of the parts: nothing is in hand at the first. *)
LEMMA RcvTaskParts ==
  ASSUME Inv, NEW ids \in TaskLists, RcvTask(ids)
  PROVE  /\ ids \in Seq(Client) /\ UNCHANGED <<answered, resp, gone>>
         /\ \/ /\ asked' = ids /\ expected' = Len(ids) /\ Given(ids, [i \in DOMAIN ids |-> i])
               /\ given = {} /\ answered = {} /\ Engaged = {}
            \/ /\ UNCHANGED <<asked, expected>>
               /\ \E parts \in [DOMAIN ids -> Others] : Given(ids, parts)
<1>1. /\ ids \in Seq(Client) /\ UNCHANGED <<answered, resp, gone>>
  BY ClientsAssumption DEF RcvTask
<1>2. CASE /\ role = "new" /\ Given(ids, [i \in DOMAIN ids |-> i])
           /\ expected' = Len(ids) /\ asked' = ids
  <2>1. given = {} /\ Engaged = {}
    BY <1>2 DEF Inv, Threads, Engaged, Thread
  <2>2. Cardinality(answered) = 0 /\ IsFiniteSet(answered)
    <3>1. /\ answered \subseteq 1 .. expected /\ expected \in Nat
          /\ resp = Cardinality(answered) /\ resp = 0
      BY <1>2 DEF Inv, OwnParts, Answers, All, Budget, TypeOK
    <3>2. IsFiniteSet(1 .. expected)
      BY <3>1, FS_Interval
    <3> QED
      BY <3>1, <3>2, FS_Subset
  <2>3. answered = {}
    BY <2>2, FS_EmptySet
  <2> QED
    BY <1>1, <1>2, <2>1, <2>3
<1>3. CASE /\ UNCHANGED <<asked, expected>>
           /\ \E parts \in [DOMAIN ids -> Again] : Given(ids, parts)
  <2>1. PICK parts \in [DOMAIN ids -> Again] : Given(ids, parts)
    BY <1>3
  <2>2. parts \in [DOMAIN ids -> Others]
    BY <2>1, AgainOthers
  <2> QED
    BY <1>1, <1>3, <2>1, <2>2
<1> QED
  BY <1>2, <1>3 DEF RcvTask

(* The part a thread adds to the response is one of the task's.            *)
LEMMA UpdatePart ==
  ASSUME Inv, NEW t \in Thread, Update(t)
  PROVE  /\ file[t] \in All /\ pc'[t] \in {"idle", "collected"}
         /\ \A u \in Thread : u # t => pc'[u] = pc[u]
         /\ file' = file /\ UNCHANGED <<asked, expected, given, gone>>
         /\ t \in Engaged \/ (t = "main" /\ file[t] \in Others)
         /\ \/ UNCHANGED <<answered, resp>>
            \/ /\ file[t] \notin answered /\ answered' = answered \cup {file[t]}
               /\ resp' = resp + 1
<1>1. /\ pc[t] = "update" /\ file' = file /\ UNCHANGED <<asked, expected, given, gone>>
      /\ Goes(t, "idle") \/ Goes(t, "collected")
      /\ \/ UNCHANGED <<answered, resp>>
         \/ /\ file[t] \notin answered /\ answered' = answered \cup {file[t]}
            /\ resp' = resp + 1
  BY DEF Update, At, Ends, Repeated
<1>2. /\ pc'[t] \in {"idle", "collected"} /\ \A u \in Thread : u # t => pc'[u] = pc[u]
  BY <1>1 DEF Inv, TypeOK, Goes
<1>3. t = "main" \/ t \in Engaged
  BY <1>1 DEF Inv, Threads, Thread, Engaged
<1>4. t = "main" => file[t] \in Others
  BY <1>1 DEF Inv, OwnParts, InHand
<1>5. file[t] \in All
  BY <1>3, <1>4 DEF Inv, OwnParts, InHand, Others
<1> QED
  BY <1>1, <1>2, <1>3, <1>4, <1>5

(* The response stays one of different parts of the task.                  *)
LEMMA AnswersNext ==
  ASSUME Inv, [Next]_vars
  PROVE  Answers'
<1>1. /\ TypeOK /\ Answers
  BY DEF Inv, OwnParts
<1>2. ASSUME UNCHANGED <<asked, expected, given, answered, resp>>,
             gone' = gone \/ (Silent(at) /\ gone' = gone \cup {id[at]})
      PROVE  Answers'
  BY <1>1, <1>2 DEF Answers, All, Others, Silent
<1>3. ASSUME NEW ids \in TaskLists, RcvTask(ids)
      PROVE  Answers'
  <2>1. /\ ids \in Seq(Client) /\ UNCHANGED <<answered, resp, gone>>
        /\ \/ /\ asked' = ids /\ expected' = Len(ids) /\ Given(ids, [i \in DOMAIN ids |-> i])
              /\ given = {} /\ answered = {}
           \/ /\ UNCHANGED <<asked, expected>>
              /\ \E parts \in [DOMAIN ids -> Others] : Given(ids, parts)
    BY <1>3, RcvTaskParts
  <2>2. \A i \in DOMAIN ids : i \in 1 .. Len(ids) /\ ids[i] \in Client
    BY <2>1
  <2>3. CASE /\ asked' = ids /\ expected' = Len(ids) /\ Given(ids, [i \in DOMAIN ids |-> i])
             /\ given = {} /\ answered = {}
    <3>1. given' = {<<ids[i], i>> : i \in {k \in DOMAIN ids : ids[k] # Self}}
      BY <2>3 DEF Given
    <3>2. given' \subseteq Client \X Others'
      BY <2>2, <2>3, <3>1 DEF Others, All
    <3> QED
      BY <1>1, <2>1, <2>3, <3>2 DEF Answers
  <2>4. CASE /\ UNCHANGED <<asked, expected>>
             /\ \E parts \in [DOMAIN ids -> Others] : Given(ids, parts)
    <3>1. PICK parts \in [DOMAIN ids -> Others] : Given(ids, parts)
      BY <2>4
    <3>2. given' = given \cup {<<ids[i], parts[i]>> : i \in {k \in DOMAIN ids : ids[k] # Self}}
      BY <3>1 DEF Given
    <3>3. given' \subseteq Client \X Others
      BY <1>1, <2>2, <3>1, <3>2 DEF Answers
    <3>4. Others' = Others /\ All' = All
      BY <2>4 DEF Others, All
    <3> QED
      BY <1>1, <2>1, <2>4, <3>3, <3>4 DEF Answers
  <2> QED
    BY <2>1, <2>3, <2>4
<1>4. CASE Track
  BY <1>2, <1>4 DEF Track
<1>5. CASE Walk
  BY <1>2, <1>5 DEF Walk
<1>6. ASSUME NEW t \in Thread, Update(t)
      PROVE  Answers'
  <2>1. /\ file[t] \in All /\ UNCHANGED <<asked, expected, given, gone>>
        /\ \/ UNCHANGED <<answered, resp>>
           \/ /\ file[t] \notin answered /\ answered' = answered \cup {file[t]}
              /\ resp' = resp + 1
    BY <1>6, UpdatePart
  <2>2. CASE UNCHANGED <<answered, resp>>
    BY <1>2, <2>1, <2>2
  <2>3. CASE /\ file[t] \notin answered /\ answered' = answered \cup {file[t]}
             /\ resp' = resp + 1
    <3>1. IsFiniteSet(answered)
      <4>1. expected \in Nat /\ answered \subseteq 1 .. expected
        BY <1>1 DEF TypeOK, Answers, All
      <4>2. IsFiniteSet(1 .. expected)
        BY <4>1, FS_Interval
      <4> QED
        BY <4>1, <4>2, FS_Subset
    <3>2. Cardinality(answered') = Cardinality(answered) + 1
      BY <2>3, <3>1, FS_AddElement
    <3>3. All' = All /\ Others' = Others
      BY <2>1 DEF All, Others
    <3> QED
      BY <1>1, <2>1, <2>3, <3>2, <3>3 DEF Answers
  <2> QED
    BY <2>1, <2>2, <2>3
<1>7. CASE Final \/ Elsewhere
  <2>1. UNCHANGED <<asked, expected, given, answered, resp, gone>>
    BY <1>7 DEF Final, Elsewhere, counts
  <2> QED
    BY <1>2, <2>1
<1> QED
  BY <1>3, <1>4, <1>5, <1>6, <1>7, Steps

(* What is in the hands of the threads stays what it should be.            *)
LEMMA InHandNext ==
  ASSUME Inv, [Next]_vars
  PROVE  InHand'
<1>1. /\ InHand /\ Answers /\ Worker \subseteq Thread /\ "main" \in Thread
      /\ "main" \notin Worker
  BY WorkersAssumption DEF Inv, OwnParts, Thread
<1>2. ASSUME Calm, UNCHANGED <<asked, expected, answered>>
      PROVE  InHand'
  <2>1. All' = All /\ Others' = Others
    BY <1>2 DEF All, Others
  <2>2. \A w \in Engaged' : w \in Engaged /\ file'[w] = file[w]
    BY <1>2 DEF Calm, Engaged
  <2>3. Busy("main")' => file'["main"] \in Others
    BY <1>1, <1>2 DEF Calm, InHand, Busy
  <2>4. \A w \in Engaged' : /\ file'[w] \in All
                            /\ file'[w] \notin Others => file'[w] \notin answered
    BY <1>1, <2>2 DEF InHand
  <2>5. \A v, w \in Engaged' : file'[v] = file'[w] /\ file'[w] \notin Others => v = w
    BY <1>1, <2>2 DEF InHand
  <2> QED
    BY <1>2, <2>1, <2>3, <2>4, <2>5 DEF InHand, Busy
<1>3. ASSUME NEW ids \in TaskLists, RcvTask(ids)
      PROVE  InHand'
  <2>1. /\ ids \in Seq(Client) /\ answered' = answered
        /\ \/ /\ asked' = ids /\ expected' = Len(ids) /\ Given(ids, [i \in DOMAIN ids |-> i])
              /\ answered = {} /\ Engaged = {}
           \/ /\ UNCHANGED <<asked, expected>>
              /\ \E parts \in [DOMAIN ids -> Others] : Given(ids, parts)
    BY <1>3, RcvTaskParts
  <2> DEFINE I == {i \in DOMAIN ids : ids[i] = Self}
             Hands(parts, W, h) ==
               /\ W \subseteq Worker /\ h \in [W -> I]
               /\ \A v, w \in W : h[v] = h[w] => v = w
               /\ pc'["main"] = "task"
               /\ \A w \in Engaged' : w \in W \/ (w \in Engaged /\ w \notin W)
               /\ \A w \in Worker : file'[w] = IF w \in W THEN parts[h[w]] ELSE file[w]
  <2>2. ASSUME NEW parts, Given(ids, parts)
        PROVE  \E W, h : Hands(parts, W, h)
    <3>1. PICK W \in SUBSET {w \in Worker : pc[w] = "idle"} :
            \E h \in Bijection(W, I) :
              /\ pc' = [t \in Thread |-> IF t \in W THEN "hired"
                                         ELSE IF t = "main" THEN "task" ELSE pc[t]]
              /\ file' = [t \in Thread |-> IF t \in W THEN parts[h[t]] ELSE file[t]]
      BY <2>2 DEF Given
    <3>2. PICK h \in Bijection(W, I) :
            file' = [t \in Thread |-> IF t \in W THEN parts[h[t]] ELSE file[t]]
      BY <3>1
    <3>3. h \in [W -> I] /\ \A v, w \in W : h[v] = h[w] => v = w
      BY DEF Bijection, Injection, IsInjective
    <3>4. W \subseteq Worker
      BY <3>1
    <3>5. pc'["main"] = "task"
      BY <1>1, <3>1, <3>4
    <3>6. \A w \in Engaged' : w \in W \/ (w \in Engaged /\ w \notin W)
      BY <1>1, <3>1 DEF Engaged
    <3>7. \A w \in Worker : file'[w] = IF w \in W THEN parts[h[w]] ELSE file[w]
      BY <1>1, <3>2
    <3>8. Hands(parts, W, h)
      BY <3>3, <3>4, <3>5, <3>6, <3>7
    <3> HIDE DEF Hands
    <3>9. \E g : Hands(parts, W, g)
      BY <3>8, Zenon
    <3> QED
      BY <3>9, Zenon
  <2>3. CASE /\ asked' = ids /\ expected' = Len(ids) /\ Given(ids, [i \in DOMAIN ids |-> i])
             /\ answered = {} /\ Engaged = {}
    <3> DEFINE parts == [i \in DOMAIN ids |-> i]
    <3>0. Given(ids, parts)
      BY <2>3
    <3>1. PICK W, h : Hands(parts, W, h)
      <4> HIDE DEF Hands, parts
      <4> QED
        BY <2>2, <3>0
    <3>2. \A i \in I : i \in DOMAIN ids /\ i \in 1 .. Len(ids) /\ ids[i] = Self /\ parts[i] = i
      BY <2>1
    <3>3. \A w \in Engaged' : w \in W /\ w \in Worker /\ h[w] \in I
      BY <2>3, <3>1
    <3>4. \A w \in Engaged' : file'[w] = h[w]
      BY <3>1, <3>2, <3>3
    <3>5. \A w \in Engaged' : file'[w] \in All'
      BY <2>3, <3>2, <3>3, <3>4 DEF All
    <3>6. \A v, w \in Engaged' : file'[v] = file'[w] => v = w
      BY <3>1, <3>3, <3>4
    <3> QED
      BY <2>1, <2>3, <3>1, <3>5, <3>6 DEF InHand
  <2>4. CASE /\ UNCHANGED <<asked, expected>>
             /\ \E parts \in [DOMAIN ids -> Others] : Given(ids, parts)
    <3>1. PICK parts \in [DOMAIN ids -> Others] : Given(ids, parts)
      BY <2>4
    <3>2. PICK W, h : Hands(parts, W, h)
      BY <2>2, <3>1
    <3>3. \A w \in Engaged' : \/ file'[w] \in Others
                              \/ w \in Engaged /\ file'[w] = file[w]
      <4>1. \A w \in W : parts[h[w]] \in Others
        BY <3>1, <3>2
      <4>2. Engaged' \subseteq Worker
        BY DEF Engaged
      <4> QED
        BY <3>2, <4>1, <4>2
    <3>4. All' = All /\ Others' = Others /\ Others \subseteq All
      BY <2>4 DEF All, Others
    <3>5. \A w \in Engaged' : /\ file'[w] \in All
                              /\ file'[w] \notin Others => file'[w] \notin answered
      BY <1>1, <3>3, <3>4 DEF InHand
    <3>6. \A v, w \in Engaged' : file'[v] = file'[w] /\ file'[w] \notin Others => v = w
      BY <1>1, <3>3 DEF InHand
    <3> QED
      BY <2>1, <3>2, <3>4, <3>5, <3>6 DEF InHand
  <2> QED
    BY <2>1, <2>3, <2>4
<1>4. ASSUME NEW t \in Thread, Update(t)
      PROVE  InHand'
  <2>1. /\ file' = file /\ UNCHANGED <<asked, expected>>
        /\ t \in Engaged \/ (t = "main" /\ file[t] \in Others)
        /\ answered' \subseteq answered \cup {file[t]}
        /\ pc'[t] \in {"idle", "collected"} /\ \A u \in Thread : u # t => pc'[u] = pc[u]
    BY <1>4, UpdatePart
  <2>2. All' = All /\ Others' = Others
    BY <2>1 DEF All, Others
  <2>3. \A w \in Engaged' : w \in Engaged /\ w # t
    BY <1>1, <2>1 DEF Engaged
  <2>4. \A w \in Engaged' : file[w] \notin Others => file[w] # file[t]
    BY <1>1, <2>1, <2>3 DEF InHand
  <2>5. \A w \in Engaged' : /\ file'[w] \in All
                            /\ file'[w] \notin Others => file'[w] \notin answered'
    BY <1>1, <2>1, <2>3, <2>4 DEF InHand
  <2>6. \A v, w \in Engaged' : file'[v] = file'[w] /\ file'[w] \notin Others => v = w
    BY <1>1, <2>1, <2>3 DEF InHand
  <2>7. Busy("main")' => file'["main"] \in Others
    BY <1>1, <2>1 DEF InHand, Busy
  <2> QED
    BY <2>2, <2>5, <2>6, <2>7 DEF InHand, Busy
<1>5. CASE Track \/ Walk
  <2>1. UNCHANGED <<asked, expected, answered>>
    BY <1>5 DEF Track, Walk
  <2> QED
    BY <1>2, <1>5, <2>1, CalmSteps
<1>6. CASE Final \/ (Quiet /\ Elsewhere)
  <2>1. UNCHANGED <<asked, expected, answered>>
    BY <1>6 DEF Final, Elsewhere, counts
  <2> QED
    BY <1>2, <1>6, <2>1, CalmSteps
<1> QED
  BY <1>3, <1>4, <1>5, <1>6, Steps

(* When the response is complete every part of the task is in it.          *)
LEMMA AllAnswered ==
  ASSUME Inv, Complete
  PROVE  answered = 1 .. expected
<1>1. /\ answered \subseteq 1 .. expected /\ expected \in Nat
      /\ Cardinality(answered) = expected
  BY DEF Inv, OwnParts, Answers, All, TypeOK, Complete
<1>2. IsFiniteSet(1 .. expected) /\ Cardinality(1 .. expected) = expected
  BY <1>1, FS_Interval
<1> QED
  BY <1>1, <1>2, FS_Subset

(* A worker with a part of the moderator's own is never left behind by one *)
(* who sends the answer.                                                   *)
LEMMA OwnFirstNext ==
  ASSUME Inv, [Next]_vars
  PROVE  OwnPartsFirst'
<1>1. /\ TypeOK /\ Threads /\ Holders /\ OwnPartsFirst /\ InHand
      /\ "main" \in Thread /\ "timer" \in Thread /\ Worker \subseteq Thread
      /\ "main" \notin Worker /\ "timer" \notin Worker
  BY WorkersAssumption DEF Inv, Thread, OwnParts
<1>2. ASSUME role' = role, alone' = alone, asked' = asked, Calm
      PROVE  OwnPartsFirst'
  BY <1>1, <1>2 DEF OwnPartsFirst, Calm
<1>3. ASSUME NEW ids \in TaskLists, RcvTask(ids)
      PROVE  OwnPartsFirst'
  BY <1>3 DEF RcvTask, OwnPartsFirst
<1>4. CASE Track \/ Walk \/ \E t \in Thread : Update(t)
  <2>1. UNCHANGED <<role, alone, asked>>
    BY <1>4 DEF Track, Walk, Update
  <2> QED
    BY <1>2, <1>4, <2>1, CalmSteps
<1>5. CASE Quiet /\ Elsewhere
  <2>1. UNCHANGED <<role, alone, asked>>
    BY <1>5 DEF Elsewhere, counts
  <2> QED
    BY <1>2, <1>5, <2>1, CalmSteps
<1>6. CASE Final
  <2>1. UNCHANGED <<alone, asked, file>> /\ Calm
    BY <1>6, CalmSteps DEF Final, counts
  <2>2. CASE Push \/ Retire
    <3>1. role' = role \/ role' = "freed"
      BY <2>2 DEF Push, Retire
    <3> QED
      BY <1>2, <2>1, <3>1 DEF OwnPartsFirst
  <2>3. ASSUME NEW t \in Thread, Send(t)
        PROVE  OwnPartsFirst'
    <3>1. /\ role = "up" /\ pc[t] = "send" /\ Goes(t, "idle")
          /\ ~Complete => role' = role
      BY <2>3 DEF Send, At
    <3>2. CASE ~Complete
      BY <1>2, <2>1, <3>1, <3>2
    <3>3. CASE Complete
      <4>1. ASSUME ~alone, NEW w \in Worker, pc'[w] # "idle"
            PROVE  asked[file[w]] # Self
        <5>1. t # "timer"
          BY <1>1, <3>1, <4>1 DEF Holders
        <5>2. w # t
          BY <1>1, <3>1, <4>1 DEF Goes, TypeOK
        <5>3. pc[w] # "idle" /\ pc[w] \notin {"collected", "send"}
          BY <1>1, <2>1, <3>1, <4>1, <5>1, <5>2 DEF Holders, Calm
        <5>4. w \in Engaged
          BY <1>1, <5>3 DEF Engaged, TypeOK, Threads
        <5>5. file[w] \in All /\ All = answered
          <6>1. answered = All
            BY <3>3, AllAnswered DEF All
          <6> QED
            BY <1>1, <5>4, <6>1 DEF InHand
        <5>6. file[w] \in Others
          BY <1>1, <5>4, <5>5 DEF InHand
        <5> QED
          BY <5>6 DEF Others
      <4> QED
        BY <2>1, <4>1 DEF OwnPartsFirst
    <3> QED
      BY <3>2, <3>3
  <2> QED
    BY <1>6, <2>2, <2>3 DEF Final
<1> QED
  BY <1>3, <1>4, <1>5, <1>6, Steps

----------------------------------------------------------------------------
(* Before the first task request.                                          *)
LEMMA InvInit ==
  ASSUME Init
  PROVE  Inv
<1>1. /\ "main" \in Thread /\ "timer" \in Thread /\ Worker \subseteq Thread
      /\ Pending \in List /\ Done \in List /\ Pending # Done
      /\ Cardinality(Cell) \in Nat /\ Self \in Client
  BY MemoryAssumption, ClientsAssumption, FS_CardinalityType DEF Thread, List
<1>2. /\ meant = [l \in List |-> <<>>] /\ \A l \in List : meant[l] = <<>>
      /\ \A t \in Thread : pc[t] = "idle"
      /\ role = "new" /\ todo = <<>> /\ handed = 0 /\ dropped = 0 /\ resp = 0
      /\ refused = 0 /\ alone = FALSE /\ lock = Null /\ id = [e \in Cell |-> Null]
      /\ asked = <<>> /\ expected = 0 /\ given = {} /\ answered = {} /\ gone = {}
  BY DEF Init
<1>3. Waiting = {} /\ \A l \in List : Range(meant[l]) = {}
  BY <1>1, <1>2 DEF Waiting, Range
<1>4. TypeOK
  <2>1. 0 \in 0 .. Cardinality(Cell)
    BY <1>1
  <2>2. length \in [List -> 0 .. Cardinality(Cell)]
    BY <2>1 DEF Init
  <2>3. /\ next \in [Cell \cup List -> Cell \cup {Null}]
        /\ prev \in [Cell \cup List -> Cell \cup {Null}]
        /\ refs \in [Cell -> Nat] /\ id \in [Cell -> Client \cup {Null}]
        /\ arg \in [Thread -> Client] /\ file \in [Thread -> Nat]
    BY <1>1 DEF Init
  <2>4. /\ pc \in [Thread -> {"idle", "task", "hired", "working", "check", "wait",
                             "update", "collected", "send", "walk", "cleanup", "push",
                             "retire"}]
        /\ expected = 0 /\ ignored = FALSE /\ at = Null
    BY DEF Init
  <2>5. role \in {"new", "up", "sent", "freed"} /\ alone \in BOOLEAN /\ ignored \in BOOLEAN
    BY <1>2, <2>4
  <2>6. resp \in Nat /\ expected \in Nat
    BY <1>2
  <2>7. lock \in Thread \cup {Null} /\ at \in Cell \cup {Null}
    BY <1>2, <2>4
  <2>8. todo \in Seq(Client)
    BY <1>2
  <2> QED
    BY <2>2, <2>3, <2>4, <2>5, <2>6, <2>7, <2>8 DEF TypeOK
<1>5. Chained
  <2>1. ASSUME NEW l \in List
        PROVE  Linked(Memory, l, <<>>)
    <3>1. Memory.prev[l] = Null /\ Memory.next[l] = Null /\ Memory.length[l] = 0
      BY DEF Init, Memory
    <3>2. <<>> \in Seq(Cell) /\ Len(<<>>) = 0 /\ IsInjective(<<>>)
      BY DEF IsInjective
    <3> QED
      BY <3>1, <3>2 DEF Linked
  <2> QED
    BY <1>1, <1>2, <1>3, <2>1 DEF Chained
<1>6. Nodes
  BY <1>2, <1>3 DEF Nodes
<1>7. Space
  <2>1. Allocated = {}
    BY <1>2 DEF Allocated
  <2>2. Cardinality(Allocated) = 0 /\ Len(todo) = 0
    BY <1>2, <2>1, FS_EmptySet
  <2> QED
    BY <1>1, <1>2, <2>2 DEF Space
<1>8. Budget
  BY <1>2 DEF Budget
<1>9. Threads
  BY <1>1, <1>2 DEF Threads
<1>10. Holders
  BY <1>1, <1>2 DEF Holders
<1>11. OwnParts
  <2>1. Engaged = {}
    BY <1>1, <1>2 DEF Engaged
  <2> QED
    <3>1. Answers
      <4>1. Cardinality({}) = 0
        BY FS_EmptySet
      <4> QED
        BY <1>2, <4>1 DEF Answers
    <3>2. InHand
      BY <1>1, <1>2, <2>1 DEF InHand
    <3> QED
      BY <1>2, <3>1, <3>2 DEF OwnParts, OwnPartsFirst
<1> QED
  BY <1>4, <1>5, <1>6, <1>7, <1>8, <1>9, <1>10, <1>11 DEF Inv

(* The invariant holds in every behaviour of the moderator's threads.      *)
LEMMA InvAlways == Spec => []Inv
<1>1. Init => Inv
  BY InvInit
<1>2. Inv /\ [Next]_vars => Inv'
  BY TypesNext, ChainedNext, SpaceNext, BudgetNext, ThreadsNext, HoldersNext,
     AnswersNext, InHandNext, OwnFirstNext DEF Inv, OwnParts
<1> QED
  BY <1>1, <1>2, PTL DEF Spec

(* Pointers lead to nodes of the memory or nowhere, a count of references  *)
(* is never taken below zero and no length below zero or above the number  *)
(* of nodes there are (the macros of sn_ll.c and ref_count in client.c).   *)
THEOREM TypeCorrect == Spec => []TypeOK
<1>1. Inv => TypeOK
  BY DEF Inv
<1> QED
  BY <1>1, InvAlways, PTL

(* Read from either end, each list has the elements that were put into it  *)
(* and not taken out, whatever threads took turns in the lists             *)
(* (SN_LIST_ELEMENT_UNLINK and SN_LIST_ELEMENT_INSERT_BEFORE, sn_ll.c).    *)
THEOREM ListsAreWhole == Spec => []ListsWhole
<1>1. Inv => ListsWhole
  BY ChainedIsWhole DEF Inv
<1> QED
  BY <1>1, InvAlways, PTL

(* Every part that clients were asked for is answered, refused, given up   *)
(* or pending at a node, no more answers are counted than were expected,   *)
(* and as many only when each part is answered, also when answered parts   *)
(* are given again (check_if_response_already_received and                 *)
(* moderator_send_task_response_to_server, client.c).                      *)
THEOREM PartsAreAccounted == Spec => []PartsAccounted
<1>1. ASSUME Inv
      PROVE  PartsAccounted
  <2>1. TypeOK /\ Budget /\ Answers
    BY <1>1 DEF Inv, OwnParts
  <2>2. resp <= expected
    <3>1. expected \in Nat /\ answered \subseteq 1 .. expected /\ resp = Cardinality(answered)
      BY <2>1 DEF TypeOK, Answers, All
    <3>2. IsFiniteSet(1 .. expected) /\ Cardinality(1 .. expected) = expected
      BY <3>1, FS_Interval
    <3>3. Cardinality(answered) <= Cardinality(1 .. expected)
      BY <3>1, <3>2, FS_Subset
    <3> QED
      BY <3>1, <3>2, <3>3
  <2>3. Complete => answered = 1 .. expected
    BY <1>1, AllAnswered
  <2> QED
    BY <2>1, <2>2, <2>3 DEF PartsAccounted, Budget, Parts, Waiting
<1>2. Inv => PartsAccounted
  BY <1>1
<1> QED
  BY <1>2, InvAlways, PTL

(* A moderator that does not work alone sends its answer only when every   *)
(* part that was its own is computed and counted; threads may be left with *)
(* parts of dead clients that another has answered                         *)
(* (send_task_results_to_moderator, client.c).                             *)
THEOREM OwnFirst == Spec => []OwnPartsFirst
<1>1. Inv => OwnPartsFirst
  BY DEF Inv, OwnParts
<1> QED
  BY <1>1, InvAlways, PTL
=============================================================================
