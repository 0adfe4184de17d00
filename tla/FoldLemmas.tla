----------------------------- MODULE FoldLemmas -----------------------------
(***************************************************************************)
(* Facts about numbers, sequences, folds over sequences and sums over sets *)
(* that the proofs about the components share.  Induction is on a set of   *)
(* numbers instead of a predicate: a first-order fact, which the provers   *)
(* can use.                                                                *)
(***************************************************************************)
EXTENDS Integers, Sequences, SequencesExt, FiniteSetTheorems,
        WellFoundedInduction, SequenceTheorems, TLAPS

(* Every set of natural numbers has a least one: the intervals up to its   *)
(* elements have a smallest one, as the strict subset ordering of finite   *)
(* sets is well founded.                                                   *)
LEMMA Least ==
  ASSUME NEW T, T \subseteq Nat, T # {}
  PROVE  \E n \in T : \A m \in T : n <= m
<1> DEFINE U == {0 .. n : n \in T}
           R == StrictSubsetOrdering(Nat)
<1>1. \A n \in Nat : 0 .. n \in SUBSET Nat /\ IsFiniteSet(0 .. n)
  BY FS_Interval
<1>2. U \subseteq FiniteSubsetsOf(Nat)
  BY <1>1 DEF FiniteSubsetsOf
<1>3. PICK x \in U : \A y \in U : <<y, x>> \notin R
  <2>1. IsWellFoundedOn(R, FiniteSubsetsOf(Nat))
    BY FS_StrictSubsetOrderingWellFounded
  <2>2. U # {}
    OBVIOUS
  <2> HIDE DEF U, R
  <2> QED
    BY <1>2, <2>1, <2>2, WFMin
<1>4. PICK n \in T : x = 0 .. n
  BY <1>3
<1>5. ASSUME NEW m \in T, ~ (n <= m)
      PROVE  FALSE
  <2>1. m \in Nat /\ n \in Nat /\ m < n
    BY <1>5
  <2>2. 0 .. m \subseteq 0 .. n /\ n \in 0 .. n /\ n \notin 0 .. m
    BY <2>1
  <2>3. <<0 .. m, 0 .. n>> \in R
    BY <1>1, <2>1, <2>2 DEF StrictSubsetOrdering
  <2> QED
    BY <1>3, <1>4, <2>3
<1> QED
  BY <1>5

(* Induction up to a number, on the set of numbers something is true of.   *)
LEMMA Induction ==
  ASSUME NEW N \in Nat, NEW T,
         0 \in T, \A n \in 0 .. N - 1 : n \in T => n + 1 \in T
  PROVE  \A n \in 0 .. N : n \in T
<1> DEFINE B == {n \in 0 .. N : n \notin T}
<1> SUFFICES ASSUME B # {}
             PROVE  FALSE
  OBVIOUS
<1>1. PICK n \in B : \A m \in B : n <= m
  <2>1. B \subseteq Nat
    OBVIOUS
  <2> HIDE DEF B
  <2> QED
    BY <2>1, Least
<1>2. n \in 0 .. N /\ n # 0 /\ n \notin T
  OBVIOUS
<1>3. n - 1 \in 0 .. N - 1 /\ n - 1 \in 0 .. N /\ n = (n - 1) + 1
  BY <1>2
<1>4. n - 1 \in T
  BY <1>1, <1>3
<1> QED
  BY <1>2, <1>3, <1>4

(* The largest of some numbers that are not too large.                     *)
LEMMA MaxIn ==
  ASSUME NEW m \in Nat, NEW S, S \subseteq 0 .. m, S # {}
  PROVE  Max(S) \in S /\ \A y \in S : y <= Max(S)
<1> DEFINE T == {n \in 0 .. m : m - n \in S}
<1>0. \A s \in S : s \in 0 .. m
  OBVIOUS
<1>1. T \subseteq Nat /\ T # {}
  <2>1. \A s \in S : m - s \in T
    BY <1>0
  <2>2. T \subseteq Nat
    OBVIOUS
  <2> QED
    BY <2>1, <2>2
<1>2. PICK k \in T : \A l \in T : k <= l
  <2> HIDE DEF T
  <2> QED
    BY <1>1, Least
<1>3. ASSUME NEW y \in S
      PROVE  m - k >= y
  <2>1. m - y \in T /\ y \in 0 .. m
    BY <1>0
  <2>2. k \in 0 .. m /\ k <= m - y
    BY <1>2, <2>1
  <2> QED
    BY <2>1, <2>2
<1>4. m - k \in S /\ \A y \in S : m - k >= y
  BY <1>2, <1>3
<1>5. \E x \in S : \A y \in S : x >= y
  BY <1>4
<1>6. Max(S) \in S /\ \A y \in S : Max(S) >= y
  BY <1>5 DEF Max
<1> QED
  BY <1>0, <1>6

(* The smallest of some natural numbers.                                   *)
LEMMA MinIn ==
  ASSUME NEW S, S \subseteq Nat, S # {}
  PROVE  Min(S) \in S /\ \A y \in S : Min(S) <= y
<1>1. \E x \in S : \A y \in S : x <= y
  BY Least
<1> QED
  BY <1>1 DEF Min

(* The function by which MapThenFoldSet folds over the numbers 1 to n,     *)
(* when the steps are given by a function.                                 *)
IsFold(f, n, V, base, step) ==
  /\ f \in [SUBSET (1 .. n) -> V]
  /\ \A s \in SUBSET (1 .. n) :
       f[s] = IF s = {} THEN base ELSE step[<<Max(s), f[s \ {Max(s)}]>>]

(* A fold over the numbers 1 to n: as long as every step stays among the   *)
(* values V, the function by which MapThenFoldSet is defined exists.       *)
LEMMA FoldExists ==
  ASSUME NEW n \in Nat, NEW V, NEW base \in V,
         NEW step \in [(1 .. n) \X V -> V]
  PROVE  \E f : IsFold(f, n, V, base, step)
<1> DEFINE D(k) == SUBSET (1 .. k)
           Next(f, s) == IF s = {} THEN base
                         ELSE step[<<Max(s), f[s \ {Max(s)}]>>]
           Good(k) == \E f \in [D(k) -> V] : \A s \in D(k) : f[s] = Next(f, s)
           T == {k \in 0 .. n : Good(k)}
<1>1. 0 \in T
  <2>1. D(0) = {{}}
    OBVIOUS
  <2>2. [s \in D(0) |-> base] \in [D(0) -> V]
    OBVIOUS
  <2>3. Good(0)
    BY <2>1, <2>2
  <2>4. 0 \in 0 .. n
    OBVIOUS
  <2> HIDE DEF Good
  <2> QED
    BY <2>3, <2>4
<1>2. ASSUME NEW k \in 0 .. n - 1, k \in T
      PROVE  k + 1 \in T
  <2>1. PICK f \in [D(k) -> V] : \A s \in D(k) : f[s] = Next(f, s)
    BY <1>2
  <2> DEFINE g == [s \in D(k + 1) |-> Next(f, s)]
  <2>2. ASSUME NEW s \in D(k + 1), s # {}
        PROVE  /\ Max(s) \in 1 .. n
               /\ s \ {Max(s)} \in D(k) /\ s \ {Max(s)} \in D(k + 1)
    <3>0. \A x \in s : x \in 1 .. k + 1 /\ x \in 0 .. k + 1
      OBVIOUS
    <3>1. Max(s) \in s /\ \A y \in s : y <= Max(s)
      <4>1. s \subseteq 0 .. k + 1 /\ k + 1 \in Nat
        BY <3>0
      <4> QED
        BY <2>2, <4>1, MaxIn
    <3>2. Max(s) \in 1 .. k + 1
      BY <3>0, <3>1
    <3>3. \A x \in s \ {Max(s)} : x \in 1 .. k
      BY <3>0, <3>1, <3>2
    <3>4. \A x \in s \ {Max(s)} : x \in 1 .. k + 1
      BY <3>0
    <3>5. Max(s) \in 1 .. n
      BY <3>2
    <3>6. s \ {Max(s)} \in D(k) /\ s \ {Max(s)} \in D(k + 1)
      BY <3>3, <3>4
    <3> QED
      BY <3>5, <3>6
  <2>3. \A s \in D(k + 1) : Next(f, s) \in V
    BY <2>1, <2>2
  <2>4. g \in [D(k + 1) -> V]
    BY <2>3
  <2>5. \A s \in D(k) : s \in D(k + 1) /\ g[s] = f[s]
    <3>1. \A s \in D(k) : s \in D(k + 1)
      <4>1. 1 .. k \subseteq 1 .. k + 1
        OBVIOUS
      <4> QED
        BY <4>1
    <3> QED
      BY <2>1, <3>1
  <2>6. \A s \in D(k + 1) : g[s] = Next(g, s)
    BY <2>2, <2>5
  <2>7. Good(k + 1)
    <3> HIDE DEF g
    <3> QED
      BY <2>4, <2>6
  <2>8. k + 1 \in 0 .. n
    OBVIOUS
  <2> HIDE DEF Good
  <2> QED
    BY <2>7, <2>8
<1>3. n \in T
  <2> HIDE DEF T
  <2> QED
    BY <1>1, <1>2, Induction
<1> QED
  BY <1>3 DEF IsFold

(* Taking the largest of the first k numbers leaves the first k - 1.       *)
LEMMA MaxOfInterval ==
  ASSUME NEW k \in Nat, k # 0
  PROVE  /\ Max(1 .. k) = k /\ (1 .. k) \ {k} = 1 .. k - 1
         /\ 1 .. k # {}
<1>1. k \in 1 .. k /\ (1 .. k) \subseteq 0 .. k
  OBVIOUS
<1>2. Max(1 .. k) \in 1 .. k /\ \A y \in 1 .. k : y <= Max(1 .. k)
  BY <1>1, MaxIn
<1> QED
  BY <1>1, <1>2

(* The values a fold over the numbers 1 to n goes through, one after the   *)
(* other.                                                                  *)
IsCourse(h, n, V, base, step) ==
  /\ h \in [0 .. n -> V]
  /\ h[0] = base
  /\ \A k \in 1 .. n : h[k] = step[<<k, h[k - 1]>>]

(* The function by which a fold over 1 to n is defined takes these steps   *)
(* as long as it stays among the values V.                                 *)
TakesSteps(it, n, V, base, step) ==
  /\ n \in Nat /\ base \in V /\ step \in [(1 .. n) \X V -> V]
  /\ it[{}] = base
  /\ \A s \in SUBSET (1 .. n) : s # {} /\ it[s \ {Max(s)}] \in V =>
       it[s] = step[<<Max(s), it[s \ {Max(s)}]>>]

(* A course that ends at e.                                                *)
EndsAt(e, n, V, base, step) ==
  \E h : IsCourse(h, n, V, base, step) /\ h[n] = e

(* A fold ends where its course ends: by induction on the steps.           *)
LEMMA CourseOfFold ==
  ASSUME NEW n, NEW V, NEW base, NEW step, NEW it,
         TakesSteps(it, n, V, base, step)
  PROVE  EndsAt(it[1 .. n], n, V, base, step)
<1>0. /\ n \in Nat /\ base \in V /\ step \in [(1 .. n) \X V -> V]
      /\ it[{}] = base
      /\ \A s \in SUBSET (1 .. n) : s # {} /\ it[s \ {Max(s)}] \in V =>
           it[s] = step[<<Max(s), it[s \ {Max(s)}]>>]
  BY DEF TakesSteps
<1> DEFINE h == [k \in 0 .. n |-> it[1 .. k]]
           T == {k \in 0 .. n : it[1 .. k] \in V}
<1>1. 0 \in T
  <2>1. 1 .. 0 = {} /\ 0 \in 0 .. n
    BY <1>0
  <2> QED
    BY <1>0, <2>1
<1>2. ASSUME NEW k \in 0 .. n - 1, it[1 .. k] \in V
      PROVE  /\ it[1 .. k + 1] = step[<<k + 1, it[1 .. k]>>]
             /\ it[1 .. k + 1] \in V
  <2>1. /\ k + 1 \in Nat /\ k + 1 # 0 /\ (k + 1) - 1 = k
        /\ k + 1 \in 1 .. n /\ 1 .. k + 1 \in SUBSET (1 .. n)
    BY <1>0
  <2>2. /\ Max(1 .. k + 1) = k + 1 /\ (1 .. k + 1) \ {k + 1} = 1 .. k
        /\ 1 .. k + 1 # {}
    BY <2>1, MaxOfInterval
  <2> QED
    BY <1>0, <1>2, <2>1, <2>2
<1>3. \A k \in 0 .. n : k \in T
  <2>1. ASSUME NEW k \in 0 .. n - 1, k \in T
        PROVE  k + 1 \in T
    <3>1. k + 1 \in 0 .. n /\ it[1 .. k] \in V
      BY <1>0, <2>1
    <3> QED
      BY <1>2, <3>1
  <2> HIDE DEF T
  <2> QED
    BY <1>0, <1>1, <2>1, Induction
<1>4. h \in [0 .. n -> V]
  BY <1>3
<1>5. h[0] = base
  <2>1. 1 .. 0 = {} /\ 0 \in 0 .. n
    BY <1>0
  <2> QED
    BY <1>0, <2>1
<1>6. ASSUME NEW k \in 1 .. n
      PROVE  h[k] = step[<<k, h[k - 1]>>]
  <2>1. k - 1 \in 0 .. n - 1 /\ k - 1 \in 0 .. n /\ (k - 1) + 1 = k /\ k \in 0 .. n
    BY <1>0
  <2>2. it[1 .. k - 1] \in V
    BY <1>3, <2>1
  <2>3. it[1 .. (k - 1) + 1] = step[<<(k - 1) + 1, it[1 .. k - 1]>>]
    BY <1>2, <2>1, <2>2
  <2> QED
    BY <2>1, <2>3
<1>7. h[n] = it[1 .. n]
  BY <1>0
<1> HIDE DEF h
<1>8. IsCourse(h, n, V, base, step)
  BY <1>4, <1>5, <1>6 DEF IsCourse
<1> QED
  BY <1>7, <1>8 DEF EndsAt

(* Taking an element out of a sequence.                                    *)
LEMMA RemoveAtType ==
  ASSUME NEW S, NEW seq \in Seq(S), NEW i \in 1 .. Len(seq)
  PROVE  RemoveAt(seq, i) \in Seq(S)
<1>1. \A j \in 1 .. i - 1 : seq[j] \in S
  OBVIOUS
<1>2. \A j \in i + 1 .. Len(seq) : seq[j] \in S
  OBVIOUS
<1>3. SubSeq(seq, 1, i - 1) \in Seq(S)
  BY <1>1, SubSeqProperties
<1>4. SubSeq(seq, i + 1, Len(seq)) \in Seq(S)
  BY <1>2, SubSeqProperties
<1> QED
  BY <1>3, <1>4, ConcatProperties DEF RemoveAt

(* The first place of an element goes; the others stay in order.           *)
LEMMA RemoveFirstAt ==
  ASSUME NEW S, NEW seq \in Seq(S), NEW x, \E i \in 1 .. Len(seq) : seq[i] = x
  PROVE  \E i \in 1 .. Len(seq) :
           /\ seq[i] = x
           /\ RemoveFirst(seq, x) = RemoveAt(seq, i)
<1> DEFINE I == {i \in 1 .. Len(seq) : seq[i] = x}
<1>1. I # {} /\ I \subseteq Nat
  OBVIOUS
<1>2. Min(I) \in I
  BY <1>1, MinIn
<1>3. RemoveFirst(seq, x) = RemoveAt(seq, Min(I))
  BY <1>1 DEF RemoveFirst, SelectInSeq
<1> QED
  BY <1>2, <1>3

(* What stays when the i-th element of a sequence is removed.              *)
LEMMA RemoveAtElements ==
  ASSUME NEW S, NEW seq \in Seq(S), NEW i \in 1 .. Len(seq)
  PROVE  /\ RemoveAt(seq, i) \in Seq(S)
         /\ Len(RemoveAt(seq, i)) = Len(seq) - 1
         /\ \A j \in 1 .. Len(seq) - 1 :
              RemoveAt(seq, i)[j] = IF j < i THEN seq[j] ELSE seq[j + 1]
<1> DEFINE a == SubSeq(seq, 1, i - 1)
           b == SubSeq(seq, i + 1, Len(seq))
<1>1. /\ a \in Seq(S) /\ Len(a) = i - 1
      /\ \A j \in 1 .. i - 1 : a[j] = seq[j]
  OBVIOUS
<1>2. /\ b \in Seq(S) /\ Len(b) = Len(seq) - i
      /\ \A j \in 1 .. Len(seq) - i : b[j] = seq[i + j]
  OBVIOUS
<1>3. RemoveAt(seq, i) = a \o b
  BY DEF RemoveAt
<1>4. ASSUME NEW j \in 1 .. Len(seq) - 1
      PROVE  (a \o b)[j] = IF j < i THEN seq[j] ELSE seq[j + 1]
  <2> HIDE DEF a, b
  <2>1. CASE j < i
    BY <1>1, <1>2, <2>1
  <2>2. CASE ~(j < i)
    <3>1. j - Len(a) \in 1 .. Len(seq) - i /\ i + (j - Len(a)) = j + 1
      BY <1>1, <2>2
    <3>2. (a \o b)[j] = b[j - Len(a)]
      BY <1>1, <1>2, <2>2
    <3> QED
      BY <1>2, <2>2, <3>1, <3>2
  <2> QED
    BY <2>1, <2>2
<1> QED
  <2>1. a \o b \in Seq(S) /\ Len(a \o b) = Len(seq) - 1
    <3> HIDE DEF a, b
    <3>1. a \o b \in Seq(S) /\ Len(a \o b) = Len(a) + Len(b)
      <4>1. a \in Seq(S) /\ b \in Seq(S)
        BY <1>1, <1>2
      <4> QED
        BY <4>1, ConcatProperties
    <3>2. Len(seq) \in Nat
      OBVIOUS
    <3> QED
      BY <1>1, <1>2, <3>1, <3>2
  <2> HIDE DEF a, b
  <2> QED
    BY <1>3, <1>4, <2>1

(* Removing an element of a list takes nobody else out of it; when nobody  *)
(* is in the list twice, it takes the element out, and then nobody is      *)
(* twice in what stays.                                                    *)
LEMMA RemoveFirstElements ==
  ASSUME NEW S, NEW seq \in Seq(S), NEW x
  PROVE  /\ RemoveFirst(seq, x) \in Seq(S)
         /\ Range(RemoveFirst(seq, x)) \subseteq Range(seq)
         /\ Range(seq) \subseteq Range(RemoveFirst(seq, x)) \cup {x}
         /\ x \notin Range(seq) => RemoveFirst(seq, x) = seq
         /\ IsInjective(seq) => /\ x \notin Range(RemoveFirst(seq, x))
                                /\ IsInjective(RemoveFirst(seq, x))
<1> DEFINE r == RemoveFirst(seq, x)
           n == Len(seq)
<1>0. n \in Nat /\ DOMAIN seq = 1 .. n
  OBVIOUS
<1>1. CASE ~ \E i \in 1 .. n : seq[i] = x
  <2>1. r = seq
    BY <1>1 DEF RemoveFirst
  <2>2. x \notin Range(seq)
    BY <1>0, <1>1 DEF Range
  <2> QED
    BY <2>1, <2>2
<1>2. CASE \E i \in 1 .. n : seq[i] = x
  <2>1. PICK i \in 1 .. n : seq[i] = x /\ r = RemoveAt(seq, i)
    BY <1>2, RemoveFirstAt
  <2>2. /\ r \in Seq(S) /\ Len(r) = n - 1
        /\ \A j \in 1 .. n - 1 : r[j] = IF j < i THEN seq[j] ELSE seq[j + 1]
    BY <2>1, RemoveAtElements
  <2>3. DOMAIN r = 1 .. n - 1
    BY <2>2
  <2> HIDE DEF r, n
  <2>4. ASSUME NEW j \in 1 .. n - 1
        PROVE  \E l \in 1 .. n : r[j] = seq[l] /\ l # i /\ (l = j \/ l = j + 1)
                                 /\ (j < i => l = j) /\ (~(j < i) => l = j + 1)
    <3>1. j \in 1 .. n /\ j + 1 \in 1 .. n
      BY <1>0
    <3> QED
      BY <1>0, <2>1, <2>2, <3>1
  <2>5. Range(r) \subseteq Range(seq)
    BY <1>0, <2>3, <2>4 DEF Range
  <2>6. ASSUME NEW l \in 1 .. n, l # i
        PROVE  \E j \in 1 .. n - 1 : r[j] = seq[l]
    <3>1. CASE l < i
      <4>1. l \in 1 .. n - 1
        BY <1>0, <3>1, <2>1
      <4> QED
        BY <2>2, <3>1, <4>1
    <3>2. CASE l > i
      <4>1. l - 1 \in 1 .. n - 1 /\ ~(l - 1 < i) /\ (l - 1) + 1 = l
        BY <1>0, <3>2, <2>1
      <4> QED
        BY <2>2, <4>1
    <3> QED
      BY <1>0, <2>1, <2>6, <3>1, <3>2
  <2>7. Range(seq) \subseteq Range(r) \cup {x}
    BY <1>0, <2>1, <2>3, <2>6 DEF Range
  <2>8. x \in Range(seq)
    BY <1>0, <2>1 DEF Range
  <2>9. ASSUME IsInjective(seq)
        PROVE  x \notin Range(r) /\ IsInjective(r)
    <3>1. \A k, l \in 1 .. n : seq[k] = seq[l] => k = l
      BY <1>0, <2>9 DEF IsInjective
    <3>2. x \notin Range(r)
      BY <2>1, <2>3, <2>4, <3>1 DEF Range
    <3>3. ASSUME NEW j \in 1 .. n - 1, NEW k \in 1 .. n - 1, r[j] = r[k]
          PROVE  j = k
      <4>1. PICK l \in 1 .. n : /\ r[j] = seq[l] /\ (j < i => l = j)
                                /\ (~(j < i) => l = j + 1)
        BY <2>4
      <4>2. PICK m \in 1 .. n : /\ r[k] = seq[m] /\ (k < i => m = k)
                                /\ (~(k < i) => m = k + 1)
        BY <2>4
      <4>3. l = m
        BY <3>1, <3>3, <4>1, <4>2
      <4> QED
        BY <1>0, <2>1, <4>1, <4>2, <4>3
    <3> QED
      BY <2>3, <3>2, <3>3 DEF IsInjective
  <2> QED
    BY <2>2, <2>5, <2>7, <2>8, <2>9 DEF r
<1> QED
  BY <1>1, <1>2

(* Putting an element at the head of a list.                               *)
LEMMA ConsElements ==
  ASSUME NEW S, NEW seq \in Seq(S), NEW x \in S
  PROVE  /\ <<x>> \o seq \in Seq(S) /\ <<x>> \o seq # <<>>
         /\ Range(<<x>> \o seq) = Range(seq) \cup {x}
         /\ IsInjective(seq) /\ x \notin Range(seq) =>
              IsInjective(<<x>> \o seq)
<1> DEFINE r == <<x>> \o seq
           n == Len(seq)
<1>1. /\ r \in Seq(S) /\ Len(r) = n + 1 /\ n \in Nat
      /\ DOMAIN r = 1 .. n + 1 /\ DOMAIN seq = 1 .. n
  <2>1. <<x>> \in Seq(S) /\ Len(<<x>>) = 1
    OBVIOUS
  <2> QED
    BY <2>1
<1>2. r[1] = x /\ \A j \in 1 .. n : r[j + 1] = seq[j]
  OBVIOUS
<1>3. r # <<>>
  BY <1>1
<1>4. Range(r) = Range(seq) \cup {x}
  <2> HIDE DEF r, n
  <2>1. ASSUME NEW j \in 1 .. n + 1
        PROVE  j = 1 \/ \E k \in 1 .. n : j = k + 1
    <3>1. j = 1 \/ (j - 1 \in 1 .. n /\ j = (j - 1) + 1)
      BY <1>1
    <3> QED
      BY <3>1
  <2>2. \A k \in 1 .. n : k + 1 \in 1 .. n + 1
    BY <1>1
  <2>3. 1 \in 1 .. n + 1
    BY <1>1
  <2>4. Range(r) \subseteq Range(seq) \cup {x}
    <3>1. \A j \in 1 .. n + 1 : r[j] = x \/ \E k \in 1 .. n : r[j] = seq[k]
      BY <1>2, <2>1
    <3> QED
      BY <1>1, <3>1 DEF Range
  <2>5. Range(seq) \cup {x} \subseteq Range(r)
    BY <1>1, <1>2, <2>2, <2>3 DEF Range
  <2> QED
    BY <2>4, <2>5
<1>5. ASSUME IsInjective(seq), x \notin Range(seq)
      PROVE  IsInjective(r)
  <2>1. \A k, l \in 1 .. n : seq[k] = seq[l] => k = l
    BY <1>1, <1>5 DEF IsInjective
  <2>2. \A k \in 1 .. n : seq[k] # x
    BY <1>1, <1>5 DEF Range
  <2>3. \A k, l \in 1 .. n + 1 : r[k] = r[l] => k = l
    <3> HIDE DEF r, n
    <3>1. \A k \in 1 .. n + 1 : k = 1 \/ (k - 1 \in 1 .. n /\ r[k] = seq[k - 1])
      <4>1. \A k \in 1 .. n + 1 : k = 1 \/ (k - 1 \in 1 .. n /\ (k - 1) + 1 = k)
        BY <1>1
      <4> QED
        BY <1>2, <4>1
    <3> QED
      BY <1>1, <1>2, <2>1, <2>2, <3>1
  <2> QED
    BY <1>1, <2>3 DEF IsInjective
<1> QED
  BY <1>1, <1>3, <1>4, <1>5

(* Reversing a sequence.                                                   *)
LEMMA ReverseType ==
  ASSUME NEW S, NEW seq \in Seq(S)
  PROVE  Reverse(seq) \in Seq(S) /\ Len(Reverse(seq)) = Len(seq)
<1>1. \A i \in 1 .. Len(seq) : seq[(Len(seq) - i) + 1] \in S
  OBVIOUS
<1> QED
  BY <1>1 DEF Reverse

(* The values of a function on a finite set are no more than its elements. *)
LEMMA ImageIsFinite ==
  ASSUME NEW S, IsFiniteSet(S), NEW f, S = DOMAIN f, f = [x \in S |-> f[x]]
  PROVE  /\ IsFiniteSet({f[x] : x \in S})
         /\ Cardinality({f[x] : x \in S}) <= Cardinality(S)
<1> DEFINE T == {f[x] : x \in S}
<1>1. f \in Surjection(S, T)
  BY DEF Surjection
<1> HIDE DEF T
<1>2. IsFiniteSet(T) /\ Cardinality(T) <= Cardinality(S)
  BY <1>1, FS_Surjection
<1> QED
  BY <1>2 DEF T

(* The indices of a sequence are as many as it is long.                    *)
LEMMA IndexSet ==
  ASSUME NEW S, NEW seq \in Seq(S)
  PROVE  IsFiniteSet(1 .. Len(seq)) /\ Cardinality(1 .. Len(seq)) = Len(seq)
<1>1. Len(seq) \in Nat /\ Len(seq) \in Int /\ 1 \in Int
  OBVIOUS
<1>2. /\ IsFiniteSet(1 .. Len(seq))
      /\ Cardinality(1 .. Len(seq))
            = IF 1 > Len(seq) THEN 0 ELSE Len(seq) - 1 + 1
  BY <1>1, FS_Interval
<1> QED
  BY <1>1, <1>2

(* A sequence without repetition is no longer than its elements are many.  *)
LEMMA InjectiveLen ==
  ASSUME NEW S, IsFiniteSet(S), NEW seq \in Seq(S), IsInjective(seq)
  PROVE  Len(seq) <= Cardinality(S)
<1>1. seq \in Injection(1 .. Len(seq), S)
  BY DEF Injection
<1>2. Cardinality(1 .. Len(seq)) <= Cardinality(S)
  BY <1>1, FS_Injection
<1>3. Cardinality(1 .. Len(seq)) = Len(seq)
  BY IndexSet
<1> QED
  BY <1>2, <1>3

(* A sequence without repetition may be continued with an element that is  *)
(* not in it.                                                              *)
LEMMA InjectiveAppend ==
  ASSUME NEW S, NEW seq \in Seq(S), IsInjective(seq), NEW e \in S, ~Contains(seq, e)
  PROVE  IsInjective(Append(seq, e))
<1>1. \A i \in 1 .. Len(seq) : seq[i] # e
  BY DEF Contains
<1>2. /\ DOMAIN Append(seq, e) = 1 .. Len(seq) + 1
      /\ \A i \in 1 .. Len(seq) : Append(seq, e)[i] = seq[i]
      /\ Append(seq, e)[Len(seq) + 1] = e
  OBVIOUS
<1> QED
  BY <1>1, <1>2 DEF IsInjective

(* The elements of a sequence are no more than it is long.                 *)
LEMMA RangeIsFinite ==
  ASSUME NEW S, NEW seq \in Seq(S)
  PROVE  /\ Range(seq) \subseteq S /\ IsFiniteSet(Range(seq))
         /\ Cardinality(Range(seq)) <= Len(seq)
<1> DEFINE D == 1 .. Len(seq)
<1>1. IsFiniteSet(D) /\ Cardinality(D) = Len(seq)
  BY IndexSet
<1>2. DOMAIN seq = D /\ seq = [x \in D |-> seq[x]] /\ Range(seq) = {seq[x] : x \in D}
  BY DEF Range
<1>3. Range(seq) \subseteq S
  BY <1>2
<1> HIDE DEF D
<1> QED
  BY <1>1, <1>2, <1>3, ImageIsFinite
(* What is mapped one to one into a finite set is no larger.               *)
LEMMA FitsInto ==
  ASSUME NEW S, NEW T, IsFiniteSet(T), NEW f, f \in [S -> T],
         \A x, y \in S : f[x] = f[y] => x = y
  PROVE  IsFiniteSet(S) /\ Cardinality(S) <= Cardinality(T)
<1>1. f \in Injection(S, T)
  BY DEF Injection, IsInjective
<1> QED
  BY <1>1, FS_Injection
----------------------------------------------------------------------------
(* Sums over finite sets of indices, in whatever order they are added up.  *)

(* The function by which the sums of w over S and its subsets are defined. *)
Adds(f, S, w) ==
  f = [s \in SUBSET S |->
         IF s = {} THEN 0
         ELSE w[CHOOSE x \in s : TRUE] + f[s \ {CHOOSE x \in s : TRUE}]]

SumOver(w, S) == (CHOOSE f : Adds(f, S, w))[S]

(* The community modules' sums are such sums.                              *)
LEMMA SumOfFunction ==
  ASSUME NEW w, NEW S
  PROVE  SumFunctionOnSet(w, S) = SumOver(w, S)
  BY DEF SumFunctionOnSet, FoldFunctionOnSet, MapThenFoldSet, SumOver, Adds

LEMMA SumOfSet ==
  ASSUME NEW S
  PROVE  SumSet(S) = SumOver([n \in S |-> n], S)
<1> DEFINE w == [n \in S |-> n]
           f == CHOOSE f : f = [s \in SUBSET S |->
                  IF s = {} THEN 0
                  ELSE (CHOOSE x \in s : TRUE) + f[s \ {CHOOSE x \in s : TRUE}]]
<1>1. SumSet(S) = f[S]
  BY DEF SumSet, FoldSet, MapThenFoldSet
<1>2. \A g : Adds(g, S, w) <=> g = [s \in SUBSET S |->
                  IF s = {} THEN 0
                  ELSE (CHOOSE x \in s : TRUE) + g[s \ {CHOOSE x \in s : TRUE}]]
  <2>1. \A s \in SUBSET S : s # {} =>
          w[CHOOSE x \in s : TRUE] = CHOOSE x \in s : TRUE
    OBVIOUS
  <2> QED
    BY <2>1 DEF Adds
<1>3. (CHOOSE g : Adds(g, S, w)) = f
  BY <1>2
<1> QED
  BY <1>1, <1>3 DEF SumOver

(* For a finite set of numbers the function exists, its values are numbers *)
(* and it does not matter which index is added last.                       *)
LEMMA AddsExists ==
  ASSUME NEW S, IsFiniteSet(S), NEW w \in [S -> Nat]
  PROVE  \E f \in [SUBSET S -> Nat] : Adds(f, S, w)
<1> DEFINE N == Cardinality(S)
           Last_(s) == CHOOSE x \in s : TRUE
           Next(f, s) == IF s = {} THEN 0 ELSE w[Last_(s)] + f[s \ {Last_(s)}]
           D(k) == {s \in SUBSET S : Cardinality(s) <= k}
           Good(k) == \E f \in [D(k) -> Nat] : \A s \in D(k) : f[s] = Next(f, s)
           T == {k \in 0 .. N : Good(k)}
<1>0. /\ N \in Nat /\ \A s \in SUBSET S : IsFiniteSet(s) /\ Cardinality(s) \in Nat
      /\ \A s \in SUBSET S : Cardinality(s) <= N
  BY FS_CardinalityType, FS_Subset
<1>a. ASSUME NEW s \in SUBSET S, s # {}
      PROVE  /\ Last_(s) \in s /\ Last_(s) \in S /\ s \ {Last_(s)} \in SUBSET S
             /\ Cardinality(s \ {Last_(s)}) = Cardinality(s) - 1
  <2>1. Last_(s) \in s
    BY <1>a
  <2> HIDE DEF Last_
  <2>2. Cardinality(s \ {Last_(s)}) = Cardinality(s) - 1
    BY <1>0, <2>1, FS_RemoveElement
  <2> QED
    BY <2>1, <2>2
<1> HIDE DEF Last_
<1>1. 0 \in T
  <2>1. \A s \in D(0) : s = {}
    <3> TAKE s \in D(0)
    <3>1. IsFiniteSet(s) /\ Cardinality(s) = 0
      BY <1>0
    <3> QED
      BY <3>1, FS_EmptySet
  <2>2. [s \in D(0) |-> 0] \in [D(0) -> Nat]
    OBVIOUS
  <2>3. Good(0)
    BY <2>1, <2>2
  <2> HIDE DEF Good
  <2> QED
    BY <1>0, <2>3
<1>2. ASSUME NEW k \in 0 .. N - 1, k \in T
      PROVE  k + 1 \in T
  <2>1. PICK f \in [D(k) -> Nat] : \A s \in D(k) : f[s] = Next(f, s)
    BY <1>2
  <2> DEFINE g == [s \in D(k + 1) |-> Next(f, s)]
  <2>2. ASSUME NEW s \in D(k + 1), s # {}
        PROVE  /\ Last_(s) \in S
               /\ s \ {Last_(s)} \in D(k) /\ s \ {Last_(s)} \in D(k + 1)
    <3>1. /\ Last_(s) \in S /\ s \ {Last_(s)} \in SUBSET S
          /\ Cardinality(s \ {Last_(s)}) = Cardinality(s) - 1
          /\ Cardinality(s) \in Nat /\ Cardinality(s) <= k + 1 /\ k \in Nat
      BY <1>0, <1>a, <2>2
    <3> QED
      BY <3>1
  <2>3. \A s \in D(k + 1) : Next(f, s) \in Nat
    BY <2>1, <2>2
  <2>4. g \in [D(k + 1) -> Nat]
    BY <2>3
  <2>5. \A s \in D(k) : s \in D(k + 1) /\ g[s] = f[s]
    <3>1. \A s \in D(k) : s \in D(k + 1)
      BY <1>0
    <3> QED
      BY <2>1, <3>1
  <2>6. \A s \in D(k + 1) : g[s] = Next(g, s)
    BY <2>2, <2>5
  <2>7. Good(k + 1)
    <3> HIDE DEF g
    <3> QED
      BY <2>4, <2>6
  <2>8. k + 1 \in 0 .. N
    BY <1>0
  <2> HIDE DEF Good
  <2> QED
    BY <2>7, <2>8
<1>3. N \in T
  <2> HIDE DEF T, N
  <2> QED
    BY <1>0, <1>1, <1>2, Induction
<1>4. D(N) = SUBSET S
  BY <1>0
<1>5. PICK f \in [SUBSET S -> Nat] : \A s \in SUBSET S : f[s] = Next(f, s)
  BY <1>3, <1>4
<1>6. f = [s \in SUBSET S |-> Next(f, s)]
  BY <1>5
<1> QED
  BY <1>5, <1>6 DEF Adds, Last_

Agree(w, v, S) == \A x \in S : w[x] = v[x]

LEMMA AddsUnique ==
  ASSUME NEW S, NEW U, IsFiniteSet(U), S \subseteq U, NEW w, NEW v, NEW f, NEW g,
         Adds(f, S, w), Adds(g, U, v), Agree(w, v, S)
  PROVE  Agree(f, g, SUBSET S)
<1> DEFINE N == Cardinality(S)
           Last_(s) == CHOOSE x \in s : TRUE
           T == {k \in 0 .. N : \A s \in SUBSET S : Cardinality(s) = k => f[s] = g[s]}
<1>0. /\ N \in Nat /\ \A s \in SUBSET S : IsFiniteSet(s) /\ Cardinality(s) \in 0 .. N
  <2>1. IsFiniteSet(S)
    BY FS_Subset
  <2>2. \A s \in SUBSET S : IsFiniteSet(s) /\ Cardinality(s) <= N
    BY <2>1, FS_Subset
  <2> QED
    BY <2>1, <2>2, FS_CardinalityType
<1>1. /\ \A s \in SUBSET S : s \in SUBSET U
      /\ \A s \in SUBSET S :
           /\ f[s] = IF s = {} THEN 0 ELSE w[Last_(s)] + f[s \ {Last_(s)}]
           /\ g[s] = IF s = {} THEN 0 ELSE v[Last_(s)] + g[s \ {Last_(s)}]
  <2>1. \A s \in SUBSET S : s \in SUBSET U
    OBVIOUS
  <2> QED
    BY <2>1 DEF Adds
<1>2. \A s \in SUBSET S : s # {} => Last_(s) \in s
  OBVIOUS
<1> HIDE DEF Last_, N
<1>3. 0 \in T
  <2>1. \A s \in SUBSET S : Cardinality(s) = 0 => s = {}
    BY <1>0, FS_EmptySet
  <2> QED
    BY <1>0, <1>1, <2>1
<1>4. ASSUME NEW k \in 0 .. N - 1, k \in T
      PROVE  k + 1 \in T
  <2>1. ASSUME NEW s \in SUBSET S, Cardinality(s) = k + 1
        PROVE  f[s] = g[s]
    <3>1. s # {}
      BY <1>0, <2>1, FS_EmptySet
    <3>2. Last_(s) \in s /\ Last_(s) \in S /\ s \ {Last_(s)} \in SUBSET S
      BY <1>2, <3>1
    <3>3. Cardinality(s \ {Last_(s)}) = k
      <4>1. IsFiniteSet(s) /\ k \in Nat
        BY <1>0
      <4>2. Cardinality(s \ {Last_(s)}) = Cardinality(s) - 1
        BY <3>2, <4>1, FS_RemoveElement
      <4> QED
        BY <2>1, <4>1, <4>2
    <3>4. f[s \ {Last_(s)}] = g[s \ {Last_(s)}]
      BY <1>4, <3>2, <3>3
    <3> QED
      BY <1>1, <3>1, <3>2, <3>4 DEF Agree
  <2> QED
    BY <1>0, <2>1
<1>5. \A k \in 0 .. N : k \in T
  <2> HIDE DEF T
  <2> QED
    BY <1>0, <1>3, <1>4, Induction
<1> QED
  BY <1>0, <1>5 DEF Agree

(* Nothing adds up to 0, and any index may be the last one added.          *)
AddsUp(w, U) ==
  /\ SumOver(w, {}) = 0
  /\ \A I \in SUBSET U : SumOver(w, I) \in Nat
  /\ \A I \in SUBSET U : \A x \in I : SumOver(w, I) = w[x] + SumOver(w, I \ {x})

LEMMA SumOverSplit ==
  ASSUME NEW U, IsFiniteSet(U), NEW w \in [U -> Nat]
  PROVE  AddsUp(w, U)
<1> DEFINE Last_(s) == CHOOSE x \in s : TRUE
           N == Cardinality(U)
<1>1. PICK g \in [SUBSET U -> Nat] : Adds(g, U, w)
  BY AddsExists
<1>2. ASSUME NEW I \in SUBSET U
      PROVE  SumOver(w, I) = g[I]
  <2> DEFINE v == [x \in I |-> w[x]]
  <2>1. IsFiniteSet(I) /\ v \in [I -> Nat]
    BY FS_Subset
  <2>2. PICK h \in [SUBSET I -> Nat] : Adds(h, I, v)
    <3> HIDE DEF v
    <3> QED
      BY <2>1, AddsExists
  <2>3. \A s \in SUBSET I : s # {} => v[CHOOSE x \in s : TRUE] = w[CHOOSE x \in s : TRUE]
    OBVIOUS
  <2>4. Adds(h, I, w)
    BY <2>2, <2>3 DEF Adds
  <2> DEFINE f == CHOOSE f : Adds(f, I, w)
  <2>5. Adds(f, I, w)
    BY <2>4
  <2> HIDE DEF f
  <2>6. f[I] = g[I]
    <3>1. Agree(w, w, I)
      BY DEF Agree
    <3>2. I \subseteq U /\ I \in SUBSET I
      OBVIOUS
    <3>3. Agree(f, g, SUBSET I)
      BY <1>1, <2>5, <3>1, <3>2, AddsUnique
    <3> QED
      BY <3>2, <3>3 DEF Agree
  <2> QED
    BY <2>6 DEF SumOver, f
<1>3. /\ g[{}] = 0
      /\ \A s \in SUBSET U : s # {} => g[s] = w[Last_(s)] + g[s \ {Last_(s)}]
  BY <1>1 DEF Adds
<1>4. \A s \in SUBSET U : s # {} => Last_(s) \in s
  OBVIOUS
<1>0. /\ N \in Nat /\ \A s \in SUBSET U : IsFiniteSet(s) /\ Cardinality(s) \in 0 .. N
  <2>1. \A s \in SUBSET U : IsFiniteSet(s) /\ Cardinality(s) <= N
    BY FS_Subset
  <2> QED
    BY <2>1, FS_CardinalityType
<1> HIDE DEF Last_, N
<1> DEFINE T == {k \in 0 .. N : \A s \in SUBSET U : Cardinality(s) = k =>
                   \A x \in s : g[s] = w[x] + g[s \ {x}]}
<1>5. 0 \in T
  <2>1. \A s \in SUBSET U : Cardinality(s) = 0 => s = {}
    BY <1>0, FS_EmptySet
  <2> QED
    BY <1>0, <2>1
<1>6. ASSUME NEW k \in 0 .. N - 1, k \in T
      PROVE  k + 1 \in T
  <2>1. ASSUME NEW s \in SUBSET U, Cardinality(s) = k + 1, NEW x \in s
        PROVE  g[s] = w[x] + g[s \ {x}]
    <3> DEFINE y == Last_(s)
               r == s \ {x}
               t == s \ {y}
    <3>1. y \in s /\ y \in U /\ x \in U /\ g[s] = w[y] + g[t] /\ t \in SUBSET U /\ r \in SUBSET U
      BY <1>3, <1>4
    <3> HIDE DEF y
    <3>2. CASE x = y
      BY <3>1, <3>2
    <3>3. CASE x # y
      <4>1. Cardinality(t) = k /\ Cardinality(r) = k
        <5>1. IsFiniteSet(s) /\ k \in Nat /\ x \in s /\ y \in s
          BY <1>0, <3>1
        <5>2. /\ Cardinality(s \ {x}) = Cardinality(s) - 1
              /\ Cardinality(s \ {y}) = Cardinality(s) - 1
          BY <5>1, FS_RemoveElement
        <5> QED
          BY <2>1, <5>1, <5>2
      <4>2. x \in t /\ y \in r /\ t \ {x} = r \ {y}
        BY <3>1, <3>3
      <4>3. g[t] = w[x] + g[t \ {x}] /\ g[r] = w[y] + g[r \ {y}]
        <5> HIDE DEF t, r
        <5> QED
          BY <1>6, <3>1, <4>1, <4>2
      <4>4. w[x] \in Nat /\ w[y] \in Nat /\ g[t \ {x}] \in Nat
        <5>1. t \ {x} \in SUBSET U
          OBVIOUS
        <5> QED
          BY <3>1, <5>1
      <4> DEFINE q == t \ {x}
      <4>a. /\ g[s] = w[y] + g[t] /\ g[t] = w[x] + g[q] /\ g[r] = w[y] + g[q]
            /\ w[x] \in Nat /\ w[y] \in Nat /\ g[q] \in Nat
        BY <3>1, <4>2, <4>3, <4>4
      <4> HIDE DEF t, r, q
      <4>5. g[s] = w[x] + g[r]
        BY ONLY <4>a
      <4> QED
        BY <4>5 DEF r
    <3> QED
      BY <3>2, <3>3
  <2>2. k + 1 \in 0 .. N
    BY <1>0
  <2> QED
    BY <2>1, <2>2
<1>7. \A k \in 0 .. N : k \in T
  <2> HIDE DEF T
  <2> QED
    BY <1>0, <1>5, <1>6, Induction
<1>8. \A s \in SUBSET U : \A x \in s : g[s] = w[x] + g[s \ {x}]
  BY <1>0, <1>7
<1>9. SumOver(w, {}) = 0
  BY <1>2, <1>3
<1>10. \A I \in SUBSET U : SumOver(w, I) \in Nat
  BY <1>1, <1>2
<1>11. ASSUME NEW I \in SUBSET U, NEW x \in I
       PROVE  SumOver(w, I) = w[x] + SumOver(w, I \ {x})
  <2>1. I \ {x} \in SUBSET U
    OBVIOUS
  <2> QED
    BY <1>2, <1>8, <2>1
<1> QED
  BY <1>9, <1>10, <1>11 DEF AddsUp
(* The sums of the first values of a function, added up with the community *)
(* modules' operator.                                                      *)
LEMMA PrefixSums ==
  ASSUME NEW n \in Nat, NEW w \in [1 .. n -> Nat]
  PROVE  /\ SumFunctionOnSet(w, 1 .. 0) = 0
         /\ \A k \in 0 .. n : SumFunctionOnSet(w, 1 .. k) \in Nat
         /\ \A k \in 1 .. n :
              SumFunctionOnSet(w, 1 .. k) = w[k] + SumFunctionOnSet(w, 1 .. k - 1)
         /\ \A k \in 0 .. n :
              SumFunctionOnSet(w, 1 .. k) <= SumFunctionOnSet(w, 1 .. n)
         /\ \A j \in 0 .. n : \A k \in 0 .. j :
              SumFunctionOnSet(w, 1 .. k) <= SumFunctionOnSet(w, 1 .. j)
         /\ \A i \in 1 .. n : w[i] <= SumFunctionOnSet(w, 1 .. n)
<1> DEFINE S(k) == SumFunctionOnSet(w, 1 .. k)
<1>1. \A k \in 0 .. n : S(k) = SumOver(w, 1 .. k)
  BY SumOfFunction
<1>2. IsFiniteSet(1 .. n)
  BY FS_Interval
<1>3. /\ SumOver(w, {}) = 0
      /\ \A I \in SUBSET (1 .. n) : SumOver(w, I) \in Nat
      /\ \A I \in SUBSET (1 .. n) : \A x \in I : SumOver(w, I) = w[x] + SumOver(w, I \ {x})
  <2>1. AddsUp(w, 1 .. n)
    <3> DEFINE U == 1 .. n
    <3>1. IsFiniteSet(U) /\ w \in [U -> Nat]
      BY <1>2
    <3> HIDE DEF U
    <3>2. AddsUp(w, U)
      BY <3>1, SumOverSplit
    <3> QED
      BY <3>2 DEF U
  <2> QED
    BY <2>1 DEF AddsUp
<1>4. \A k \in 0 .. n : 1 .. k \in SUBSET (1 .. n)
  OBVIOUS
<1>5. S(0) = 0
  <2>1. 1 .. 0 = {} /\ 0 \in 0 .. n
    OBVIOUS
  <2> QED
    BY <1>1, <1>3, <2>1
<1>6. \A k \in 0 .. n : S(k) \in Nat
  BY <1>1, <1>3, <1>4
<1>7. ASSUME NEW k \in 1 .. n
      PROVE  S(k) = w[k] + S(k - 1)
  <2>1. (1 .. k) \ {k} = 1 .. k - 1 /\ k \in 1 .. k /\ k \in 0 .. n /\ k - 1 \in 0 .. n
    OBVIOUS
  <2>2. SumOver(w, 1 .. k) = w[k] + SumOver(w, (1 .. k) \ {k})
    BY <1>3, <1>4, <2>1
  <2> QED
    BY <1>1, <2>1, <2>2
<1>8. ASSUME NEW i \in 1 .. n
      PROVE  w[i] <= S(n)
  <2>1. n \in 0 .. n /\ (1 .. n) \ {i} \in SUBSET (1 .. n) /\ 1 .. n \in SUBSET (1 .. n)
    OBVIOUS
  <2>2. S(n) = w[i] + SumOver(w, (1 .. n) \ {i}) /\ SumOver(w, (1 .. n) \ {i}) \in Nat
    BY <1>1, <1>3, <2>1
  <2>3. w[i] \in Nat
    OBVIOUS
  <2> QED
    BY <2>2, <2>3
<1> HIDE DEF S
<1> DEFINE T == {j \in 0 .. n : \A k \in 0 .. j : S(k) <= S(j)}
<1>9. 0 \in T
  BY <1>5
<1>10. ASSUME NEW j \in 0 .. n - 1, j \in T
       PROVE  j + 1 \in T
  <2>1. j + 1 \in 1 .. n /\ (j + 1) - 1 = j /\ j \in 0 .. n /\ j + 1 \in 0 .. n
    OBVIOUS
  <2>2. S(j + 1) = w[j + 1] + S(j) /\ w[j + 1] \in Nat
    BY <1>7, <2>1
  <2>3. S(j) <= S(j + 1) /\ S(j) \in Nat /\ S(j + 1) \in Nat
    BY <1>6, <2>1, <2>2
  <2>4. ASSUME NEW k \in 0 .. j + 1
        PROVE  S(k) <= S(j + 1)
    <3>1. CASE k = j + 1
      BY <2>3, <3>1
    <3>2. CASE k # j + 1
      <4>1. k \in 0 .. j /\ k \in 0 .. n
        BY <3>2
      <4>2. S(k) <= S(j) /\ S(k) \in Nat
        BY <1>6, <1>10, <4>1
      <4> QED
        BY <2>3, <4>2
    <3> QED
      BY <3>1, <3>2
  <2> QED
    BY <2>1, <2>4
<1>11. \A j \in 0 .. n : j \in T
  <2> HIDE DEF T
  <2> QED
    BY <1>9, <1>10, Induction
<1>12. \A j \in 0 .. n : \A k \in 0 .. j : S(k) <= S(j)
  BY <1>11
<1>13. \A k \in 0 .. n : S(k) <= S(n)
  BY <1>12
<1> QED
  BY <1>5, <1>6, <1>7, <1>8, <1>12, <1>13 DEF S
(* Only the values at the indices count.                                   *)
LEMMA SumsAgree ==
  ASSUME NEW S, NEW w, NEW v, Agree(w, v, S)
  PROVE  SumOver(w, S) = SumOver(v, S)
<1>1. \A s \in SUBSET S : s # {} => w[CHOOSE x \in s : TRUE] = v[CHOOSE x \in s : TRUE]
  <2>1. \A s \in SUBSET S : s # {} => (CHOOSE x \in s : TRUE) \in S
    OBVIOUS
  <2> QED
    BY <2>1 DEF Agree
<1>2. \A f : Adds(f, S, w) <=> Adds(f, S, v)
  BY <1>1 DEF Adds
<1>3. (CHOOSE f : Adds(f, S, w)) = (CHOOSE f : Adds(f, S, v))
  BY <1>2
<1> QED
  BY <1>3 DEF SumOver

(* The sums of sets that have no index in common add up.                   *)
LEMMA SumOverUnion ==
  ASSUME NEW U, IsFiniteSet(U), NEW w \in [U -> Nat],
         NEW A \in SUBSET U, NEW B \in SUBSET U, A \cap B = {}
  PROVE  SumOver(w, A \cup B) = SumOver(w, A) + SumOver(w, B)
<1> DEFINE N == Cardinality(B)
           Q(s) == SumOver(w, A \cup s) = SumOver(w, A) + SumOver(w, s)
           T == {k \in 0 .. N : \A s \in SUBSET B : Cardinality(s) = k => Q(s)}
<1>1. AddsUp(w, U)
  BY SumOverSplit
<1>2. \A I \in SUBSET U : SumOver(w, I) \in Nat
  BY <1>1 DEF AddsUp
<1>0. /\ N \in Nat /\ \A s \in SUBSET B : IsFiniteSet(s) /\ Cardinality(s) \in Nat
  <2>1. IsFiniteSet(B)
    BY FS_Subset
  <2>2. \A s \in SUBSET B : IsFiniteSet(s)
    BY <2>1, FS_Subset
  <2> QED
    BY <2>1, <2>2, FS_CardinalityType
<1> HIDE DEF N
<1>3. 0 \in T
  <2>1. \A s \in SUBSET B : Cardinality(s) = 0 => s = {}
    BY <1>0, FS_EmptySet
  <2>2. A \cup {} = A /\ SumOver(w, A) \in Nat /\ SumOver(w, {}) = 0
    BY <1>1, <1>2 DEF AddsUp
  <2>3. Q({})
    BY <2>2
  <2> HIDE DEF Q
  <2> QED
    BY <1>0, <2>1, <2>3
<1>4. ASSUME NEW k \in 0 .. N - 1, k \in T
      PROVE  k + 1 \in T
  <2>1. ASSUME NEW s \in SUBSET B, Cardinality(s) = k + 1
        PROVE  Q(s)
    <3>1. s # {}
      BY <1>0, <2>1, FS_EmptySet
    <3>2. PICK x \in s : TRUE
      BY <3>1
    <3> DEFINE t == s \ {x}
    <3>3. t \in SUBSET B /\ Cardinality(t) = k
      <4>1. IsFiniteSet(s) /\ k \in Nat
        BY <1>0
      <4>2. Cardinality(s \ {x}) = Cardinality(s) - 1
        BY <3>2, <4>1, FS_RemoveElement
      <4> QED
        BY <2>1, <4>1, <4>2
    <3>4. Q(t)
      <4> HIDE DEF t, Q
      <4> QED
        BY <1>4, <3>3
    <3>5. /\ (A \cup s) \ {x} = A \cup t /\ x \in A \cup s
          /\ A \cup s \in SUBSET U /\ s \in SUBSET U /\ t \in SUBSET U /\ x \in U
      BY <3>2
    <3>6. /\ SumOver(w, A \cup s) = w[x] + SumOver(w, A \cup t)
          /\ SumOver(w, s) = w[x] + SumOver(w, t)
      <4>1. /\ SumOver(w, A \cup s) = w[x] + SumOver(w, (A \cup s) \ {x})
            /\ SumOver(w, s) = w[x] + SumOver(w, s \ {x})
        BY <1>1, <3>2, <3>5 DEF AddsUp
      <4> QED
        BY <3>5, <4>1
    <3>7. w[x] \in Nat /\ SumOver(w, A) \in Nat /\ SumOver(w, t) \in Nat
      BY <1>2, <3>5
    <3> HIDE DEF t
    <3> QED
      BY <3>4, <3>6, <3>7
  <2>2. k + 1 \in 0 .. N
    BY <1>0
  <2> HIDE DEF Q
  <2> QED
    BY <2>1, <2>2
<1>5. \A k \in 0 .. N : k \in T
  <2> HIDE DEF T
  <2> QED
    BY <1>0, <1>3, <1>4, Induction
<1>6. N \in T
  BY <1>0, <1>5
<1>7. Q(B)
  <2> HIDE DEF Q
  <2> QED
    BY <1>6 DEF N
<1> QED
  BY <1>7

(* The sum of a set of numbers is that of the identity.                    *)
LEMMA SumOfNumbers ==
  ASSUME NEW U, NEW S \in SUBSET U
  PROVE  SumSet(S) = SumOver([n \in U |-> n], S)
<1> DEFINE w == [n \in S |-> n]
           v == [n \in U |-> n]
<1>1. Agree(w, v, S)
  BY DEF Agree
<1>2. SumSet(S) = SumOver(w, S)
  BY SumOfSet
<1> HIDE DEF w, v
<1>3. SumOver(w, S) = SumOver(v, S)
  BY <1>1, SumsAgree
<1> QED
  BY <1>2, <1>3 DEF v

(* What Gauss saw at school.                                               *)
LEMMA SumOfInterval ==
  ASSUME NEW n \in Nat
  PROVE  SumSet(1 .. n) = (n * (n + 1)) \div 2
<1> DEFINE w == [i \in 1 .. n |-> i]
           S(k) == SumOver(w, 1 .. k)
           T == {k \in 0 .. n : 2 * S(k) = k * (k + 1)}
<1>1. AddsUp(w, 1 .. n) /\ \A i \in 1 .. n : w[i] = i
  <2> DEFINE U == 1 .. n
  <2>1. IsFiniteSet(U) /\ w \in [U -> Nat]
    BY FS_Interval
  <2>2. \A i \in 1 .. n : w[i] = i
    OBVIOUS
  <2> HIDE DEF U, w
  <2>3. AddsUp(w, U)
    BY <2>1, SumOverSplit
  <2> QED
    BY <2>2, <2>3 DEF U
<1>2. SumSet(1 .. n) = S(n)
  BY SumOfNumbers
<1> HIDE DEF w
<1>3. \A k \in 0 .. n : 1 .. k \in SUBSET (1 .. n) /\ S(k) \in Nat
  <2>1. \A k \in 0 .. n : 1 .. k \in SUBSET (1 .. n)
    OBVIOUS
  <2> QED
    BY <1>1, <2>1 DEF AddsUp
<1>4. 0 \in T
  <2>1. 1 .. 0 = {} /\ S(0) = 0
    <3>1. 1 .. 0 = {}
      OBVIOUS
    <3> QED
      BY <1>1, <3>1 DEF AddsUp
  <2> QED
    BY <2>1
<1>5. ASSUME NEW k \in 0 .. n - 1, k \in T
      PROVE  k + 1 \in T
  <2>1. /\ (1 .. k + 1) \ {k + 1} = 1 .. k /\ k + 1 \in 1 .. k + 1
        /\ k + 1 \in 1 .. n /\ k + 1 \in 0 .. n /\ k \in 0 .. n /\ k \in Nat
    OBVIOUS
  <2>2. SumOver(w, 1 .. k + 1) = w[k + 1] + SumOver(w, (1 .. k + 1) \ {k + 1})
    BY <1>1, <1>3, <2>1 DEF AddsUp
  <2>3. S(k + 1) = k + 1 + S(k)
    BY <1>1, <2>1, <2>2
  <2>4. 2 * S(k) = k * (k + 1) /\ S(k) \in Nat
    BY <1>3, <1>5, <2>1
  <2> HIDE DEF S
  <2>5. 2 * S(k + 1) = (k + 1) * (k + 1 + 1)
    <3>1. \A j \in Nat : (j + 1) * (j + 1 + 1) = j * (j + 1) + 2 * (j + 1)
      OBVIOUS
    <3>2. (k + 1) * (k + 1 + 1) = 2 * S(k) + 2 * (k + 1)
      BY <2>1, <2>4, <3>1
    <3> QED
      BY <2>1, <2>3, <2>4, <3>2
  <2> QED
    BY <2>1, <2>5
<1>6. n \in T
  <2> HIDE DEF T
  <2>1. \A k \in 0 .. n : k \in T
    BY <1>4, <1>5, Induction
  <2> QED
    BY <2>1
<1>7. 2 * S(n) = n * (n + 1) /\ S(n) \in Nat
  BY <1>3, <1>6
<1> HIDE DEF S
<1>8. S(n) = (n * (n + 1)) \div 2
  <2>1. \A a \in Nat : (2 * a) \div 2 = a
    OBVIOUS
  <2> QED
    BY <1>7, <2>1
<1> QED
  BY <1>2, <1>8
=============================================================================
