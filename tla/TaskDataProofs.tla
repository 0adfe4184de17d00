--------------------------- MODULE TaskDataProofs ---------------------------
(***************************************************************************)
(* Proofs about TaskData for files, reports and capabilities of any size   *)
(* and whatever an uninitialised capability holds: its types, that the     *)
(* parts that are handed out are the file - of a structured one, when no   *)
(* client of the report has left -, that nobody ends by their arithmetic   *)
(* when the file is ample, and that the answer is right.                   *)
(***************************************************************************)
EXTENDS TaskData, FoldLemmas, TLAPS

(* The cases in which every cut is one at the end of a line.               *)
Sound == format = "unstructured" \/ AllMeasured

(* The first r parts are not empty and hold the lines up to bounds[r].     *)
CutUpTo(r) ==
  /\ \A p \in 1 .. r : bounds[p - 1] < bounds[p]
  /\ \A l \in 1 .. bounds[r] : \E p \in 1 .. r : l \in bounds[p - 1] + 1 .. bounds[p]

(* What is left is what the parts do not hold, unless they hold the file.  *)
RestAgrees == bounds[round - 1] = End \/ bounds[round - 1] + remaining = count

NothingCutBefore ==
  server \in {"start", "measuring"} =>
    /\ remaining = count
    /\ server = "start" => round = 1
    /\ round <= Cut + 1
    /\ bounds[0] = 0

CuttingGoesOn ==
  server = "cutting" =>
    /\ round <= Cut + 1
    /\ Sound => /\ bounds[round - 1] <= End
                /\ CutUpTo(round - 1)
                /\ round <= Cut => RestAgrees
                /\ round > Cut /\ Cut > 0 => bounds[Cut] >= count

AllIsCut ==
  HandedOut /\ Cut > 0 /\ Sound =>
    CutUpTo(Cut) /\ bounds[Cut] >= count /\ bounds[Cut] <= End

Structure ==
  /\ NothingCutBefore
  /\ CuttingGoesOn
  /\ AllIsCut
  /\ \A f \in stored : f.part \in Clients

(* What has been measured are the capabilities in the tree and their sums. *)
Known == IF server \in {"start", "measuring"} THEN round - 1 ELSE Cut

Weighed ==
  /\ Known \in 0 .. Cut
  /\ \A k \in 0 .. Known : totals[k] = SumFunctionOnSet(tree, 1 .. k)
  /\ \A i \in 1 .. Known : tree[i] # 0 => weight[i] = tree[i]

(* When nobody has left, what has been cut is no more than the share of    *)
(* the capabilities summed up so far, so that enough is left for the       *)
(* clients that follow, and it is exactly what is no longer left.          *)
InProportion ==
  server = "cutting" /\ round <= Cut /\ AllMeasured =>
    /\ bounds[round - 1] + remaining = count
    /\ (count - remaining) * Total <= totals[round - 1] * count

Inv == TypeOK /\ Weighed /\ InProportion /\ Structure

----------------------------------------------------------------------------
(* No more parts are cut than clients are in the report.                   *)
LEMMA CutInRange ==
  ASSUME TypeOK
  PROVE  /\ Cut \in 0 .. clients /\ clients \in Nat \ {0} /\ count \in Nat
         /\ End \in Nat /\ count <= End /\ End <= count + 1 /\ End <= MaxLines + 1
         /\ count < Wide /\ Wide \in Nat \ {0}
<1>1. /\ Cut \in 0 .. clients /\ clients \in Nat \ {0} /\ count \in Nat
      /\ End \in Nat /\ count <= End /\ End <= count + 1 /\ End <= MaxLines + 1
  BY SizesAssumption DEF TypeOK, Cut, End
<1>2. count < Wide /\ Wide \in Nat \ {0}
  BY SizesAssumption DEF TypeOK
<1> QED
  BY <1>1, <1>2

(* A share and what is copied for it are numbers of lines.                 *)
LEMMA ShareIsNat ==
  ASSUME TypeOK, NEW i \in 1 .. Cut, Total # 0
  PROVE  Share(i) \in Nat /\ DataCount(i) \in Nat
<1>0. Cut \in 0 .. clients /\ clients \in Nat /\ count \in Nat /\ Wide \in Nat \ {0}
  BY CutInRange
<1>1. Total \in Nat \ {0}
  BY <1>0 DEF TypeOK, Total
<1>2. weight[i] \in Nat
  <2>1. i \in 1 .. clients
    BY <1>0
  <2> QED
    BY <2>1 DEF TypeOK, Clients
<1>3. weight[i] * count \in Nat
  BY <1>0, <1>2
<1>4. \A a \in Nat, b \in Nat \ {0} : a \div b \in Nat /\ a % b \in Nat
  OBVIOUS
<1>5. (weight[i] * count) % Wide \in Nat
  BY <1>0, <1>3, <1>4
<1>6. Share(i) \in Nat
  BY <1>1, <1>4, <1>5 DEF Share
<1>7. remaining \in Nat
  BY <1>0 DEF TypeOK
<1> QED
  BY <1>6, <1>7 DEF DataCount

(* Where a part may end.                                                   *)
LEMMA StopInRange ==
  ASSUME TypeOK, NEW i \in 1 .. Cut, Total # 0
  PROVE  /\ bounds[i - 1] \in Nat /\ Stop(i) \in Nat
         /\ Stops(i) \subseteq 0 .. MaxLines + 1
<1>1. /\ Cut \in 0 .. clients /\ clients \in Nat /\ End \in Nat /\ count \in Nat
      /\ End <= MaxLines + 1 /\ count <= End /\ MaxLines + 1 \in Nat
  BY CutInRange, SizesAssumption
<1>2. bounds[i - 1] \in Nat
  <2>1. i - 1 \in 0 .. clients
    BY <1>1
  <2> QED
    BY <1>1, <2>1 DEF TypeOK
<1>3. DataCount(i) \in Nat
  BY ShareIsNat
<1>4. Stop(i) \in Nat
  BY <1>1, <1>2, <1>3 DEF Stop
<1>5. CASE Torn(i)
  BY <1>1, <1>2, <1>4, <1>5 DEF Stops
<1>6. CASE ~ Torn(i)
  <2>1. format = "unstructured" \/ Stop(i) <= count
    <3>1. format \in Formats
      BY DEF TypeOK
    <3>2. format # "structured" \/ ~ (Stop(i) > count)
      BY <1>6 DEF Torn
    <3> QED
      BY <1>1, <1>4, <3>1, <3>2 DEF Formats
  <2>2. CASE format = "unstructured"
    <3>1. Stop(i) <= End
      BY <1>1, <1>2, <1>3, <2>2 DEF Stop
    <3> QED
      BY <1>1, <1>2, <1>4, <1>6, <3>1 DEF Stops
  <2>3. CASE Stop(i) <= count
    BY <1>1, <1>2, <1>4, <1>6, <2>3 DEF Stops
  <2> QED
    BY <2>1, <2>2, <2>3
<1> QED
  BY <1>5, <1>6

(* A number that fits is not changed by taking it modulo.                  *)
LEMMA Fits ==
  ASSUME NEW a \in Int, NEW n \in Nat \ {0}
  PROVE  a % n \in 0 .. n - 1 /\ (0 <= a /\ a < n => a % n = a)
  OBVIOUS

(* The two ways a round of the cut ends.                                   *)
LEMMA CutPartSteps ==
  ASSUME TypeOK, CutPart
  PROVE  /\ server = "cutting" /\ round \in 1 .. Cut
         /\ UNCHANGED <<file, tree, totals, weight, work, outcome>>
         /\ \/ /\ server' = "ended" /\ UNCHANGED <<round, remaining, bounds>>
               /\ Total = 0 \/ bounds[round - 1] \in Stops(round)
            \/ /\ server' = "cutting" /\ Total # 0 /\ round' = round + 1
               /\ remaining' = (remaining - Share(round)) % Wide
               /\ \E stop \in Stops(round) \ {bounds[round - 1]} :
                    bounds' = [bounds EXCEPT ![round] = stop]
<1>1. server = "cutting" /\ round \in 1 .. Cut
  BY CutInRange DEF CutPart, TypeOK
<1> QED
  BY <1>1 DEF CutPart
----------------------------------------------------------------------------
(* The types hold at first and after every step.                           *)
LEMMA InitType == Init => TypeOK
<1> SUFFICES ASSUME Init
             PROVE  TypeOK
  OBVIOUS
<1>1. clients \in 1 .. MaxClients /\ count \in 0 .. MaxLines /\ clients \in Nat \ {0}
  BY SizesAssumption DEF Init
<1>2. tree \in [Clients -> 0 .. MaxCapability]
  BY SizesAssumption DEF Init
<1>3. /\ totals \in [0 .. clients -> Nat] /\ weight \in [Clients -> Nat]
      /\ bounds \in [0 .. clients -> 0 .. MaxLines + 1]
      /\ holder \in [Clients -> 0 .. clients]
  BY <1>1, SizesAssumption DEF Init
<1>4. /\ round \in 1 .. clients + 1 /\ remaining \in 0 .. Wide - 1 /\ deaths \in 0 .. MaxDeaths
  BY <1>1, SizesAssumption DEF Init
<1> QED
  BY <1>1, <1>2, <1>3, <1>4 DEF Init, TypeOK

(* What a round of the cut does to the types.                              *)
LEMMA CutPartType ==
  ASSUME TypeOK, CutPart
  PROVE  TypeOK'
<1>1. /\ round \in 1 .. Cut /\ UNCHANGED <<file, tree, totals, weight, work, outcome>>
      /\ server' \in {"cutting", "ended"}
  BY CutPartSteps
<1>2. CASE UNCHANGED <<round, remaining, bounds>>
  BY <1>1, <1>2 DEF TypeOK, Clients, work, outcome, file
<1>3. CASE ~ UNCHANGED <<round, remaining, bounds>>
  <2>1. /\ Total # 0 /\ round' = round + 1
        /\ remaining' = (remaining - Share(round)) % Wide
        /\ \E stop \in Stops(round) \ {bounds[round - 1]} :
             bounds' = [bounds EXCEPT ![round] = stop]
    BY <1>3, CutPartSteps
  <2>2. Share(round) \in Nat /\ Stops(round) \subseteq 0 .. MaxLines + 1
    BY <1>1, <2>1, ShareIsNat, StopInRange
  <2>3. round' \in 1 .. clients + 1
    BY <1>1, <2>1, CutInRange
  <2>4. remaining' \in 0 .. Wide - 1
    <3>1. remaining - Share(round) \in Int /\ Wide \in Nat \ {0}
      <4>1. remaining \in 0 .. Wide - 1
        BY DEF TypeOK
      <4> QED
        BY <2>2, <4>1, CutInRange
    <3> QED
      BY <2>1, <3>1, Fits
  <2>5. bounds' \in [0 .. clients -> 0 .. MaxLines + 1]
    BY <2>1, <2>2 DEF TypeOK
  <2> QED
    BY <1>1, <2>3, <2>4, <2>5 DEF TypeOK, Clients, work, outcome, file
<1> QED
  BY <1>2, <1>3


(* What a round of the measuring does to the types.                        *)
LEMMA MeasureType ==
  ASSUME TypeOK, Measure
  PROVE  TypeOK'
<1>1. /\ round \in 1 .. Cut /\ round - 1 \in 0 .. clients
      /\ round \in 1 .. clients /\ clients \in Nat
  <2>1. round \in 1 .. clients + 1 /\ round <= Cut
    BY DEF Measure, TypeOK
  <2> QED
    BY <2>1, CutInRange
<1>2. PICK w \in IF tree[round] = 0 THEN Garbage ELSE {tree[round]} :
        weight' = [weight EXCEPT ![round] = w]
  BY DEF Measure
<1>3. tree[round] \in Nat
  BY <1>1, SizesAssumption DEF TypeOK, Clients
<1>4. w \in Nat
  BY <1>3, SizesAssumption
<1>5. weight' \in [Clients -> Nat]
  BY <1>2, <1>4 DEF TypeOK
<1>6. totals[round - 1] + tree[round] \in Nat
  <2>1. totals[round - 1] \in Nat
    BY <1>1 DEF TypeOK
  <2> QED
    BY <2>1, <1>3
<1>7. totals' \in [0 .. clients -> Nat]
  BY <1>6 DEF Measure, TypeOK
<1>8. round' \in 1 .. clients + 1
  BY <1>1 DEF Measure
<1> QED
  BY <1>5, <1>7, <1>8 DEF Measure, TypeOK, Clients, work, outcome, file

(* The steps that cut nothing and measure nothing keep the types.          *)
LEMMA OtherTypes ==
  ASSUME Inv,
         \/ \E c \in Clients : Leave(c) \/ Die(c)
         \/ Distribute \/ Measured \/ CutDone \/ HandOut \/ Answer \/ Collect
         \/ \E p \in Clients : Compute(p) \/ Reassign(p)
         \/ UNCHANGED vars
  PROVE  TypeOK'
<1> USE DEF Inv
<1>1. ASSUME NEW c \in Clients, Leave(c)
      PROVE  TypeOK'
  <2>1. tree' \in [Clients -> 0 .. MaxCapability]
    BY <1>1, SizesAssumption DEF Leave, TypeOK
  <2> QED
    BY <1>1, <2>1 DEF Leave, TypeOK, Clients, file, cutting, outcome
<1>2. ASSUME NEW c \in Clients, Die(c)
      PROVE  TypeOK'
  <2>1. deaths' \in 0 .. MaxDeaths
    BY <1>2, SizesAssumption DEF Die, TypeOK
  <2> QED
    BY <1>2, <2>1 DEF Die, TypeOK, Clients, file, cutting, outcome
<1>3. CASE Distribute
  BY <1>3 DEF Distribute, TypeOK, Clients, file, cutting, work, outcome
<1>4. CASE Measured
  <2>1. round' \in 1 .. clients + 1
    BY <1>4, CutInRange DEF Measured
  <2> QED
    BY <1>4, <2>1 DEF Measured, TypeOK, Clients, file, work, outcome
<1>5. CASE CutDone
  BY <1>5 DEF CutDone, TypeOK, Clients, file, cutting, work, outcome
<1>6. CASE HandOut
  <2>0. \A p \in Clients : p \in 0 .. clients
    BY CutInRange DEF Clients
  <2>1. holder' \in [Clients -> 0 .. clients]
    <3>1. CASE holder' = [p \in Clients |-> p]
      BY <2>0, <3>1
    <3>2. CASE UNCHANGED holder
      BY <3>2 DEF TypeOK
    <3> QED
      BY <1>6, <3>1, <3>2 DEF HandOut
  <2>2. server' \in {"waiting", "ended"}
    BY <1>6 DEF HandOut
  <2> QED
    BY <1>6, <2>1, <2>2 DEF HandOut, TypeOK, Clients, file, cutting, outcome
<1>7. CASE Answer
  BY <1>7 DEF Answer, TypeOK, Clients, file, cutting
<1>8. CASE Collect
  <2>1. fetched' \subseteq Clients
    BY <1>8 DEF Collect, Structure
  <2> QED
    BY <1>8, <2>1 DEF Collect, TypeOK, Clients, file, cutting, work
<1>9. ASSUME NEW p \in Clients, Compute(p)
      PROVE  TypeOK'
  BY <1>9 DEF Compute, TypeOK, Clients, file, cutting, outcome
<1>10. ASSUME NEW p \in Clients, Reassign(p)
       PROVE  TypeOK'
  <2>0. \A c \in living : c \in 0 .. clients
    BY CutInRange DEF TypeOK, Clients
  <2>1. holder' \in [Clients -> 0 .. clients]
    <3>1. CASE UNCHANGED holder
      BY <3>1 DEF TypeOK
    <3>2. ASSUME NEW c \in living, holder' = [holder EXCEPT ![p] = c]
          PROVE  holder' \in [Clients -> 0 .. clients]
      BY <2>0, <3>2 DEF TypeOK
    <3> QED
      BY <1>10, <3>1, <3>2 DEF Reassign
  <2>2. server' \in {"waiting", "ended"}
    BY <1>10 DEF Reassign
  <2> QED
    BY <1>10, <2>1, <2>2 DEF Reassign, TypeOK, Clients, file, cutting, outcome
<1>11. CASE UNCHANGED vars
  BY <1>11 DEF vars, TypeOK, Clients, file, cutting, work, outcome
<1> QED
  BY <1>1, <1>2, <1>3, <1>4, <1>5, <1>6, <1>7, <1>8, <1>9, <1>10, <1>11

----------------------------------------------------------------------------
(* Arithmetic of a share: of c lines the weight w of a total weight t.     *)
LEMMA ShareBounds ==
  ASSUME NEW w \in Nat, NEW c \in Nat, NEW t \in Nat \ {0}
  PROVE  /\ (w * c) \div t \in Nat
         /\ ((w * c) \div t) * t <= w * c
         /\ w * c < ((w * c) \div t) * t + t
<1>1. w * c \in Nat
  OBVIOUS
<1>2. \A a \in Nat : a \div t \in Nat /\ (a \div t) * t <= a /\ a < (a \div t) * t + t
  OBVIOUS
<1> QED
  BY <1>1, <1>2

(* What is left when a common factor is taken away.                        *)
LEMMA Cancel ==
  ASSUME NEW a \in Int, NEW b \in Int, NEW t \in Nat \ {0}, a * t <= b * t
  PROVE  a <= b
<1>1. ASSUME a > b
      PROVE  FALSE
  <2>1. a - b \in Nat \ {0} /\ (a - b) * t = a * t - b * t
    BY <1>1
  <2>2. (a - b) * t > 0
    BY <2>1
  <2> QED
    BY <2>1, <2>2
<1> QED
  BY <1>1

LEMMA CancelStrict ==
  ASSUME NEW a \in Int, NEW b \in Int, NEW t \in Nat \ {0}, a * t < b * t + t
  PROVE  a <= b
<1>1. (b + 1) * t = b * t + t
  OBVIOUS
<1>2. ASSUME a >= b + 1
      PROVE  FALSE
  <2>1. a * t >= (b + 1) * t
    BY <1>2
  <2> QED
    BY <1>1, <2>1
<1> QED
  BY <1>2
(* One more share, of the weight w after weights that add up to p: it is   *)
(* as long as that of the weakest client, it is still there, and what has  *)
(* been cut stays in proportion.                                           *)
LEMMA Proportion ==
  ASSUME NEW c \in Nat, NEW r \in Int, NEW p \in Nat, NEW w \in Nat,
         NEW t \in Nat \ {0}, NEW x \in Nat,
         (c - r) * t <= p * c, p + w <= t, x * t <= w * c
  PROVE  /\ x <= (w * c) \div t /\ (w * c) \div t <= r
         /\ (c - (r - ((w * c) \div t))) * t <= (p + w) * c
<1> DEFINE d == (w * c) \div t
<1>1. d \in Nat /\ d * t <= w * c /\ w * c < d * t + t
  BY ShareBounds
<1> HIDE DEF d
<1>2. x <= d
  <2>1. x * t < d * t + t
    BY <1>1
  <2> QED
    BY <1>1, <2>1, CancelStrict
<1>3. (p + w) * c = p * c + w * c /\ (p + w) * c <= t * c
  <2>1. \A a, b \in Nat : a <= b => a * c <= b * c
    OBVIOUS
  <2>2. (p + w) * c = p * c + w * c
    OBVIOUS
  <2> QED
    BY <2>1, <2>2
<1>4. (c - r) * t = t * c - r * t
  OBVIOUS
<1>5. d <= r
  <2>1. d * t <= r * t
    BY <1>1, <1>3, <1>4
  <2> QED
    BY <1>1, <2>1, Cancel
<1>6. (c - (r - d)) * t = (c - r) * t + d * t
  BY <1>1
<1>7. (c - (r - d)) * t <= (p + w) * c
  BY <1>1, <1>3, <1>6
<1> QED
  BY <1>2, <1>5, <1>7 DEF d

(* The capabilities in the tree and their sums.                            *)
Capability(k) == SumFunctionOnSet(tree, 1 .. k)

SumsOfTree ==
  /\ Capability(0) = 0
  /\ \A k \in 0 .. clients : Capability(k) \in Nat
  /\ \A k \in 1 .. clients : Capability(k) = tree[k] + Capability(k - 1)
  /\ \A j \in 0 .. clients : \A k \in 0 .. j : Capability(k) <= Capability(j)
  /\ \A i \in 1 .. clients : tree[i] <= Capability(clients)

LEMMA TreeSums ==
  ASSUME TypeOK
  PROVE  SumsOfTree
<1>1. clients \in Nat /\ tree \in [1 .. clients -> Nat]
  BY SizesAssumption DEF TypeOK, Clients
<1> QED
  BY <1>1, PrefixSums DEF SumsOfTree, Capability

LEMMA TreeSumsNext ==
  ASSUME TypeOK'
  PROVE  SumsOfTree'
<1>1. clients' \in Nat /\ tree' \in [Clients' -> 0 .. MaxCapability] /\ Clients' = 1 .. clients'
  <2>1. clients' \in 1 .. MaxClients /\ tree' \in [Clients' -> 0 .. MaxCapability]
    BY DEF TypeOK
  <2>2. clients' \in Nat
    BY <2>1, SizesAssumption
  <2> QED
    BY <2>1, <2>2 DEF Clients
<1>2. tree' \in [1 .. clients' -> Nat]
  BY <1>1, SizesAssumption
<1> QED
  BY <1>1, <1>2, PrefixSums DEF SumsOfTree, Capability

(* When nobody has left, the cut knows the capabilities and their total.   *)
LEMMA MeasuredWeights ==
  ASSUME TypeOK, Weighed, AllMeasured, Known = Cut
  PROVE  /\ Total = Capability(Cut)
         /\ \A i \in 1 .. Cut :
              /\ weight[i] = tree[i]
              /\ totals[i] = Capability(i) /\ totals[i - 1] = Capability(i - 1)
<1>1. Cut \in Nat
  BY CutInRange
<1>2. \A k \in 0 .. Cut : totals[k] = Capability(k)
  BY DEF Weighed, Capability
<1>3. \A i \in 1 .. Cut : weight[i] = tree[i]
  BY DEF Weighed, AllMeasured
<1>4. \A i \in 1 .. Cut : i \in 0 .. Cut /\ i - 1 \in 0 .. Cut
  BY <1>1
<1> QED
  BY <1>1, <1>2, <1>3, <1>4 DEF Total

(* The share of a client whose capability was measured does not wrap.      *)
LEMMA ShareIsExact ==
  ASSUME TypeOK, NEW i \in Clients, weight[i] = tree[i]
  PROVE  Share(i) = (tree[i] * count) \div Total /\ tree[i] \in Nat
<1>1. tree[i] \in Nat /\ tree[i] <= MaxCapability /\ count \in Nat /\ count <= MaxLines
      /\ MaxLines \in Nat /\ MaxCapability \in Nat
      /\ Wide \in Nat \ {0} /\ MaxCapability * MaxLines < Wide
  BY SizesAssumption DEF TypeOK
<1>2. tree[i] * count <= MaxCapability * MaxLines /\ tree[i] * count \in Nat
  <2>1. \A a, b, c \in Nat : a <= b => a * c <= b * c /\ c * a <= c * b
    OBVIOUS
  <2>2. tree[i] * count <= MaxCapability * count
    BY <1>1, <2>1
  <2>3. MaxCapability * count <= MaxCapability * MaxLines
    BY <1>1, <2>1
  <2>4. \A a, b \in Nat : a * b \in Nat
    OBVIOUS
  <2>5. /\ tree[i] * count \in Nat /\ MaxCapability * count \in Nat
        /\ MaxCapability * MaxLines \in Nat
    BY <1>1, <2>4
  <2> QED
    BY <2>2, <2>3, <2>5
<1>3. MaxCapability * MaxLines \in Nat
  <2>1. \A a, b \in Nat : a * b \in Nat
    OBVIOUS
  <2> QED
    BY <1>1, <2>1
<1>4. tree[i] * count < Wide
  BY <1>1, <1>2, <1>3
<1>5. (tree[i] * count) % Wide = tree[i] * count
  <2> DEFINE a == tree[i] * count
  <2>1. a \in Int /\ 0 <= a /\ a < Wide
    BY <1>2, <1>4
  <2> HIDE DEF a
  <2>2. a % Wide = a
    BY <1>1, <2>1, Fits
  <2> QED
    BY <2>2 DEF a
<1> QED
  BY <1>1, <1>5 DEF Share

(* One round of the cut when nobody has left: it stays within the counted  *)
(* lines, whatever the format, the part has as many lines as the weight of *)
(* the client gives it, and so much is left for the others.                *)
LEMMA EvenRound ==
  ASSUME TypeOK, Weighed, InProportion, AllMeasured, server = "cutting",
         round \in 1 .. Cut, Total # 0, NEW x \in Nat, x * Total <= tree[round] * count
  PROVE  LET rest == (remaining - Share(round)) % Wide
         IN  /\ Stops(round) = {Stop(round)} /\ Stop(round) \in Nat
             /\ bounds[round - 1] + x <= Stop(round) /\ Stop(round) <= count
             /\ round < Cut => Stop(round) + rest = count
             /\ round = Cut => Stop(round) = count
             /\ (count - rest) * Total <= totals[round] * count
<1>1. /\ Cut \in 0 .. clients /\ clients \in Nat \ {0} /\ count \in Nat
      /\ End \in Nat /\ count <= End /\ Wide \in Nat \ {0}
      /\ round \in 1 .. clients /\ round \in Clients /\ round \in Int
  <2>1. /\ Cut \in 0 .. clients /\ clients \in Nat \ {0} /\ count \in Nat
        /\ End \in Nat /\ count <= End /\ Wide \in Nat \ {0}
    BY CutInRange
  <2> QED
    BY <2>1 DEF Clients
<1>2. remaining \in Nat /\ remaining < Wide
  <2>1. remaining \in 0 .. Wide - 1
    BY DEF TypeOK
  <2> QED
    BY <1>1, <2>1
<1> DEFINE w == tree[round]
           p == Capability(round - 1)
           t == Total
           d == Share(round)
           b == bounds[round - 1]
<1>3. /\ t = Capability(Cut) /\ weight[round] = w
      /\ totals[round] = Capability(round) /\ totals[round - 1] = p
  <2>1. Known = Cut
    BY DEF Known
  <2> QED
    BY <2>1, MeasuredWeights
<1>4. d = (w * count) \div t /\ w \in Nat
  BY <1>1, <1>3, ShareIsExact
<1>5. p \in Nat /\ t \in Nat \ {0} /\ Capability(round) = w + p /\ w + p <= t
  <2>1. SumsOfTree
    BY TreeSums
  <2>2. round - 1 \in 0 .. clients /\ round \in 0 .. Cut /\ Cut \in 0 .. clients
    BY <1>1
  <2>3. Capability(round) <= Capability(Cut) /\ Capability(Cut) \in Nat
    BY <2>1, <2>2 DEF SumsOfTree
  <2>4. p \in Nat /\ Capability(round) = w + p
    BY <1>1, <2>1, <2>2 DEF SumsOfTree
  <2> QED
    BY <1>3, <2>3, <2>4
<1>6. b + remaining = count /\ (count - remaining) * t <= p * count
  BY <1>1, <1>3 DEF InProportion
<1>7. b \in Nat /\ d \in Nat
  BY <1>1, StopInRange, ShareIsNat
<1>8. x * t <= w * count
  OBVIOUS
<1>9. DataCount(round) = IF round = Cut THEN remaining ELSE d
  BY DEF DataCount
<1>10. /\ Stop(round) = IF format = "unstructured" /\ b + DataCount(round) > End
                        THEN End ELSE b + DataCount(round)
       /\ Torn(round) => Stop(round) > count
       /\ ~ Torn(round) => Stops(round) = {Stop(round)}
  BY DEF Stop, Torn, Stops
<1> HIDE DEF w, p, t, b, d
<1>11. /\ x <= d /\ d <= remaining
       /\ (count - (remaining - d)) * t <= (p + w) * count
  <2>1. /\ x <= (w * count) \div t /\ (w * count) \div t <= remaining
        /\ (count - (remaining - ((w * count) \div t))) * t <= (p + w) * count
    <3>1. p + w <= t
      BY <1>4, <1>5
    <3> QED
      BY <1>1, <1>2, <1>4, <1>5, <1>6, <1>8, <3>1, Proportion
  <2> QED
    BY <1>4, <2>1
<1>12. (remaining - d) % Wide = remaining - d
  <2>1. remaining - d \in Int /\ 0 <= remaining - d /\ remaining - d < Wide
    BY <1>1, <1>2, <1>7, <1>11
  <2> QED
    BY <1>1, <2>1, Fits
<1>13. DataCount(round) \in Nat /\ DataCount(round) <= remaining /\ d <= DataCount(round)
  BY <1>2, <1>7, <1>9, <1>11
<1>14. Stop(round) = b + DataCount(round) /\ b + DataCount(round) <= count
  BY <1>1, <1>2, <1>6, <1>7, <1>10, <1>13
<1>15. Stops(round) = {Stop(round)} /\ Stop(round) \in Nat /\ Stop(round) <= count
  BY <1>1, <1>7, <1>10, <1>13, <1>14
<1>16. b + x <= Stop(round)
  BY <1>7, <1>11, <1>13, <1>14
<1>17. /\ round < Cut => Stop(round) + (remaining - d) = count
       /\ round = Cut => Stop(round) = count
  BY <1>1, <1>2, <1>6, <1>7, <1>9, <1>14
<1>18. totals[round] = p + w
  BY <1>3, <1>4, <1>5
<1> DEFINE rest == (remaining - d) % Wide
<1>19. rest = remaining - d
  BY <1>12
<1>20. (count - rest) * t <= totals[round] * count
  BY <1>11, <1>18, <1>19
<1> QED
  BY <1>15, <1>16, <1>17, <1>19, <1>20 DEF b, t, d
----------------------------------------------------------------------------
(* Measuring adds the capability of one more client.                       *)
LEMMA MeasureWeighed ==
  ASSUME Inv, Measure
  PROVE  Weighed'
<1>1. /\ TypeOK /\ server = "measuring" /\ server' = "measuring" /\ round <= Cut
      /\ round' = round + 1
      /\ totals' = [totals EXCEPT ![round] = totals[round - 1] + tree[round]]
      /\ UNCHANGED <<tree, file>>
  BY DEF Inv, Measure
<1>2. Clients' = Clients /\ Cut' = Cut
  BY <1>1 DEF file, Clients, Cut
<1>3. /\ Cut \in 0 .. clients /\ clients \in Nat /\ round \in 1 .. Cut
      /\ round \in 1 .. clients /\ round \in Clients
      /\ Known = round - 1 /\ Known' = round
  <2>1. Cut \in 0 .. clients /\ clients \in Nat /\ round \in 1 .. clients + 1
    <3>1. round \in 1 .. clients + 1
      BY <1>1 DEF TypeOK
    <3> QED
      BY <1>1, <3>1, CutInRange
  <2>2. Known = round - 1 /\ Known' = (round + 1) - 1
    BY <1>1 DEF Known
  <2> QED
    BY <1>1, <2>1, <2>2 DEF Clients
<1>4. \A k \in 0 .. round - 1 : totals[k] = Capability(k)
  BY <1>3 DEF Inv, Weighed, Capability
<1>5. Capability(round) = tree[round] + Capability(round - 1) /\ tree[round] \in Nat
      /\ Capability(round - 1) \in Nat
  <2>1. SumsOfTree
    BY <1>1, TreeSums
  <2>2. tree[round] \in Nat /\ round - 1 \in 0 .. clients
    <3>1. tree[round] \in 0 .. MaxCapability
      BY <1>1, <1>3 DEF TypeOK
    <3> QED
      BY <1>3, <3>1, SizesAssumption
  <2> QED
    BY <1>3, <2>1, <2>2 DEF SumsOfTree
<1>6. ASSUME NEW k \in 0 .. round
      PROVE  totals'[k] = SumFunctionOnSet(tree', 1 .. k)
  <2>1. SumFunctionOnSet(tree', 1 .. k) = Capability(k) /\ k \in 0 .. clients
    BY <1>1, <1>3 DEF Capability
  <2>2. CASE k = round
    <3>1. totals'[round] = totals[round - 1] + tree[round]
      BY <1>1, <1>3 DEF TypeOK
    <3>2. totals[round - 1] = Capability(round - 1)
      BY <1>3, <1>4
    <3> QED
      BY <1>5, <2>1, <2>2, <3>1, <3>2
  <2>3. CASE k # round
    <3>1. k \in 0 .. round - 1 /\ totals'[k] = totals[k]
      BY <1>1, <1>3, <2>1, <2>3 DEF TypeOK
    <3> QED
      BY <1>4, <2>1, <3>1
  <2> QED
    BY <2>2, <2>3
<1>7. ASSUME NEW i \in 1 .. round, tree'[i] # 0
      PROVE  weight'[i] = tree'[i]
  <2>1. PICK w \in IF tree[round] = 0 THEN Garbage ELSE {tree[round]} :
          weight' = [weight EXCEPT ![round] = w]
    BY DEF Measure
  <2>2. i \in Clients /\ tree'[i] = tree[i]
    BY <1>1, <1>3 DEF Clients
  <2>3. CASE i = round
    BY <1>7, <2>1, <2>2, <2>3, <1>1 DEF TypeOK
  <2>4. CASE i # round
    <3>1. weight'[i] = weight[i]
      BY <1>1, <2>1, <2>2, <2>4 DEF TypeOK
    <3>2. i \in 1 .. Known
      BY <1>3, <2>4
    <3> QED
      BY <1>7, <2>2, <3>1, <3>2 DEF Inv, Weighed
  <2> QED
    BY <2>3, <2>4
<1> QED
  BY <1>2, <1>3, <1>6, <1>7 DEF Weighed

(* Every step keeps what has been measured: a client leaves before that.   *)
LEMMA WeighedKept ==
  ASSUME Inv, [Next]_vars
  PROVE  Weighed'
<1>1. ASSUME NEW c \in Clients, Leave(c)
      PROVE  Weighed'
  <2>1. /\ TypeOK /\ server = "start" /\ server' = "start"
        /\ tree' = [tree EXCEPT ![c] = 0]
        /\ UNCHANGED <<file, round, totals, weight>>
    BY <1>1 DEF Inv, Leave, cutting
  <2>2. round = 1 /\ Known = 0 /\ Known' = 0
    BY <2>1 DEF Inv, Structure, NothingCutBefore, Known
  <2>3. /\ clients \in Nat /\ tree \in [1 .. clients -> Nat]
        /\ tree' \in [1 .. clients -> Nat]
    <3>1. TypeOK
      BY <2>1
    <3>2. clients \in Nat /\ tree \in [1 .. clients -> Nat]
      BY <3>1, SizesAssumption DEF TypeOK, Clients
    <3> QED
      BY <2>1, <3>2
  <2>4. SumFunctionOnSet(tree, 1 .. 0) = 0 /\ SumFunctionOnSet(tree', 1 .. 0) = 0
    BY <2>3, PrefixSums
  <2>5. totals'[0] = 0
    BY <2>1, <2>2, <2>4 DEF Inv, Weighed
  <2>6. Cut' = Cut /\ Cut \in Nat
    BY <2>1, CutInRange DEF file, Cut
  <2>7. \A k \in 0 .. 0 : totals'[k] = SumFunctionOnSet(tree', 1 .. k)
    BY <2>4, <2>5
  <2> QED
    BY <2>2, <2>6, <2>7 DEF Weighed
<1>2. CASE Measure
  BY <1>2, MeasureWeighed
<1>3. CASE Measured
  <2>1. /\ TypeOK /\ server = "measuring" /\ server' = "cutting" /\ round > Cut
        /\ UNCHANGED <<tree, totals, weight, file>>
    BY <1>3 DEF Inv, Measured
  <2>2. Cut' = Cut /\ Cut \in Nat /\ Known' = Cut
    BY <2>1, CutInRange DEF file, Cut, Known
  <2>3. Known = round - 1 /\ Known \in 0 .. Cut /\ round \in Int
    BY <2>1 DEF Known, Inv, Weighed, TypeOK
  <2>4. Known = Cut
    BY <2>1, <2>2, <2>3
  <2> QED
    BY <2>1, <2>2, <2>4 DEF Inv, Weighed
<1>4. CASE CutPart
  <2>1. /\ TypeOK /\ server = "cutting" /\ server' \in {"cutting", "ended"}
        /\ UNCHANGED <<tree, totals, weight, file>>
    BY <1>4, CutPartSteps DEF Inv
  <2>2. Cut' = Cut /\ Known' = Cut /\ Known = Cut
    BY <2>1 DEF file, Cut, Known
  <2> QED
    BY <2>1, <2>2 DEF Inv, Weighed
<1>5. CASE \/ UNCHANGED vars \/ Distribute \/ CutDone \/ HandOut \/ Answer \/ Collect
           \/ \E c \in Clients : Die(c)
           \/ \E p \in Clients : Compute(p) \/ Reassign(p)
  <2>1. /\ UNCHANGED <<tree, totals, weight, round, file>>
        /\ server' \in {"start", "measuring"} <=> server \in {"start", "measuring"}
    BY <1>5 DEF vars, cutting, Distribute, CutDone, HandOut, Answer, Collect, Die,
                Compute, HasPart, Reassign
  <2>2. Cut' = Cut /\ Known' = Known
    BY <2>1 DEF file, Cut, Known
  <2> QED
    BY <2>1, <2>2 DEF Inv, Weighed
<1> QED
  BY <1>1, <1>2, <1>3, <1>4, <1>5 DEF Next

(* Every step keeps what is cut in proportion.                             *)
LEMMA InProportionKept ==
  ASSUME Inv, [Next]_vars
  PROVE  InProportion'
<1>1. CASE Measured
  <2>1. /\ TypeOK /\ server = "measuring" /\ server' = "cutting" /\ round' = 1
        /\ UNCHANGED <<tree, totals, bounds, remaining, file>>
    BY <1>1 DEF Inv, Measured
  <2>2. Cut' = Cut /\ count' = count /\ AllMeasured' = AllMeasured /\ Total' = Total
    BY <2>1 DEF file, Cut, AllMeasured, Total
  <2>3. bounds[0] = 0 /\ remaining = count
    BY <2>1 DEF Inv, Structure, NothingCutBefore
  <2>4. /\ totals[0] \in Nat /\ Total \in Nat /\ count \in Nat
    <3>1. Cut \in 0 .. clients /\ clients \in Nat /\ count \in Nat
      BY <2>1, CutInRange
    <3> QED
      BY <2>1, <3>1 DEF TypeOK, Total
  <2>5. (count - count) * Total <= totals[0] * count
    <3>1. \A a, b \in Nat : a * b >= 0
      OBVIOUS
    <3>2. (count - count) * Total = 0
      BY <2>4
    <3> QED
      BY <2>4, <3>1, <3>2
  <2>6. /\ round' - 1 = 0 /\ bounds'[0] + remaining' = count'
        /\ (count' - remaining') * Total' <= totals'[0] * count'
    BY <2>1, <2>2, <2>3, <2>4, <2>5
  <2> QED
    BY <2>6 DEF InProportion
<1>2. CASE CutPart
  <2> SUFFICES ASSUME server' = "cutting", round' <= Cut', AllMeasured'
               PROVE  /\ bounds'[round' - 1] + remaining' = count'
                      /\ (count' - remaining') * Total' <= totals'[round' - 1] * count'
    BY DEF InProportion
  <2>1. /\ TypeOK /\ server = "cutting" /\ round \in 1 .. Cut /\ Total # 0
        /\ round' = round + 1 /\ remaining' = (remaining - Share(round)) % Wide
        /\ UNCHANGED <<file, tree, totals>>
        /\ \E stop \in Stops(round) \ {bounds[round - 1]} :
             bounds' = [bounds EXCEPT ![round] = stop]
    BY <1>2, CutPartSteps DEF Inv
  <2>2. Cut' = Cut /\ count' = count /\ AllMeasured' = AllMeasured /\ Total' = Total
    BY <2>1 DEF file, Cut, AllMeasured, Total
  <2>3. /\ Cut \in 0 .. clients /\ clients \in Nat /\ tree[round] \in Nat /\ count \in Nat
    <3>1. Cut \in 0 .. clients /\ clients \in Nat /\ count \in Nat
      BY <2>1, CutInRange
    <3>2. round \in 1 .. clients
      BY <2>1, <3>1
    <3> QED
      BY <2>1, <3>1, <3>2, SizesAssumption DEF TypeOK, Clients
  <2>4. 0 * Total <= tree[round] * count
    <3>1. \A a, b \in Nat : a * b >= 0
      OBVIOUS
    <3>2. Total \in Nat
      BY <2>1, <2>3 DEF TypeOK, Total
    <3> QED
      BY <2>3, <3>1, <3>2
  <2> DEFINE rest == (remaining - Share(round)) % Wide
  <2>5. /\ Stops(round) = {Stop(round)}
        /\ round < Cut => Stop(round) + rest = count
        /\ (count - rest) * Total <= totals[round] * count
    BY <2>1, <2>2, <2>4, EvenRound DEF Inv
  <2>6. round < Cut /\ round' - 1 = round /\ round \in 0 .. clients
    BY <2>1, <2>2, <2>3
  <2>7. bounds'[round] = Stop(round)
    BY <2>1, <2>5, <2>6 DEF TypeOK
  <2>8. remaining' = rest
    BY <2>1
  <2> HIDE DEF rest
  <2> QED
    BY <2>1, <2>2, <2>5, <2>6, <2>7, <2>8
<1>3. CASE UNCHANGED vars
  BY <1>3 DEF vars, file, cutting, Inv, InProportion, AllMeasured, Total, Cut
<1>4. CASE ~ (Measured \/ CutPart \/ UNCHANGED vars)
  <2>1. server' # "cutting"
    BY <1>4 DEF Inv, Next, Leave, Distribute, Measure, CutDone, HandOut, Compute,
                HasPart, Die, Reassign, Answer, Collect
  <2> QED
    BY <2>1 DEF InProportion
<1> QED
  BY <1>1, <1>2, <1>3, <1>4

----------------------------------------------------------------------------
(* A step that leaves the file, the tree and the cut alone, and does not   *)
(* go back to an earlier phase, keeps what is known of the cut.            *)
LEMMA CutStays ==
  ASSUME NothingCutBefore, CuttingGoesOn, AllIsCut,
         UNCHANGED <<file, cutting>>,
         UNCHANGED tree \/ server' = "start",
         server' \in {"start", "measuring"} => server \in {"start", "measuring"},
         server' = "start" => server = "start",
         server' = "cutting" => server = "cutting",
         HandedOut' => HandedOut
  PROVE  NothingCutBefore' /\ CuttingGoesOn' /\ AllIsCut'
<1>1. /\ Cut' = Cut /\ End' = End /\ count' = count
      /\ bounds' = bounds /\ round' = round /\ remaining' = remaining
  BY DEF Cut, End, file, cutting
<1>2. NothingCutBefore'
  BY <1>1 DEF NothingCutBefore
<1>3. CASE UNCHANGED tree
  <2>1. Sound' = Sound
    BY <1>1, <1>3 DEF Sound, AllMeasured, file
  <2>2. CuttingGoesOn'
    BY <1>1, <2>1 DEF CuttingGoesOn, CutUpTo, RestAgrees
  <2>3. AllIsCut'
    BY <1>1, <2>1 DEF AllIsCut, CutUpTo
  <2> QED
    BY <1>2, <2>2, <2>3
<1>4. CASE server' = "start"
  BY <1>2, <1>4 DEF CuttingGoesOn, AllIsCut, HandedOut
<1> QED
  BY <1>3, <1>4

(* Measuring keeps the file uncut, and a round stays within the map.       *)
LEMMA MeasureStructure ==
  ASSUME Inv, Measure
  PROVE  NothingCutBefore' /\ CuttingGoesOn' /\ AllIsCut'
<1>1. /\ server = "measuring" /\ server' = "measuring"
      /\ round' = round + 1 /\ round <= Cut /\ round \in Nat
      /\ UNCHANGED <<remaining, bounds, file>>
  <2>1. round \in 1 .. clients + 1 /\ clients \in Nat
    BY CutInRange DEF Inv, TypeOK
  <2> QED
    BY <2>1 DEF Measure
<1>2. Cut' = Cut /\ Cut \in Nat
  BY <1>1, CutInRange DEF Inv, Cut, file
<1> QED
  BY <1>1, <1>2 DEF Inv, Structure, NothingCutBefore, CuttingGoesOn, AllIsCut,
                    HandedOut, file

(* The cut begins with all of the file left over.                          *)
LEMMA MeasuredStructure ==
  ASSUME Inv, Measured
  PROVE  NothingCutBefore' /\ CuttingGoesOn' /\ AllIsCut'
<1>1. /\ server = "measuring" /\ server' = "cutting" /\ round' = 1
      /\ UNCHANGED <<remaining, bounds, file>>
  BY DEF Measured
<1>2. /\ Cut' = Cut /\ Cut \in Nat /\ End' = End /\ End \in Nat
      /\ count' = count /\ count \in Nat
  BY <1>1, CutInRange DEF Inv, Cut, End, file
<1>3. bounds'[0] = 0 /\ remaining' = count
  BY <1>1 DEF Inv, Structure, NothingCutBefore
<1>4. CuttingGoesOn'
  <2>1. round' - 1 = 0
    BY <1>1
  <2>2. CutUpTo(round - 1)'
    BY <2>1, <1>3 DEF CutUpTo
  <2>3. RestAgrees'
    BY <2>1, <1>2, <1>3 DEF RestAgrees
  <2> QED
    BY <1>1, <1>2, <1>3, <2>1, <2>2, <2>3 DEF CuttingGoesOn
<1> QED
  BY <1>1, <1>4 DEF NothingCutBefore, AllIsCut, HandedOut

(* A round in which the cut is sound: the part is not empty and ends at    *)
(* the end of a line, and what is left agrees with it.                     *)
LEMMA SoundRound ==
  ASSUME Inv, Sound, CutPart, server' = "cutting"
  PROVE  \E s \in Nat :
           /\ bounds' = [bounds EXCEPT ![round] = s]
           /\ bounds[round - 1] < s /\ s <= End
           /\ round < Cut => s = End \/ s + remaining' = count
           /\ round = Cut => s >= count
<1>1. /\ TypeOK /\ CuttingGoesOn /\ server = "cutting" /\ round \in 1 .. Cut /\ Total # 0
      /\ remaining' = (remaining - Share(round)) % Wide
  BY CutPartSteps DEF Inv, Structure
<1>2. PICK s \in Stops(round) \ {bounds[round - 1]} :
        bounds' = [bounds EXCEPT ![round] = s]
  BY CutPartSteps DEF Inv
<1>3. /\ Cut \in 0 .. clients /\ clients \in Nat /\ count \in Nat /\ End \in Nat
      /\ count <= End /\ End <= count + 1 /\ Wide \in Nat \ {0}
  BY <1>1, CutInRange
<1>4. bounds[round - 1] \in Nat /\ Share(round) \in Nat /\ DataCount(round) \in Nat
  BY <1>1, StopInRange, ShareIsNat
<1>5. bounds[round - 1] <= End /\ RestAgrees
  BY <1>1, <1>3 DEF CuttingGoesOn
<1>6. CASE format = "unstructured"
  <2> DEFINE b == bounds[round - 1]
             d == Share(round)
             n == DataCount(round)
  <2>1. s = IF b + n > End THEN End ELSE b + n
    BY <1>2, <1>6 DEF Stops, Torn, Stop
  <2>2. b = End \/ b + remaining = count
    BY <1>5 DEF RestAgrees
  <2>3. n = IF round = Cut THEN remaining ELSE d
    BY DEF DataCount
  <2>4. s # b /\ b \in Nat /\ d \in Nat /\ n \in Nat /\ b <= End
    BY <1>2, <1>4, <1>5
  <2>5. remaining \in Nat /\ remaining < Wide
    <3>1. remaining \in 0 .. Wide - 1
      BY <1>1 DEF TypeOK
    <3> QED
      BY <1>3, <3>1
  <2>6. remaining' = (remaining - d) % Wide
    BY <1>1
  <2> HIDE DEF b, d, n
  <2>7. s \in Nat /\ b < s /\ s <= End
    BY <1>3, <2>1, <2>4
  <2>8. b + remaining = count
    BY <1>3, <2>1, <2>2, <2>4
  <2>9. ASSUME round < Cut
        PROVE  s = End \/ s + remaining' = count
    <3>1. n = d
      BY <1>1, <1>3, <2>3, <2>9
    <3>2. CASE d <= remaining
      <4>1. remaining - d \in Int /\ 0 <= remaining - d /\ remaining - d < Wide
        BY <1>3, <2>4, <2>5, <3>2
      <4>2. remaining' = remaining - d
        BY <1>3, <2>6, <4>1, Fits
      <4> QED
        BY <1>3, <2>1, <2>4, <2>5, <2>8, <3>1, <3>2, <4>2
    <3>3. CASE d > remaining
      BY <1>3, <2>1, <2>4, <2>5, <2>8, <3>1, <3>3
    <3> QED
      BY <2>4, <2>5, <3>2, <3>3
  <2>10. ASSUME round = Cut
         PROVE  s >= count
    BY <1>3, <2>1, <2>3, <2>4, <2>5, <2>8, <2>10
  <2> QED
    BY <1>2, <2>7, <2>9, <2>10 DEF b
<1>7. CASE AllMeasured
  <2>1. /\ tree[round] \in Nat /\ Total \in Nat
    <3>1. round \in 1 .. clients
      BY <1>1, <1>3
    <3> QED
      BY <1>1, <1>3, <3>1, SizesAssumption DEF TypeOK, Clients, Total
  <2>2. 0 * Total <= tree[round] * count
    <3>1. \A a, b \in Nat : a * b >= 0
      OBVIOUS
    <3> QED
      BY <1>3, <2>1, <3>1
  <2> DEFINE rest == (remaining - Share(round)) % Wide
  <2>3. /\ Stops(round) = {Stop(round)} /\ Stop(round) \in Nat
        /\ bounds[round - 1] + 0 <= Stop(round) /\ Stop(round) <= count
        /\ round < Cut => Stop(round) + rest = count
        /\ round = Cut => Stop(round) = count
    BY <1>1, <1>7, <2>2, EvenRound DEF Inv
  <2>4. s = Stop(round) /\ remaining' = rest
    BY <1>1, <1>2, <2>3
  <2> HIDE DEF rest
  <2>5. s \in Nat /\ bounds[round - 1] < s /\ s <= End
    BY <1>2, <1>3, <1>4, <2>3, <2>4
  <2>6. /\ round < Cut => s + remaining' = count
        /\ round = Cut => s >= count
    BY <1>3, <2>3, <2>4
  <2> QED
    BY <1>2, <2>5, <2>6
<1> QED
  BY <1>6, <1>7 DEF Sound

(* A round cuts one more part behind the others, which is not empty, and   *)
(* what is left still agrees with them; the last one reaches the end.      *)
LEMMA CutPartStructure ==
  ASSUME Inv, CutPart
  PROVE  NothingCutBefore' /\ CuttingGoesOn' /\ AllIsCut'
<1>1. /\ TypeOK /\ CuttingGoesOn /\ server = "cutting" /\ round \in 1 .. Cut
      /\ server' \in {"cutting", "ended"} /\ UNCHANGED <<file, tree>>
  BY CutPartSteps DEF Inv, Structure
<1>2. CASE server' = "ended"
  BY <1>2 DEF NothingCutBefore, CuttingGoesOn, AllIsCut, HandedOut
<1>3. CASE server' = "cutting"
  <2>1. round' = round + 1
    BY <1>1, <1>3, CutPartSteps
  <2>2. Cut' = Cut /\ End' = End /\ count' = count /\ Sound' = Sound
    BY <1>1 DEF Cut, End, file, Sound, AllMeasured
  <2>3. /\ Cut \in 0 .. clients /\ clients \in Nat /\ count \in Nat
        /\ End \in Nat /\ count <= End /\ round \in Nat
    <3>1. /\ Cut \in 0 .. clients /\ clients \in Nat /\ count \in Nat
          /\ End \in Nat /\ count <= End
      BY <1>1, CutInRange
    <3> QED
      BY <1>1, <3>1
  <2>4. round' <= Cut' + 1 /\ round' - 1 = round
    BY <1>1, <2>1, <2>2, <2>3
  <2>5. ASSUME Sound
        PROVE  /\ bounds'[round' - 1] <= End'
               /\ CutUpTo(round - 1)'
               /\ round' <= Cut' => RestAgrees'
               /\ round' > Cut' /\ Cut' > 0 => bounds'[Cut'] >= count'
    <3> DEFINE b == bounds[round - 1]
    <3>1. CutUpTo(round - 1)
      BY <1>1, <2>5 DEF CuttingGoesOn
    <3>2. PICK s \in Nat :
            /\ bounds' = [bounds EXCEPT ![round] = s]
            /\ bounds[round - 1] < s /\ s <= End
            /\ round < Cut => s = End \/ s + remaining' = count
            /\ round = Cut => s >= count
      BY <1>3, <2>5, SoundRound
    <3>3. /\ bounds'[round] = s
          /\ \A p \in 0 .. round - 1 : bounds'[p] = bounds[p]
      BY <1>1, <2>3, <3>2 DEF TypeOK
    <3>4. b \in Nat
      <4>1. round - 1 \in 0 .. clients /\ MaxLines + 1 \in Nat
        BY <1>1, <2>3, SizesAssumption
      <4> QED
        BY <1>1, <4>1 DEF TypeOK
    <3>5. \A p \in 1 .. round : bounds'[p - 1] < bounds'[p]
      <4> SUFFICES ASSUME NEW p \in 1 .. round
                   PROVE  bounds'[p - 1] < bounds'[p]
        OBVIOUS
      <4>1. CASE p = round
        BY <4>1, <2>3, <3>2, <3>3, <1>1
      <4>2. CASE p # round
        <5>1. p \in 1 .. round - 1 /\ p \in 0 .. round - 1 /\ p - 1 \in 0 .. round - 1
          BY <4>2, <2>3
        <5> QED
          BY <5>1, <3>1, <3>3 DEF CutUpTo
      <4> QED
        BY <4>1, <4>2
    <3>6. \A l \in 1 .. s : \E p \in 1 .. round : l \in bounds'[p - 1] + 1 .. bounds'[p]
      <4> SUFFICES ASSUME NEW l \in 1 .. s
                   PROVE  \E p \in 1 .. round : l \in bounds'[p - 1] + 1 .. bounds'[p]
        OBVIOUS
      <4>1. CASE l <= b
        <5>1. PICK p \in 1 .. round - 1 : l \in bounds[p - 1] + 1 .. bounds[p]
          BY <4>1, <3>1, <3>4 DEF CutUpTo
        <5>2. p \in 1 .. round /\ p \in 0 .. round - 1 /\ p - 1 \in 0 .. round - 1
          BY <2>3
        <5> QED
          BY <5>1, <5>2, <3>3
      <4>2. CASE ~(l <= b)
        <5>1. round \in 1 .. round /\ round - 1 \in 0 .. round - 1
          BY <1>1, <2>3
        <5>2. bounds'[round - 1] = b /\ bounds'[round] = s
          BY <5>1, <3>3
        <5>3. l \in b + 1 .. s
          BY <4>2, <3>2, <3>4
        <5> QED
          BY <5>1, <5>2, <5>3
      <4> QED
        BY <4>1, <4>2
    <3>7. CutUpTo(round - 1)'
      BY <2>4, <3>3, <3>5, <3>6 DEF CutUpTo
    <3>8. bounds'[round' - 1] = s
      BY <2>4, <3>3
    <3>9. bounds'[round' - 1] <= End'
      BY <2>2, <3>2, <3>8
    <3>10. round' <= Cut' => RestAgrees'
      <4>1. round' <= Cut' => round < Cut
        BY <2>1, <2>2, <2>3
      <4> QED
        BY <2>2, <3>2, <3>8, <4>1 DEF RestAgrees
    <3>11. round' > Cut' => bounds'[Cut'] >= count'
      <4>1. round' > Cut' => round = Cut
        BY <1>1, <2>1, <2>2, <2>3
      <4> QED
        BY <4>1, <2>2, <3>2, <3>3
    <3> QED
      BY <3>7, <3>9, <3>10, <3>11
  <2> QED
    BY <1>3, <2>2, <2>4, <2>5 DEF NothingCutBefore, CuttingGoesOn, AllIsCut, HandedOut
<1> QED
  BY <1>1, <1>2, <1>3

(* After the last round every counted line is in a part.                   *)
LEMMA CutDoneStructure ==
  ASSUME Inv, CutDone
  PROVE  NothingCutBefore' /\ CuttingGoesOn' /\ AllIsCut'
<1>1. /\ server = "cutting" /\ server' = "handing" /\ round > Cut
      /\ UNCHANGED <<file, tree, cutting>>
  BY DEF CutDone
<1>2. /\ Cut' = Cut /\ count' = count /\ bounds' = bounds /\ Sound' = Sound
      /\ End' = End
  BY <1>1 DEF Cut, End, file, cutting, Sound, AllMeasured
<1>3. round - 1 = Cut
  <2>1. round <= Cut + 1
    BY <1>1 DEF Inv, Structure, CuttingGoesOn
  <2>2. Cut \in Nat
    BY CutInRange DEF Inv
  <2>3. round \in Int
    BY CutInRange DEF Inv, TypeOK
  <2> QED
    BY <1>1, <2>1, <2>2, <2>3
<1>4. Sound => /\ CutUpTo(Cut) /\ bounds[Cut] <= End
               /\ Cut > 0 => bounds[Cut] >= count
  BY <1>1, <1>3 DEF Inv, Structure, CuttingGoesOn
<1>5. AllIsCut'
  BY <1>2, <1>4 DEF AllIsCut, CutUpTo
<1> QED
  BY <1>1, <1>5 DEF NothingCutBefore, CuttingGoesOn

----------------------------------------------------------------------------
(* The invariant holds at first and after every step.                      *)
LEMMA InvHolds == Init => Inv
<1> SUFFICES ASSUME Init
             PROVE  Inv
  OBVIOUS
<1>1. TypeOK
  BY InitType
<1>2. 0 \in 0 .. clients /\ Cut \in Nat /\ server = "start" /\ round = 1
  BY <1>1, CutInRange DEF Init
<1>3. NothingCutBefore
  BY <1>2 DEF Init, NothingCutBefore
<1>4. Structure
  BY <1>2, <1>3 DEF Init, Structure, CuttingGoesOn, AllIsCut, HandedOut
<1>5. Weighed
  <2>1. Known = 0
    BY <1>2 DEF Known
  <2>2. Capability(0) = 0
    BY <1>1, TreeSums DEF SumsOfTree
  <2>3. totals[0] = 0
    BY <1>2 DEF Init
  <2>4. \A k \in 0 .. 0 : totals[k] = SumFunctionOnSet(tree, 1 .. k)
    BY <2>2, <2>3 DEF Capability
  <2> QED
    BY <1>2, <2>1, <2>4 DEF Weighed
<1>6. InProportion
  BY <1>2 DEF InProportion
<1> QED
  BY <1>1, <1>4, <1>5, <1>6 DEF Inv

(* Every result file at the moderator is of a part of a client.            *)
LEMMA StoredParts ==
  ASSUME Inv, [Next]_vars
  PROVE  \A f \in stored' : f.part \in Clients'
<1>1. Clients' = Clients /\ \A f \in stored : f.part \in Clients
  BY DEF Inv, Structure, Clients, file, Next, vars, Leave, Distribute, Measure,
         Measured, CutPart, CutDone, HandOut, Compute, Die, Reassign, Answer, Collect
<1>2. \/ UNCHANGED stored
      \/ stored' = {[folder |-> "group/time", part |-> p] : p \in Clients}
  BY DEF Next, vars, work, Leave, Distribute, Measure, Measured, CutPart,
         CutDone, HandOut, Compute, Die, Reassign, Answer, Collect
<1> QED
  BY <1>1, <1>2

(* Every step keeps the types: only cutting needs more than them.          *)
LEMMA TypesKept ==
  ASSUME Inv, [Next]_vars
  PROVE  TypeOK'
<1>1. CASE Measure
  BY <1>1, MeasureType DEF Inv
<1>2. CASE CutPart
  BY <1>2, CutPartType DEF Inv
<1>3. CASE ~(Measure \/ CutPart)
  BY <1>3, OtherTypes DEF Next
<1> QED
  BY <1>1, <1>2, <1>3

(* Every step keeps what is known of the cut.                              *)
LEMMA StructureKept ==
  ASSUME Inv, [Next]_vars
  PROVE  Structure'
<1>0. NothingCutBefore /\ CuttingGoesOn /\ AllIsCut
  BY DEF Inv, Structure
<1>1. CASE Measure
  BY <1>1, MeasureStructure, StoredParts DEF Structure
<1>2. CASE Measured
  BY <1>2, MeasuredStructure, StoredParts DEF Structure
<1>3. CASE CutPart
  BY <1>3, CutPartStructure, StoredParts DEF Structure
<1>4. CASE CutDone
  BY <1>4, CutDoneStructure, StoredParts DEF Structure
<1>5. CASE UNCHANGED vars \/ \E c \in Clients : Leave(c) \/ Die(c)
  BY <1>0, <1>5, CutStays, StoredParts
     DEF vars, Leave, Die, Structure, HandedOut
<1>6. CASE Distribute
  BY <1>0, <1>6, CutStays, StoredParts DEF Distribute, Structure, HandedOut
<1>7. CASE HandOut \/ Answer \/ Collect
  BY <1>0, <1>7, CutStays, StoredParts
     DEF HandOut, Answer, Collect, work, Structure, HandedOut
<1>8. CASE \E p \in Clients : Compute(p) \/ Reassign(p)
  BY <1>0, <1>8, CutStays, StoredParts
     DEF Compute, HasPart, Reassign, Structure, HandedOut
<1> QED
  BY <1>1, <1>2, <1>3, <1>4, <1>5, <1>6, <1>7, <1>8 DEF Next

(* The invariant is inductive.                                             *)
LEMMA InvAlways == Spec => []Inv
<1>1. Init => Inv
  BY InvHolds
<1>2. Inv /\ [Next]_vars => Inv'
  BY TypesKept, WeighedKept, InProportionKept, StructureKept DEF Inv
<1> QED
  BY <1>1, <1>2, PTL DEF Spec

(* Every variable keeps its type in a run of the task, for files, reports  *)
(* and capabilities of any size: what create_task_sets_per_client counts   *)
(* as left stays an unsigned number, and every bound is a place in the     *)
(* file or, where the copy left it, one behind it.                         *)
THEOREM TypeCorrect == Spec => []TypeOK
<1>1. Inv => TypeOK
  BY DEF Inv
<1> QED
  BY <1>1, InvAlways, PTL

(* The parts that create_task_sets_per_client hands out hold every counted *)
(* line of the file once, none of them is empty and none leaves the file,  *)
(* for files, reports and capabilities of any size: of an unstructured     *)
(* file whatever memory held for clients that left, of a structured one    *)
(* when nobody of the report has left.                                     *)
THEOREM PartsWhole == Spec => []PartsAreTheFile
<1>1. ASSUME Inv
      PROVE  PartsAreTheFile
  <2> SUFFICES ASSUME HandedOut, Cut > 0, Sound
               PROVE  /\ \A l \in 1 .. count : \E p \in 1 .. Cut :
                           l \in bounds[p - 1] + 1 .. bounds[p]
                      /\ \A p \in 1 .. Cut : bounds[p - 1] < bounds[p]
                      /\ bounds[Cut] <= End
    BY DEF PartsAreTheFile, Sound
  <2>1. CutUpTo(Cut) /\ bounds[Cut] >= count /\ bounds[Cut] <= End
    BY <1>1 DEF Inv, Structure, AllIsCut
  <2>2. bounds[Cut] \in Nat /\ count \in Nat
    <3>1. TypeOK
      BY <1>1 DEF Inv
    <3>2. Cut \in 0 .. clients /\ count \in Nat /\ MaxLines + 1 \in Nat
      BY <3>1, CutInRange, SizesAssumption
    <3> QED
      BY <3>1, <3>2 DEF TypeOK
  <2>3. \A l \in 1 .. count : l \in 1 .. bounds[Cut]
    BY <2>1, <2>2
  <2> QED
    BY <2>1, <2>3 DEF CutUpTo
<1> QED
  BY <1>1, InvAlways, PTL
----------------------------------------------------------------------------
(* Why no process ends when the file is ample.                             *)
Registered ==
  /\ \E c \in Clients : tree[c] # 0
  /\ server = "start" => living # {} /\ \A c \in living : tree[c] # 0

(* The parts that are cut so far.                                          *)
Done == IF server = "cutting" THEN round - 1 ELSE Cut

PartsAreLong ==
  Ample /\ (server = "cutting" \/ HandedOut) =>
    \A p \in 1 .. Done : bounds[p - 1] + Tenth <= bounds[p] /\ bounds[p] <= count

Held == server = "waiting" => \A p \in Clients : holder[p] \in Clients

AmpleInv == Registered /\ PartsAreLong /\ Held /\ AmpleFilesAreSafe

(* With an ample file every client of the report has its node in the tree  *)
(* and gets a part.                                                        *)
LEMMA AmpleTree ==
  ASSUME TypeOK, Registered, Ample
  PROVE  /\ AllMeasured /\ Cut = clients /\ clients \in Nat \ {0} /\ count \in Nat
         /\ Capability(clients) \in Nat \ {0}
         /\ \A c \in Clients : /\ tree[c] \in Nat /\ tree[c] # 0
                               /\ Tenth * Capability(clients) <= tree[c] * count
<1>1. clients \in Nat \ {0} /\ count \in Nat /\ Tenth \in Nat \ {0}
  BY SizesAssumption DEF TypeOK
<1>2. \A c \in Clients : tree[c] \in Nat
  BY SizesAssumption DEF TypeOK
<1>3. Cut = clients
  BY <1>1 DEF Ample, Cut
<1>4. Capability(clients) \in Nat \ {0}
  <2>1. PICK c \in Clients : tree[c] # 0
    BY DEF Registered
  <2>2. tree[c] <= Capability(clients) /\ Capability(clients) \in Nat
    BY <1>1, TreeSums DEF SumsOfTree, Clients
  <2> QED
    BY <1>2, <2>1, <2>2
<1>5. \A c \in Clients : Tenth * Capability(clients) <= tree[c] * count
  BY <1>1, <1>2, <1>4 DEF Ample, Capability, Clients
<1>6. ASSUME NEW c \in Clients, tree[c] = 0
      PROVE  FALSE
  <2>1. Tenth * Capability(clients) <= 0
    BY <1>1, <1>5, <1>6
  <2>2. \A a, b \in Nat \ {0} : a * b > 0
    OBVIOUS
  <2>3. Tenth * Capability(clients) > 0
    BY <1>1, <1>4, <2>2
  <2> QED
    BY <1>1, <1>4, <2>1, <2>3
<1>7. AllMeasured
  BY <1>3, <1>6 DEF AllMeasured, Clients
<1> QED
  BY <1>1, <1>2, <1>3, <1>4, <1>5, <1>6, <1>7

(* One round of the cut of an ample file: the part is not shorter than a   *)
(* tenth can be taken of.                                                  *)
LEMMA AmpleRound ==
  ASSUME Inv, AmpleInv, Ample, server = "cutting", round \in 1 .. Cut
  PROVE  /\ Total # 0 /\ Stops(round) = {Stop(round)} /\ Stop(round) # bounds[round - 1]
         /\ bounds[round - 1] + Tenth <= Stop(round) /\ Stop(round) <= count
<1>0. TypeOK /\ Registered /\ Weighed /\ InProportion /\ Known = Cut
  BY DEF Inv, AmpleInv, Known
<1>1. /\ AllMeasured /\ Cut = clients /\ clients \in Nat \ {0}
      /\ Capability(clients) \in Nat \ {0} /\ Tenth \in Nat \ {0}
      /\ \A c \in Clients : Tenth * Capability(clients) <= tree[c] * count
  BY <1>0, AmpleTree, SizesAssumption
<1>2. Total = Capability(clients)
  <2>1. Total = Capability(Cut)
    BY <1>0, <1>1, MeasuredWeights
  <2> QED
    BY <1>1, <2>1
<1>3. Total # 0 /\ Tenth * Total <= tree[round] * count
  BY <1>1, <1>2 DEF Clients
<1>4. /\ Stops(round) = {Stop(round)} /\ Stop(round) \in Nat
      /\ bounds[round - 1] + Tenth <= Stop(round) /\ Stop(round) <= count
  <2>1. Tenth \in Nat
    BY <1>1
  <2> QED
    BY <1>0, <1>1, <1>3, <2>1, EvenRound
<1>5. bounds[round - 1] \in Nat
  BY <1>0, <1>3, StopInRange
<1> QED
  BY <1>1, <1>3, <1>4, <1>5

(* A part that is long enough for a tenth does not end the client.         *)
LEMMA LongPartsDoNotTrap ==
  ASSUME Inv, AmpleInv, Ample, HandedOut, NEW p \in Clients
  PROVE  p <= Cut /\ ~ Traps(p)
<1>0. TypeOK /\ Registered
  BY DEF Inv, AmpleInv
<1>1. /\ Cut = clients /\ clients \in Nat \ {0} /\ count \in Nat
      /\ Tenth \in Nat \ {0} /\ p \in 1 .. clients
  BY <1>0, AmpleTree, SizesAssumption DEF Clients
<1>2. bounds[p - 1] + Tenth <= bounds[p] /\ bounds[p] <= count
  BY <1>1 DEF AmpleInv, PartsAreLong, Done, HandedOut
<1>3. bounds[p - 1] \in Nat /\ bounds[p] \in Nat
  <2>1. p \in 0 .. clients /\ p - 1 \in 0 .. clients /\ MaxLines + 1 \in Nat
    BY <1>1, SizesAssumption
  <2> QED
    BY <1>0, <2>1 DEF TypeOK
<1>4. Lines(p) = bounds[p - 1] + 1 .. bounds[p]
  BY <1>1, <1>2, <1>3 DEF Lines
<1>5. Size(p) = bounds[p] - bounds[p - 1]
  <2>1. bounds[p - 1] + 1 \in Int /\ bounds[p] \in Int /\ bounds[p - 1] + 1 <= bounds[p]
    BY <1>1, <1>2, <1>3
  <2>2. Cardinality(bounds[p - 1] + 1 .. bounds[p]) = bounds[p] - (bounds[p - 1] + 1) + 1
    BY <2>1, FS_Interval
  <2> QED
    BY <1>3, <1>4, <2>2 DEF Size
<1>6. Size(p) \in Nat /\ Tenth <= Size(p)
  BY <1>1, <1>2, <1>3, <1>5
<1>7. ASSUME Size(p) \div Tenth = 0
      PROVE  FALSE
  <2>1. \A a \in Nat : a < (a \div Tenth) * Tenth + Tenth
    BY <1>1
  <2>2. Size(p) < 0 * Tenth + Tenth
    BY <1>6, <1>7, <2>1
  <2> QED
    BY <1>1, <1>6, <2>2
<1> QED
  BY <1>1, <1>7 DEF Traps

(* The step in which a client leaves makes the report one of clients that  *)
(* are not all there.                                                      *)
LEMMA LeaveAmple ==
  ASSUME Inv, Inv', AmpleInv, NEW c \in Clients, Leave(c)
  PROVE  AmpleInv'
<1>1. /\ TypeOK /\ TypeOK' /\ server = "start" /\ server' = "start"
      /\ c \in living /\ living # {c}
      /\ tree' = [tree EXCEPT ![c] = 0] /\ living' = living \ {c}
      /\ UNCHANGED <<type, count, tail, clients, round, totals, weight>>
  BY DEF Inv, Leave, file, cutting
<1>2. Clients' = Clients /\ Cut' = Cut /\ living \subseteq Clients
  BY <1>1 DEF Clients, Cut, TypeOK
<1>3. Registered'
  <2>1. \A d \in living' : tree'[d] # 0
    BY <1>1, <1>2 DEF AmpleInv, Registered, TypeOK
  <2>2. living' # {}
    BY <1>1
  <2> QED
    BY <1>1, <1>2, <2>1, <2>2 DEF Registered
<1>5. ~ Ample'
  <2> SUFFICES ASSUME Ample'
               PROVE  FALSE
    OBVIOUS
  <2>1. PICK d \in living' : d \in Clients /\ tree'[d] # 0
    BY <1>1, <1>2 DEF AmpleInv, Registered, TypeOK
  <2>2. tree'[c] = 0 /\ count \in Nat /\ clients \in Nat \ {0}
    BY <1>1, SizesAssumption DEF TypeOK
  <2>3. /\ Capability(clients)' \in Nat
        /\ tree'[d] <= Capability(clients)' /\ tree'[d] \in Nat
    <3>1. SumsOfTree'
      BY <1>1, TreeSumsNext
    <3>2. d \in 1 .. clients' /\ clients' \in 0 .. clients' /\ clients' = clients
      BY <1>1, <2>1, SizesAssumption DEF TypeOK, Clients
    <3>3. tree'[d] \in Nat
      BY <1>1, <2>1, SizesAssumption DEF TypeOK
    <3> QED
      BY <3>1, <3>2, <3>3 DEF SumsOfTree
  <2>4. 0 * count >= Tenth * Capability(clients)'
    BY <1>1, <1>2, <2>2 DEF Ample, Capability, Clients
  <2>5. \A a, b \in Nat \ {0} : a * b > 0
    OBVIOUS
  <2>6. Tenth \in Nat \ {0} /\ Capability(clients)' \in Nat \ {0}
    BY <2>1, <2>3, SizesAssumption
  <2> QED
    BY <2>2, <2>4, <2>5, <2>6
<1> QED
  BY <1>1, <1>3, <1>5
     DEF AmpleInv, PartsAreLong, Held, AmpleFilesAreSafe

(* What the other steps leave alone.                                       *)
LEMMA TreeStays ==
  ASSUME UNCHANGED <<file, tree>>
  PROVE  /\ Clients' = Clients /\ Cut' = Cut /\ count' = count
         /\ clients' = clients /\ Ample' = Ample
  BY DEF file, Clients, Cut, Ample

(* Measuring and the beginning of the cut.                                 *)
LEMMA MeasureAmple ==
  ASSUME Inv, AmpleInv, Measure \/ Measured
  PROVE  AmpleInv'
<1>1. /\ TypeOK /\ server = "measuring" /\ UNCHANGED <<tree, living, deaths, file>>
      /\ server' = "measuring" \/ (server' = "cutting" /\ round' = 1)
  BY DEF Inv, Measure, Measured, work
<1>2. /\ Clients' = Clients /\ Cut' = Cut /\ Ample' = Ample /\ count' = count
  BY <1>1, TreeStays
<1>3. PartsAreLong'
  <2>1. server' = "cutting" => Done' = 0
    BY <1>1 DEF Done
  <2> QED
    BY <1>1, <2>1 DEF PartsAreLong, HandedOut
<1>4. Registered' /\ AmpleFilesAreSafe' /\ Held'
  BY <1>1, <1>2 DEF AmpleInv, Registered, AmpleFilesAreSafe, Held
<1> QED
  BY <1>3, <1>4 DEF AmpleInv

(* A round of the cut.                                                     *)
LEMMA CutPartAmple ==
  ASSUME Inv, Inv', AmpleInv, CutPart
  PROVE  AmpleInv'
<1>1. /\ TypeOK /\ server = "cutting" /\ round \in 1 .. Cut
      /\ server' \in {"cutting", "ended"}
      /\ UNCHANGED <<tree, living, deaths, file>>
  BY CutPartSteps DEF Inv, work
<1>2. /\ Clients' = Clients /\ Cut' = Cut /\ Ample' = Ample /\ count' = count
  BY <1>1, TreeStays
<1>5. Registered' /\ Held'
  BY <1>1, <1>2 DEF AmpleInv, Registered, Held
<1>6. CASE ~ Ample
  BY <1>2, <1>5, <1>6
     DEF AmpleInv, PartsAreLong, AmpleFilesAreSafe
<1>7. CASE Ample
  <2>1. /\ Total # 0 /\ Stops(round) = {Stop(round)} /\ Stop(round) # bounds[round - 1]
        /\ bounds[round - 1] + Tenth <= Stop(round) /\ Stop(round) <= count
    BY <1>1, <1>7, AmpleRound
  <2>2. /\ server' = "cutting" /\ round' = round + 1
        /\ bounds' = [bounds EXCEPT ![round] = Stop(round)]
    BY <1>1, <2>1, CutPartSteps
  <2>3. /\ round \in 1 .. Cut /\ Cut \in 0 .. clients /\ clients \in Nat
        /\ round' - 1 = round /\ round - 1 \in 0 .. clients /\ round \in 0 .. clients
    <3>1. Cut \in 0 .. clients /\ clients \in Nat /\ round \in 1 .. clients + 1
      BY <1>1, CutInRange DEF TypeOK
    <3> QED
      BY <1>1, <2>2, <3>1
  <2>5. /\ bounds'[round] = Stop(round)
        /\ \A p \in 0 .. round - 1 : bounds'[p] = bounds[p]
    BY <1>1, <2>2, <2>3 DEF TypeOK
  <2>6. ASSUME NEW p \in 1 .. round
        PROVE  bounds'[p - 1] + Tenth <= bounds'[p] /\ bounds'[p] <= count
    <3>1. CASE p = round
      <4>1. round - 1 \in 0 .. round - 1
        BY <2>3
      <4> QED
        BY <2>1, <2>5, <3>1, <4>1
    <3>2. CASE p # round
      <4>1. p \in 1 .. round - 1 /\ p \in 0 .. round - 1 /\ p - 1 \in 0 .. round - 1
        BY <2>3, <3>2
      <4>2. bounds[p - 1] + Tenth <= bounds[p] /\ bounds[p] <= count
        BY <1>1, <1>7, <4>1 DEF AmpleInv, PartsAreLong, Done
      <4> QED
        BY <2>5, <4>1, <4>2
    <3> QED
      BY <3>1, <3>2
  <2>7. Done' = round
    BY <2>2, <2>3 DEF Done
  <2>8. PartsAreLong'
    BY <1>2, <2>6, <2>7 DEF PartsAreLong
  <2>9. AmpleFilesAreSafe'
    BY <1>1, <1>2, <2>2 DEF AmpleInv, AmpleFilesAreSafe
  <2> QED
    BY <1>5, <2>8, <2>9 DEF AmpleInv
<1> QED
  BY <1>6, <1>7

(* A step that leaves the tree and the cut alone.                          *)
LEMMA SameCutAmple ==
  ASSUME Inv, AmpleInv, UNCHANGED <<file, tree, cutting>>,
         server' \in {"start", "measuring"} <=> server \in {"start", "measuring"},
         server' = "start" => server = "start" /\ living' = living,
         server' = "cutting" => server = "cutting",
         HandedOut' => HandedOut \/ (server = "cutting" /\ round > Cut)
  PROVE  Registered' /\ PartsAreLong'
<1>1. /\ Clients' = Clients /\ Cut' = Cut /\ Ample' = Ample /\ count' = count
      /\ UNCHANGED <<tree, round, totals, weight, remaining, bounds>>
  BY TreeStays DEF cutting
<1>3. Registered'
  BY <1>1 DEF AmpleInv, Registered
<1>5. ASSUME server' = "cutting" \/ HandedOut'
      PROVE  Done' = Done /\ (server = "cutting" \/ HandedOut)
  <2>1. CASE server' = "cutting"
    BY <1>1, <2>1 DEF Done
  <2>2. CASE HandedOut' /\ HandedOut
    BY <1>1, <2>2 DEF Done, HandedOut
  <2>3. CASE HandedOut' /\ server = "cutting" /\ round > Cut
    <3>1. round - 1 = Cut
      <4>1. round <= Cut + 1 /\ round \in Int /\ Cut \in Int
        BY <2>3, CutInRange DEF Inv, Structure, CuttingGoesOn, TypeOK
      <4> QED
        BY <2>3, <4>1
    <3>2. server' # "cutting"
      BY <2>3 DEF HandedOut
    <3> QED
      BY <1>1, <2>3, <3>1, <3>2 DEF Done
  <2> QED
    BY <1>5, <2>1, <2>2, <2>3
<1>6. PartsAreLong'
  BY <1>1, <1>5 DEF AmpleInv, PartsAreLong
<1> QED
  BY <1>3, <1>6

(* The steps around the work of the clients.                               *)
LEMMA QuietAmple ==
  ASSUME Inv, AmpleInv,
         Distribute \/ CutDone \/ Answer \/ Collect \/ UNCHANGED vars
  PROVE  AmpleInv'
<1>1. /\ UNCHANGED <<file, tree, cutting, living, deaths, holder>>
      /\ server' # server \/ UNCHANGED server
      /\ server' = "waiting" => server = "waiting"
      /\ server' = "ended" => server = "ended"
  BY DEF Distribute, CutDone, Answer, Collect, vars, work
<1>2. Clients' = Clients /\ Ample' = Ample
  BY <1>1, TreeStays
<1>3. Registered' /\ PartsAreLong'
  <2>1. CASE UNCHANGED vars
    BY <1>1, <2>1, SameCutAmple DEF vars, HandedOut
  <2>2. CASE Distribute
    BY <1>1, <2>2, SameCutAmple DEF Distribute, HandedOut
  <2>3. CASE CutDone
    BY <1>1, <2>3, SameCutAmple DEF CutDone, HandedOut
  <2>4. CASE Answer \/ Collect
    BY <1>1, <2>4, SameCutAmple DEF Answer, Collect, HandedOut
  <2> QED
    BY <2>1, <2>2, <2>3, <2>4
<1>4. Held' /\ AmpleFilesAreSafe'
  BY <1>1, <1>2 DEF AmpleInv, Held, AmpleFilesAreSafe
<1> QED
  BY <1>3, <1>4 DEF AmpleInv

(* Every client of the report has an entry of distribution_map.            *)
LEMMA HandOutAmple ==
  ASSUME Inv, AmpleInv, HandOut
  PROVE  AmpleInv'
<1>1. /\ UNCHANGED <<file, tree, cutting, living, deaths>>
      /\ server = "handing" /\ server' \in {"waiting", "ended"}
  BY DEF HandOut
<1>2. Clients' = Clients /\ Ample' = Ample
  BY <1>1, TreeStays
<1>3. Registered' /\ PartsAreLong'
  BY <1>1, SameCutAmple DEF HandedOut
<1>4. Held'
  BY <1>2 DEF HandOut, Held
<1>5. AmpleFilesAreSafe'
  <2> SUFFICES ASSUME Ample
               PROVE  server' # "ended" /\ Cardinality(Clients' \ living') <= deaths'
    BY <1>2 DEF AmpleFilesAreSafe
  <2>1. Cut = clients /\ clients \in Nat
    BY AmpleTree DEF Inv, AmpleInv
  <2>2. server' # "ended"
    BY <2>1 DEF HandOut
  <2> QED
    BY <1>1, <1>2, <2>2 DEF AmpleInv, AmpleFilesAreSafe
<1> QED
  BY <1>3, <1>4, <1>5 DEF AmpleInv

(* A client computes its part and goes on, when the part is long enough.   *)
LEMMA ComputeAmple ==
  ASSUME Inv, AmpleInv, NEW p \in Clients, Compute(p)
  PROVE  AmpleInv'
<1>1. /\ UNCHANGED <<file, tree, cutting, deaths, holder, server>>
      /\ server = "waiting"
  BY DEF Compute, HasPart
<1>2. Clients' = Clients /\ Ample' = Ample
  BY <1>1, TreeStays
<1>3. Registered' /\ PartsAreLong'
  BY <1>1, SameCutAmple DEF HandedOut
<1>4. Held'
  BY <1>1, <1>2 DEF AmpleInv, Held
<1>5. AmpleFilesAreSafe'
  <2> SUFFICES ASSUME Ample
               PROVE  server' # "ended" /\ Cardinality(Clients' \ living') <= deaths'
    BY <1>2 DEF AmpleFilesAreSafe
  <2>1. p <= Cut /\ ~ Traps(p)
    BY <1>1, LongPartsDoNotTrap DEF HandedOut
  <2>2. Cut \in Int /\ p \in Int
    BY CutInRange DEF Inv, Clients
  <2>3. UNCHANGED living
    BY <2>1, <2>2 DEF Compute
  <2> QED
    BY <1>1, <1>2, <2>3 DEF AmpleInv, AmpleFilesAreSafe
<1> QED
  BY <1>3, <1>4, <1>5 DEF AmpleInv

(* One more process ends for another reason.                               *)
LEMMA DieAmple ==
  ASSUME Inv, AmpleInv, NEW c \in Clients, Die(c)
  PROVE  AmpleInv'
<1>1. /\ UNCHANGED <<file, tree, cutting, holder, server>>
      /\ server = "waiting" /\ c \in living
      /\ deaths' = deaths + 1 /\ living' = living \ {c}
  BY DEF Die
<1>2. Clients' = Clients /\ Ample' = Ample
  BY <1>1, TreeStays
<1>3. Registered' /\ PartsAreLong'
  BY <1>1, SameCutAmple DEF HandedOut
<1>4. Held'
  BY <1>1, <1>2 DEF AmpleInv, Held
<1>5. AmpleFilesAreSafe'
  <2> SUFFICES ASSUME Ample
               PROVE  server' # "ended" /\ Cardinality(Clients' \ living') <= deaths'
    BY <1>2 DEF AmpleFilesAreSafe
  <2> DEFINE Gone == Clients \ living
  <2>1. IsFiniteSet(Gone) /\ c \notin Gone /\ Clients' \ living' = Gone \cup {c}
    <3>1. IsFiniteSet(Clients)
      <4>1. clients \in Int
        BY SizesAssumption DEF Inv, TypeOK
      <4> QED
        BY <4>1, FS_Interval DEF Clients
    <3>2. IsFiniteSet(Gone)
      BY <3>1, FS_Subset
    <3> QED
      BY <1>1, <1>2, <3>2
  <2>2. Cardinality(Gone) <= deaths /\ deaths \in Nat
    BY SizesAssumption DEF Inv, TypeOK, AmpleInv, AmpleFilesAreSafe
  <2> HIDE DEF Gone
  <2>3. Cardinality(Gone \cup {c}) = Cardinality(Gone) + 1 /\ Cardinality(Gone) \in Nat
    BY <2>1, FS_AddElement, FS_CardinalityType
  <2>4. server' # "ended"
    BY <1>1
  <2> QED
    BY <1>1, <2>1, <2>2, <2>3, <2>4
<1> QED
  BY <1>3, <1>4, <1>5 DEF AmpleInv

(* The node of a dead client is there when its part goes to another one.   *)
LEMMA ReassignAmple ==
  ASSUME Inv, AmpleInv, NEW p \in Clients, Reassign(p)
  PROVE  AmpleInv'
<1>1. /\ UNCHANGED <<file, tree, cutting, living, deaths>>
      /\ server = "waiting" /\ server' \in {"waiting", "ended"}
      /\ living \subseteq Clients
  BY DEF Reassign, Inv, TypeOK
<1>2. Clients' = Clients /\ Ample' = Ample
  BY <1>1, TreeStays
<1>3. Registered' /\ PartsAreLong'
  BY <1>1, SameCutAmple DEF HandedOut
<1>4. Held'
  <2>1. /\ holder \in [Clients -> 0 .. clients]
        /\ \A q \in Clients : holder[q] \in Clients
    BY <1>1 DEF Inv, TypeOK, AmpleInv, Held
  <2>2. UNCHANGED holder \/ \E c \in living : holder' = [holder EXCEPT ![p] = c]
    BY DEF Reassign
  <2> QED
    BY <1>1, <1>2, <2>1, <2>2 DEF Held
<1>5. AmpleFilesAreSafe'
  <2> SUFFICES ASSUME Ample
               PROVE  server' # "ended" /\ Cardinality(Clients' \ living') <= deaths'
    BY <1>2 DEF AmpleFilesAreSafe
  <2>1. holder[p] \in Clients
    BY <1>1 DEF AmpleInv, Held
  <2>2. tree[holder[p]] # 0
    BY <2>1, AmpleTree DEF Inv, AmpleInv
  <2>3. server' # "ended"
    BY <1>1, <2>2 DEF Reassign
  <2> QED
    BY <1>1, <1>2, <2>3 DEF AmpleInv, AmpleFilesAreSafe
<1> QED
  BY <1>3, <1>4, <1>5 DEF AmpleInv

(* No client has left at first and nothing is measured.                    *)
LEMMA InitAmple == Init => AmpleInv
<1> SUFFICES ASSUME Init
             PROVE  AmpleInv
  OBVIOUS
<1>1. TypeOK /\ clients \in Nat \ {0} /\ 1 \in Clients
  BY InitType, SizesAssumption DEF Init, Clients
<1>2. \A c \in Clients : tree[c] \in 1 .. MaxCapability
  BY DEF Init
<1>3. Registered
  BY <1>1, <1>2 DEF Init, Registered
<1>5. Cardinality(Clients \ living) <= deaths
  <2>1. Clients \ living = {} /\ deaths = 0
    BY DEF Init
  <2>2. Cardinality(Clients \ living) = 0
    BY <2>1, FS_EmptySet
  <2> QED
    BY <2>1, <2>2
<1>6. server = "start"
  BY DEF Init
<1> QED
  BY <1>3, <1>5, <1>6
     DEF AmpleInv, PartsAreLong, HandedOut, Held, AmpleFilesAreSafe

(* However many lines the file has, and whatever the capabilities: when    *)
(* the report names no client that left and the weakest one still gets a   *)
(* tenth of something, neither create_task_sets_per_client nor the client  *)
(* divides by zero or maps an empty file, and nobody looks past the map.   *)
THEOREM AmpleIsSafe == Spec => []AmpleFilesAreSafe
<1>1. Init => AmpleInv
  BY InitAmple
<1>2. ASSUME Inv, Inv', AmpleInv, [Next]_vars
      PROVE  AmpleInv'
  <2>1. ASSUME NEW c \in Clients, Leave(c)
        PROVE  AmpleInv'
    BY <1>2, <2>1, LeaveAmple
  <2>2. CASE Distribute \/ CutDone \/ Answer \/ Collect \/ UNCHANGED vars
    BY <1>2, <2>2, QuietAmple
  <2>3. CASE Measure
    BY <1>2, <2>3, MeasureAmple
  <2>4. CASE Measured
    BY <1>2, <2>4, MeasureAmple
  <2>5. CASE CutPart
    BY <1>2, <2>5, CutPartAmple
  <2>6. CASE HandOut
    BY <1>2, <2>6, HandOutAmple
  <2>7. ASSUME NEW p \in Clients, Compute(p)
        PROVE  AmpleInv'
    BY <1>2, <2>7, ComputeAmple
  <2>8. ASSUME NEW c \in Clients, Die(c)
        PROVE  AmpleInv'
    BY <1>2, <2>8, DieAmple
  <2>9. ASSUME NEW p \in Clients, Reassign(p)
        PROVE  AmpleInv'
    BY <1>2, <2>9, ReassignAmple
  <2> QED
    BY <1>2, <2>1, <2>2, <2>3, <2>4, <2>5, <2>6, <2>7, <2>8, <2>9 DEF Next
<1>3. AmpleInv => AmpleFilesAreSafe
  BY DEF AmpleInv
<1> QED
  BY <1>1, <1>2, <1>3, InvAlways, PTL DEF Spec
----------------------------------------------------------------------------
(* Trial division up to the root finds the numbers with two divisors.      *)
LEMMA DivisionIsExact ==
  ASSUME NEW n \in Nat \ {0}, NEW j \in 1 .. n
  PROVE  n % j = 0 <=> \E e \in 1 .. n : j * e = n
<1>1. /\ n \div j \in Nat /\ n % j \in Nat /\ n = j * (n \div j) + (n % j) /\ (n % j) < j
  OBVIOUS
<1>2. ASSUME n % j = 0
      PROVE  \E e \in 1 .. n : j * e = n
  <2> DEFINE e == n \div j
  <2>1. j * e = n /\ e \in Nat
    BY <1>1, <1>2
  <2> HIDE DEF e
  <2>2. e # 0
    BY <2>1
  <2>3. e <= n
    <3>1. \A a \in Nat \ {0}, b \in Nat \ {0} : b <= a * b
      OBVIOUS
    <3>2. j \in Nat \ {0} /\ e \in Nat \ {0}
      BY <2>1, <2>2
    <3>3. e <= j * e
      BY <3>1, <3>2
    <3> QED
      BY <2>1, <3>3
  <2> QED
    BY <2>1, <2>2, <2>3
<1>3. ASSUME NEW e \in 1 .. n, j * e = n
      PROVE  n % j = 0
  <2> DEFINE q == n \div j
             r == n % j
  <2>1. q \in Nat /\ r \in Nat /\ j * e = j * q + r /\ r < j /\ j \in Nat \ {0} /\ e \in Nat
    BY <1>1, <1>3
  <2> HIDE DEF q, r
  <2>2. e * j < q * j + j /\ q * j <= e * j
    BY <2>1
  <2>3. e <= q /\ q <= e
    BY <2>1, <2>2, Cancel, CancelStrict
  <2>4. e = q
    BY <2>1, <2>3
  <2>5. r = 0
    BY <2>1, <2>4
  <2> QED
    BY <2>5 DEF r
<1> QED
  BY <1>2, <1>3

LEMMA TwoDivisors ==
  ASSUME NEW n \in Nat \ {0}
  PROVE  IsPrime(n) <=> Cardinality(Divisors(n)) = 2
<1>1. 1 \in Divisors(n) /\ n \in Divisors(n) /\ Divisors(n) \subseteq 1 .. n
  BY DEF Divisors
<1>2. ASSUME n >= 2
      PROVE  Cardinality(Divisors(n)) = 2 <=> Divisors(n) = {1, n}
  <2>1. IsFiniteSet(Divisors(n)) /\ IsFiniteSet({1}) /\ IsFiniteSet({1, n})
    <3>1. IsFiniteSet(1 .. n)
      BY FS_Interval
    <3> QED
      BY <1>1, <3>1, FS_Subset, FS_EmptySet, FS_AddElement
  <2>2. Cardinality({1, n}) = 2
    <3>1. IsFiniteSet({}) /\ Cardinality({}) = 0
      BY FS_EmptySet
    <3>2. Cardinality({} \cup {1}) = 0 + 1 /\ {} \cup {1} = {1}
      BY <3>1, FS_AddElement
    <3>3. n \notin {1} /\ {1} \cup {n} = {1, n}
      BY <1>2
    <3>4. Cardinality({1} \cup {n}) = Cardinality({1}) + 1
      BY <2>1, <3>3, FS_AddElement
    <3> QED
      BY <3>2, <3>3, <3>4
  <2>3. {1, n} \subseteq Divisors(n)
    BY <1>1
  <2>4. ASSUME Cardinality(Divisors(n)) = 2
        PROVE  Divisors(n) = {1, n}
    <3>1. Cardinality({1, n}) = Cardinality(Divisors(n))
      BY <2>2, <2>4
    <3>2. {1, n} = Divisors(n)
      BY <2>1, <2>3, <3>1, FS_Subset
    <3> QED
      BY <3>2
  <2> QED
    BY <2>2, <2>4
<1>3. ASSUME n = 1
      PROVE  Cardinality(Divisors(n)) = 1
  <2>1. Divisors(n) = {} \cup {1}
    BY <1>1, <1>3
  <2>2. IsFiniteSet({}) /\ Cardinality({}) = 0 /\ 1 \notin {}
    BY FS_EmptySet
  <2>3. Cardinality({} \cup {1}) = 0 + 1
    BY <2>2, FS_AddElement
  <2> QED
    BY <2>1, <2>3
<1>4. ASSUME IsPrime(n), NEW d \in Divisors(n), d # 1, d # n
      PROVE  FALSE
  <2>1. PICK e \in 1 .. n : d * e = n
    BY DEF Divisors
  <2>2. d \in 2 .. n /\ d < n /\ e \in Nat /\ d \in Nat
    BY <1>1, <1>4
  <2>3. e # 1
    BY <2>1, <2>2
  <2>4. e \in 2 .. n /\ e * d = n
    BY <2>1, <2>2, <2>3
  <2>5. n % d = 0 /\ n % e = 0
    <3>1. d \in 1 .. n /\ e \in 1 .. n
      BY <2>2
    <3> QED
      BY <2>1, <2>4, <3>1, DivisionIsExact
  <2>6. d * d <= n \/ e * e <= n
    <3>1. \A a, b \in Nat : a <= b => a * a <= a * b
      OBVIOUS
    <3>2. d <= e \/ e <= d
      BY <2>2
    <3> QED
      BY <2>1, <2>2, <2>4, <3>1, <3>2
  <2> QED
    BY <1>4, <2>2, <2>4, <2>5, <2>6 DEF IsPrime
<1>5. ASSUME Divisors(n) = {1, n}, n >= 2, NEW j \in 2 .. n, j * j <= n, n % j = 0
      PROVE  FALSE
  <2>1. j \in 1 .. n
    OBVIOUS
  <2>2. \E e \in 1 .. n : j * e = n
    BY <1>5, <2>1, DivisionIsExact
  <2>3. j \in Divisors(n)
    BY <2>1, <2>2 DEF Divisors
  <2>4. j = n
    BY <1>5, <2>3
  <2>5. \A a \in Nat : a >= 2 => a * a >= 2 * a
    OBVIOUS
  <2>6. n * n >= 2 * n
    BY <1>5, <2>5
  <2> QED
    BY <1>5, <2>4, <2>6
<1>6. CASE n = 1
  BY <1>3, <1>6 DEF IsPrime
<1>7. CASE n >= 2
  <2>1. ASSUME IsPrime(n)
        PROVE  Divisors(n) = {1, n}
    BY <1>1, <1>4, <2>1
  <2>2. ASSUME Divisors(n) = {1, n}
        PROVE  IsPrime(n)
    BY <1>5, <1>7, <2>2 DEF IsPrime
  <2> QED
    BY <1>2, <1>7, <2>1, <2>2
<1> QED
  BY <1>6, <1>7
----------------------------------------------------------------------------
(* The answer.  Every result is of a part that was cut, and what has been  *)
(* found is what the task asks of the file.                                *)
AnswerInv ==
  /\ resp \subseteq 1 .. Cut
  /\ bounds[0] = 0
  /\ /\ server \in {"answered", "written"}
     /\ count < Word \/ type # "primes"
     /\ Sound
     => answer = Expected

(* The lines up to the end of a part, and the numbers a task looks for.    *)
Upto(k) == {n \in 1 .. count : n <= bounds[k]}
Chosen(S) == IF type = "sum" THEN S ELSE {n \in S : IsPrime(n)}

(* When there is a result of every client, there is a part for every one.  *)
LEMMA LinesOfParts ==
  ASSUME Inv, AnswerInv, Sound, server = "waiting", resp = Clients
  PROVE  /\ clients \in Nat \ {0} /\ count \in Nat
         /\ Upto(0) = {} /\ Upto(clients) = 1 .. count
         /\ \A p \in 1 .. clients :
              /\ Upto(p) = Upto(p - 1) \cup Lines(p)
              /\ Upto(p - 1) \cap Lines(p) = {}
<1>1. /\ TypeOK /\ clients \in Nat \ {0} /\ count \in Nat /\ Cut \in 0 .. clients
      /\ MaxLines + 1 \in Nat
  BY CutInRange, SizesAssumption DEF Inv
<1>2. Cut = clients
  <2>1. clients \in Clients
    BY <1>1 DEF Clients
  <2> QED
    BY <1>1, <2>1 DEF AnswerInv
<1>3. \A k \in 0 .. clients : bounds[k] \in Nat
  BY <1>1 DEF TypeOK
<1>4. CutUpTo(Cut) /\ bounds[Cut] >= count
  BY <1>1, <1>2 DEF Inv, Structure, AllIsCut, HandedOut
<1>5. Upto(0) = {}
  BY <1>1 DEF AnswerInv, Upto
<1>6. Upto(clients) = 1 .. count
  <2>1. clients \in 0 .. clients
    BY <1>1
  <2> QED
    BY <1>1, <1>2, <1>3, <1>4, <2>1 DEF Upto
<1>7. ASSUME NEW p \in 1 .. clients
      PROVE  /\ Upto(p) = Upto(p - 1) \cup Lines(p)
             /\ Upto(p - 1) \cap Lines(p) = {}
  <2>1. p \in 0 .. clients /\ p - 1 \in 0 .. clients
    BY <1>1
  <2>2. bounds[p - 1] \in Nat /\ bounds[p] \in Nat
    BY <1>3, <2>1
  <2>3. bounds[p - 1] < bounds[p]
    BY <1>2, <1>4 DEF CutUpTo
  <2>4. \A n : n \in Lines(p) <=> n \in Nat /\ bounds[p - 1] < n /\ n <= bounds[p] /\ n <= count
    BY <1>1, <2>2 DEF Lines
  <2>5. /\ \A n : n \in Upto(p) <=> n \in Nat /\ 1 <= n /\ n <= bounds[p] /\ n <= count
        /\ \A n : n \in Upto(p - 1) <=> n \in Nat /\ 1 <= n /\ n <= bounds[p - 1] /\ n <= count
    BY <1>1, <2>2 DEF Upto
  <2>6. \A n : n \in Upto(p) <=> n \in Upto(p - 1) \/ n \in Lines(p)
    <3> SUFFICES ASSUME NEW n
                 PROVE  n \in Upto(p) <=> n \in Upto(p - 1) \/ n \in Lines(p)
      OBVIOUS
    <3> QED
      BY <1>1, <2>2, <2>3, <2>4, <2>5
  <2>7. \A n : ~ (n \in Upto(p - 1) /\ n \in Lines(p))
    <3> SUFFICES ASSUME NEW n, n \in Upto(p - 1), n \in Lines(p)
                 PROVE  FALSE
      OBVIOUS
    <3> QED
      BY <2>2, <2>4, <2>5
  <2> QED
    BY <2>6, <2>7
<1> QED
  BY <1>1, <1>5, <1>6, <1>7

(* Sums over numbers of the file.                                          *)
Numbers == [n \in 1 .. count |-> n]

LEMMA SumsInFile ==
  ASSUME count \in Nat
  PROVE  /\ \A S \in SUBSET (1 .. count) :
              SumSet(S) = SumOver(Numbers, S) /\ SumSet(S) \in Nat
         /\ SumSet({}) = 0
         /\ \A A, B \in SUBSET (1 .. count) :
              A \cap B = {} => SumSet(A \cup B) = SumSet(A) + SumSet(B)
<1> DEFINE U == 1 .. count
<1>1. IsFiniteSet(U) /\ Numbers \in [U -> Nat]
  BY FS_Interval DEF Numbers
<1>2. \A S \in SUBSET U : SumSet(S) = SumOver(Numbers, S)
  BY SumOfNumbers DEF Numbers
<1> HIDE DEF U
<1>3. AddsUp(Numbers, U)
  BY <1>1, SumOverSplit
<1>4. \A S \in SUBSET U : SumSet(S) \in Nat
  BY <1>2, <1>3 DEF AddsUp
<1>5. SumSet({}) = 0
  BY <1>2, <1>3 DEF AddsUp
<1>6. ASSUME NEW A \in SUBSET U, NEW B \in SUBSET U, A \cap B = {}
      PROVE  SumSet(A \cup B) = SumSet(A) + SumSet(B)
  <2>1. SumOver(Numbers, A \cup B) = SumOver(Numbers, A) + SumOver(Numbers, B)
    BY <1>1, <1>6, SumOverUnion
  <2>2. A \cup B \in SUBSET U
    OBVIOUS
  <2> QED
    BY <1>2, <2>1, <2>2
<1> QED
  BY <1>2, <1>4, <1>5, <1>6 DEF U

(* The sums of the parts add up to the sum of the file.                    *)
LEMMA SumsOfParts ==
  ASSUME Inv, AnswerInv, Sound, server = "waiting", resp = Clients, type # "primes"
  PROVE  MapThenSumSet(LAMBDA p : Result(Lines(p)), resp) = SumSet(Chosen(1 .. count))
<1>1. /\ clients \in Nat \ {0} /\ count \in Nat
      /\ Upto(0) = {} /\ Upto(clients) = 1 .. count
      /\ \A p \in 1 .. clients :
           /\ Upto(p) = Upto(p - 1) \cup Lines(p)
           /\ Upto(p - 1) \cap Lines(p) = {}
  BY LinesOfParts
<1>2. \A p \in Clients : Result(Lines(p)) = SumSet(Chosen(Lines(p)))
  <2>1. type \in {"sum", "prime sum"}
    BY DEF Inv, TypeOK, Kinds
  <2> QED
    BY <2>1 DEF Result, Chosen
<1> DEFINE part == [p \in resp |-> Result(Lines(p))]
<1>3. MapThenSumSet(LAMBDA p : Result(Lines(p)), resp) = SumOver(part, resp)
  <2> DEFINE f == CHOOSE f : f = [s \in SUBSET resp |->
               IF s = {} THEN 0
               ELSE Result(Lines(CHOOSE x \in s : TRUE)) + f[s \ {CHOOSE x \in s : TRUE}]]
  <2>1. MapThenSumSet(LAMBDA p : Result(Lines(p)), resp) = f[resp]
    BY DEF MapThenSumSet, MapThenFoldSet
  <2>2. \A g : Adds(g, resp, part) <=> g = [s \in SUBSET resp |->
               IF s = {} THEN 0
               ELSE Result(Lines(CHOOSE x \in s : TRUE)) + g[s \ {CHOOSE x \in s : TRUE}]]
    <3>1. \A s \in SUBSET resp : s # {} =>
            part[CHOOSE x \in s : TRUE] = Result(Lines(CHOOSE x \in s : TRUE))
      OBVIOUS
    <3> QED
      BY <3>1 DEF Adds
  <2>3. (CHOOSE g : Adds(g, resp, part)) = f
    BY <2>2
  <2> QED
    BY <2>1, <2>3 DEF SumOver
<1>4. \A k \in 0 .. clients : Upto(k) \subseteq 1 .. count
  BY DEF Upto
<1>5. \A p \in 1 .. clients : Lines(p) \subseteq Upto(p)
  BY <1>1
<1>6. /\ Chosen({}) = {}
      /\ \A A, B : Chosen(A \cup B) = Chosen(A) \cup Chosen(B)
      /\ \A A : Chosen(A) \subseteq A
  BY DEF Chosen
<1>7. resp = 1 .. clients
  BY DEF Clients
<1>8. ASSUME NEW p \in 1 .. clients
      PROVE  /\ part[p] \in Nat
             /\ SumSet(Chosen(Upto(p))) = SumSet(Chosen(Upto(p - 1))) + part[p]
  <2>1. part[p] = SumSet(Chosen(Lines(p)))
    BY <1>2, <1>7
  <2>2. p \in 0 .. clients /\ p - 1 \in 0 .. clients
    BY <1>1
  <2>3. /\ Chosen(Upto(p)) = Chosen(Upto(p - 1)) \cup Chosen(Lines(p))
        /\ Chosen(Upto(p - 1)) \cap Chosen(Lines(p)) = {}
        /\ Chosen(Upto(p - 1)) \in SUBSET (1 .. count)
        /\ Chosen(Lines(p)) \in SUBSET (1 .. count)
    <3>1. Upto(p) = Upto(p - 1) \cup Lines(p) /\ Upto(p - 1) \cap Lines(p) = {}
      BY <1>1
    <3>2. Upto(p) \subseteq 1 .. count /\ Upto(p - 1) \subseteq 1 .. count /\ Lines(p) \subseteq Upto(p)
      BY <1>4, <1>5, <2>2
    <3> QED
      BY <1>6, <3>1, <3>2
  <2> DEFINE A == Chosen(Upto(p - 1))
             B == Chosen(Lines(p))
             F == 1 .. count
  <2>4. /\ \A S \in SUBSET F : SumSet(S) \in Nat
        /\ \A C, D \in SUBSET F : C \cap D = {} => SumSet(C \cup D) = SumSet(C) + SumSet(D)
    BY <1>1, SumsInFile
  <2>5. A \in SUBSET F /\ B \in SUBSET F /\ A \cap B = {} /\ Chosen(Upto(p)) = A \cup B
    BY <2>3
  <2>6. part[p] = SumSet(B)
    BY <2>1
  <2> HIDE DEF part, A, B, F
  <2>7. SumSet(A) \in Nat /\ SumSet(B) \in Nat /\ SumSet(A \cup B) = SumSet(A) + SumSet(B)
    BY <2>4, <2>5
  <2>8. part[p] \in Nat /\ SumSet(Chosen(Upto(p))) = SumSet(A) + part[p]
    BY <2>5, <2>6, <2>7
  <2> QED
    BY <2>8 DEF A
<1> DEFINE R == 1 .. clients
<1>9. AddsUp(part, R)
  <2>1. IsFiniteSet(R) /\ part \in [R -> Nat]
    <3>1. IsFiniteSet(R)
      BY <1>1, FS_Interval
    <3>2. \A p \in R : Result(Lines(p)) \in Nat
      BY <1>7, <1>8
    <3> QED
      BY <1>7, <3>1, <3>2
  <2> HIDE DEF R, part
  <2> QED
    BY <2>1, SumOverSplit
<1> HIDE DEF part
<1> DEFINE T == {k \in 0 .. clients : SumOver(part, 1 .. k) = SumSet(Chosen(Upto(k)))}
<1>10. 0 \in T
  <2>1. 1 .. 0 = {} /\ 0 \in 0 .. clients
    BY <1>1
  <2>2. SumOver(part, {}) = 0 /\ SumSet({}) = 0
    BY <1>1, <1>9, SumsInFile DEF AddsUp
  <2> QED
    BY <1>1, <1>6, <2>1, <2>2
<1>11. ASSUME NEW k \in 0 .. clients - 1, k \in T
       PROVE  k + 1 \in T
  <2>1. /\ (1 .. k + 1) \ {k + 1} = 1 .. k /\ k + 1 \in 1 .. k + 1 /\ (k + 1) - 1 = k
        /\ k + 1 \in 1 .. clients /\ k + 1 \in 0 .. clients /\ k \in 0 .. clients
        /\ 1 .. k + 1 \in SUBSET (1 .. clients) /\ 1 .. k \in SUBSET (1 .. clients)
    BY <1>1
  <2>2. SumOver(part, 1 .. k + 1) = part[k + 1] + SumOver(part, (1 .. k + 1) \ {k + 1})
    BY <1>9, <2>1 DEF AddsUp
  <2>3. SumOver(part, 1 .. k + 1) = part[k + 1] + SumOver(part, 1 .. k)
    BY <2>1, <2>2
  <2>4. SumOver(part, 1 .. k) = SumSet(Chosen(Upto(k))) /\ SumOver(part, 1 .. k) \in Nat
    BY <1>9, <1>11, <2>1 DEF AddsUp
  <2>5. SumSet(Chosen(Upto(k + 1))) = SumSet(Chosen(Upto(k))) + part[k + 1] /\ part[k + 1] \in Nat
    BY <1>8, <2>1
  <2>6. SumOver(part, 1 .. k + 1) = SumSet(Chosen(Upto(k + 1)))
    BY <2>3, <2>4, <2>5
  <2> QED
    BY <2>1, <2>6
<1>12. clients \in T
  <2> HIDE DEF T
  <2>1. \A k \in 0 .. clients : k \in T
    BY <1>1, <1>10, <1>11, Induction
  <2> QED
    BY <1>1, <2>1
<1> QED
  BY <1>1, <1>3, <1>7, <1>12
(* The numbers found prime are the primes.                                 *)
LEMMA ChosenPrimes ==
  ASSUME count \in Nat
  PROVE  {n \in 1 .. count : IsPrime(n)} = Primes
<1>1. \A n \in 1 .. count : IsPrime(n) <=> Cardinality(Divisors(n)) = 2
  BY TwoDivisors
<1> QED
  BY <1>1 DEF Primes

(* The primes of the parts are those of the file, when they are printed    *)
(* whole.                                                                  *)
LEMMA PrimesOfParts ==
  ASSUME Inv, AnswerInv, Sound, server = "waiting", resp = Clients, type = "primes",
         count < Word
  PROVE  UNION {Result(Lines(p)) : p \in resp} = Primes
<1>1. /\ clients \in Nat \ {0} /\ count \in Nat
      /\ Upto(0) = {} /\ Upto(clients) = 1 .. count
      /\ \A p \in 1 .. clients : Upto(p) = Upto(p - 1) \cup Lines(p)
  BY LinesOfParts
<1>2. \A k \in 0 .. clients : Upto(k) \subseteq 1 .. count
  BY DEF Upto
<1>3. ASSUME NEW p \in 1 .. clients
      PROVE  Lines(p) \subseteq 1 .. count
  <2>1. p \in 0 .. clients
    BY <1>1
  <2> QED
    BY <1>1, <1>2, <2>1
<1>4. \A n \in 1 .. count : n % Word = n
  BY <1>1, SizesAssumption
<1>5. ASSUME NEW p \in 1 .. clients
      PROVE  Result(Lines(p)) = {n \in Lines(p) : IsPrime(n)}
  <2>1. Result(Lines(p)) = {n % Word : n \in {m \in Lines(p) : IsPrime(m)}}
    BY DEF Result, Written
  <2>2. \A n \in {m \in Lines(p) : IsPrime(m)} : n % Word = n
    BY <1>3, <1>4
  <2> QED
    BY <2>1, <2>2
<1> DEFINE T == {k \in 0 .. clients : \A n \in Upto(k) : \E p \in 1 .. clients : n \in Lines(p)}
<1>6. 0 \in T
  BY <1>1
<1>7. ASSUME NEW k \in 0 .. clients - 1, k \in T
      PROVE  k + 1 \in T
  <2>1. k + 1 \in 1 .. clients /\ k + 1 \in 0 .. clients /\ (k + 1) - 1 = k
    BY <1>1
  <2>2. Upto(k + 1) = Upto(k) \cup Lines(k + 1)
    BY <1>1, <2>1
  <2> QED
    BY <1>7, <2>1, <2>2
<1>8. clients \in T
  <2> HIDE DEF T
  <2>1. \A k \in 0 .. clients : k \in T
    BY <1>1, <1>6, <1>7, Induction
  <2> QED
    BY <1>1, <2>1
<1>9. \A n \in 1 .. count : \E p \in 1 .. clients : n \in Lines(p)
  BY <1>1, <1>8
<1>10. UNION {Result(Lines(p)) : p \in resp} = {n \in 1 .. count : IsPrime(n)}
  <2>1. resp = 1 .. clients
    BY DEF Clients
  <2>2. ASSUME NEW n \in UNION {Result(Lines(p)) : p \in resp}
        PROVE  n \in 1 .. count /\ IsPrime(n)
    <3>1. PICK p \in 1 .. clients : n \in Result(Lines(p))
      BY <2>1, <2>2
    <3> QED
      BY <1>3, <1>5, <3>1
  <2>3. ASSUME NEW n \in 1 .. count, IsPrime(n)
        PROVE  n \in UNION {Result(Lines(p)) : p \in resp}
    <3>1. PICK p \in 1 .. clients : n \in Lines(p)
      BY <1>9
    <3>2. n \in Result(Lines(p))
      BY <1>5, <2>3, <3>1
    <3> QED
      BY <2>1, <3>2
  <2> QED
    BY <2>2, <2>3
<1> QED
  BY <1>1, <1>10, ChosenPrimes

(* What the moderator finds is what the task asks of the file.             *)
LEMMA AnswerRight ==
  ASSUME Inv, AnswerInv, Answer
  PROVE  AnswerInv'
<1>1. /\ server = "waiting" /\ resp = Clients /\ server' = "answered"
      /\ UNCHANGED <<format, type, count, tail, clients, tree, bounds, resp>>
      /\ count \in Nat /\ type \in Kinds
  BY SizesAssumption DEF Answer, Inv, TypeOK, file, cutting
<1>2. Cut' = Cut /\ Expected' = Expected /\ Sound' = Sound
  BY <1>1 DEF Cut, Expected, Primes, Sound, AllMeasured
<1>3. CASE type = "primes"
  <2>1. answer' = UNION {Result(Lines(p)) : p \in resp}
    BY <1>3 DEF Answer
  <2>2. count < Word /\ Sound => answer' = Expected
    BY <1>1, <1>3, <2>1, PrimesOfParts DEF Expected
  <2> QED
    BY <1>1, <1>2, <1>3, <2>2 DEF AnswerInv
<1>4. CASE type # "primes"
  <2>1. answer' = MapThenSumSet(LAMBDA p : Result(Lines(p)), resp)
    BY <1>4 DEF Answer
  <2>2. Sound => answer' = SumSet(Chosen(1 .. count))
    BY <1>1, <1>4, <2>1, SumsOfParts
  <2>3. SumSet(Chosen(1 .. count)) = Expected
    <3>1. CASE type = "sum"
      BY <1>1, <3>1, SumOfInterval DEF Expected, Chosen
    <3>2. CASE type = "prime sum"
      <4>1. Chosen(1 .. count) = Primes
        BY <1>1, <3>2, ChosenPrimes DEF Chosen
      <4> QED
        BY <3>2, <4>1 DEF Expected
    <3> QED
      BY <1>1, <1>4, <3>1, <3>2 DEF Kinds
  <2> QED
    BY <1>1, <1>2, <2>2, <2>3 DEF AnswerInv
<1> QED
  BY <1>3, <1>4

(* The group finds what the task asks of the whole file, for files,        *)
(* reports and capabilities of any size, in whatever order the results     *)
(* come and whoever takes over a part: what moderator_send_task_response_  *)
(* to_server adds up or collects is the sum or the primes of the file, and *)
(* trial division up to the root finds the numbers with two divisors.      *)
THEOREM AnswerCorrect == Spec => []AnswerIsRight
<1>1. Init => AnswerInv
  <2> SUFFICES ASSUME Init
               PROVE  AnswerInv
    OBVIOUS
  <2>1. 0 \in 0 .. clients
    BY InitType, CutInRange
  <2> QED
    BY <2>1 DEF Init, AnswerInv
<1>2. ASSUME Inv, AnswerInv, [Next]_vars
      PROVE  AnswerInv'
  <2>1. CASE Answer
    BY <1>2, <2>1, AnswerRight
  <2>2. CASE CutPart
    <3>1. /\ server' \in {"cutting", "ended"} /\ UNCHANGED <<file, resp>>
          /\ round \in Nat \ {0} /\ clients \in Nat
          /\ bounds \in [0 .. clients -> 0 .. MaxLines + 1]
      <4>1. server' \in {"cutting", "ended"} /\ UNCHANGED <<file, resp>>
        BY <2>2 DEF CutPart, work
      <4>2. clients \in Nat /\ round \in 1 .. clients + 1
        BY <1>2, CutInRange DEF Inv, TypeOK
      <4>3. bounds \in [0 .. clients -> 0 .. MaxLines + 1]
        BY <1>2 DEF Inv, TypeOK
      <4> QED
        BY <4>1, <4>2, <4>3
    <3>2. Cut' = Cut
      BY <3>1 DEF Cut, file
    <3>3. bounds'[0] = bounds[0]
      BY <2>2, <3>1 DEF CutPart
    <3> QED
      BY <1>2, <3>1, <3>2, <3>3 DEF AnswerInv
  <2>3. ASSUME NEW p \in Clients, Compute(p)
        PROVE  AnswerInv'
    <3>1. /\ server' = "waiting" /\ UNCHANGED <<file, cutting>>
          /\ resp' = resp \/ (resp' = resp \cup {p} /\ ~ (p > Cut))
      BY <2>3 DEF Compute, HasPart
    <3>2. Cut' = Cut /\ bounds' = bounds
      BY <3>1 DEF Cut, file, cutting
    <3>3. p \in Nat \ {0} /\ Cut \in Nat
      <4>1. clients \in Nat \ {0} /\ Cut \in 0 .. clients
        BY <1>2, CutInRange DEF Inv
      <4> QED
        BY <4>1 DEF Clients
    <3>4. resp' \subseteq 1 .. Cut
      <4>1. ~ (p > Cut) => p \in 1 .. Cut
        BY <3>3
      <4> QED
        BY <1>2, <3>1, <4>1 DEF AnswerInv
    <3> QED
      BY <1>2, <3>1, <3>2, <3>4 DEF AnswerInv
  <2>4. CASE \/ UNCHANGED vars \/ Distribute \/ Measure \/ Measured \/ CutDone
             \/ HandOut \/ Collect
             \/ \E c \in Clients : Leave(c) \/ Die(c)
             \/ \E p \in Clients : Reassign(p)
    <3>1. /\ UNCHANGED <<file, bounds, resp, answer>>
          /\ UNCHANGED tree \/ server' = "start"
          /\ server' \in {"answered", "written"} => server \in {"answered", "written"}
      BY <2>4 DEF vars, Distribute, Measure, Measured, CutDone, HandOut, Collect,
                  Leave, Die, Reassign, cutting, work, outcome
    <3>2. /\ Cut' = Cut /\ Expected' = Expected /\ count' = count /\ type' = type
          /\ Sound' = Sound \/ server' = "start"
      BY <3>1 DEF Cut, Expected, Primes, file, Sound, AllMeasured
    <3> QED
      BY <1>2, <3>1, <3>2 DEF AnswerInv
  <2> QED
    BY <1>2, <2>1, <2>2, <2>3, <2>4 DEF Next
<1>3. AnswerInv => AnswerIsRight
  BY DEF AnswerInv, AnswerIsRight, Sound
<1> QED
  BY <1>1, <1>2, <1>3, InvAlways, PTL DEF Spec
=============================================================================
