------------------------------ MODULE TaskData ------------------------------
(***************************************************************************)
(* The data of one task: how the server cuts the task file into parts by   *)
(* the capability of the clients, what a client computes of its part, and  *)
(* how the results become the answer.  Which client gets which part after  *)
(* a death is TaskRun's concern: here some living client takes it over.    *)
(*                                                                         *)
(* The clients are numbered in the order of the moderator's report, and    *)
(* line i of the file holds the number i.  A part is an interval of lines: *)
(* those after bounds[p - 1] up to bounds[p].  In a structured file every  *)
(* line has 11 bytes, and the cut does not look for the end of the file.   *)
(***************************************************************************)
EXTENDS Integers, FiniteSets, FiniteSetsExt

CONSTANTS
  MaxClients,     \* clients in the report (a bound)
  MaxLines,       \* counted lines of the file (a bound)
  MaxCapability,  \* generate_random_capability gives 1 to this
  Garbage,        \* what an uninitialised capability may be (a bound)
  Tenth,          \* progress is printed at every tenth of a part
  Word,           \* numbers are printed modulo 2^32
  Wide,           \* shares are computed modulo 2^32 (small in the runs)
  MaxDeaths       \* processes that end for other reasons (a bound)

ASSUME SizesAssumption ==
  /\ MaxClients \in Nat /\ MaxLines \in Nat /\ MaxDeaths \in Nat
  /\ MaxCapability \in Nat \ {0} /\ Tenth \in Nat \ {0} /\ Word \in Nat \ {0}
  /\ Garbage \subseteq Nat
  /\ Wide \in Nat /\ MaxLines + 1 < Wide /\ MaxCapability * MaxLines < Wide

VARIABLES
  format,      \* "unstructured" or "structured"
  type,        \* "primes", "sum" or "prime sum"
  count,       \* the lines wc -l counts
  tail,        \* TRUE when one more line follows that no newline ends
  clients,     \* client_id_count of the report
  tree,        \* the capability of a client in the tree, 0 without a node
  server,      \* what the server is doing, "ended" when its process has
  round,       \* the index of its loop
  totals,      \* capability_total as it was after each round
  weight,      \* task_set->capability
  remaining,   \* remaining_count
  bounds,      \* start_index, in lines, after each round
  holder,      \* the client each part is with, 0 when with none
  living,      \* the clients whose process runs
  deaths,      \* processes that ended for other reasons
  resp,        \* the parts whose result the moderator has
  stored,      \* result files at the moderator, with their folder
  answer,      \* what the group has found
  fetched      \* the parts whose result file reached the server

file == <<format, type, count, tail, clients>>
cutting == <<round, totals, weight, remaining, bounds>>
work == <<holder, living, deaths, resp, stored>>
outcome == <<answer, fetched>>
vars == <<file, tree, server, cutting, work, outcome>>

Formats == {"unstructured", "structured"}
Kinds == {"primes", "sum", "prime sum"}
Clients == 1 .. clients
End == IF tail THEN count + 1 ELSE count

(* The clients a part is cut for, and the entries of distribution_map.     *)
Cut == IF clients >= count THEN count \div 2 ELSE clients

TypeOK ==
  /\ format \in Formats /\ type \in Kinds
  /\ count \in 0 .. MaxLines /\ tail \in BOOLEAN
  /\ clients \in 1 .. MaxClients
  /\ tree \in [Clients -> 0 .. MaxCapability]
  /\ server \in {"start", "measuring", "cutting", "handing", "waiting",
                 "answered", "written", "ended"}
  /\ round \in 1 .. clients + 1
  /\ totals \in [0 .. clients -> Nat] /\ weight \in [Clients -> Nat]
  /\ remaining \in 0 .. Wide - 1 /\ bounds \in [0 .. clients -> 0 .. MaxLines + 1]
  /\ holder \in [Clients -> 0 .. clients] /\ living \subseteq Clients
  /\ deaths \in 0 .. MaxDeaths
  /\ resp \subseteq Clients
  /\ fetched \subseteq Clients

(* ------------------------- what a client computes --------------------- *)

(* Bug: the root itself is not tried.                                      *)
IsPrime_Open(n) == n >= 2 /\ \A j \in 2 .. n : j * j < n => n % j # 0

(* is_prime: trial division up to the root.                                *)
IsPrime(n) == n >= 2 /\ \A j \in 2 .. n : j * j <= n => n % j # 0

(* The numbers are unsigned long and printed as unsigned.                  *)
Written(numbers) == {n % Word : n \in numbers}

(* The lines of a part that end in a newline: those get_task_count counts. *)
Lines(p) == {l \in bounds[p - 1] + 1 .. bounds[p] : l <= count}
Size(p) == Cardinality(Lines(p))

Result(numbers) ==
  CASE type = "primes"    -> Written({n \in numbers : IsPrime(n)})
    [] type = "sum"       -> SumSet(numbers)
    [] type = "prime sum" -> SumSet({n \in numbers : IsPrime(n)})

(* The progress is printed when i % x = 0, with x a tenth of the part: a   *)
(* division by zero in the first round, when the part is shorter.          *)
Traps(p) == Size(p) > 0 /\ Size(p) \div Tenth = 0

(* --------------------------------- actions ---------------------------- *)

Init ==
  /\ format \in Formats /\ type \in Kinds
  /\ count \in 0 .. MaxLines /\ tail \in BOOLEAN
  /\ clients \in 1 .. MaxClients
  /\ tree \in [Clients -> 1 .. MaxCapability]
  /\ server = "start" /\ round = 1
  /\ totals = [i \in 0 .. clients |-> 0]
  /\ weight = [i \in Clients |-> 0]
  /\ remaining = count
  /\ bounds = [i \in 0 .. clients |-> 0]
  /\ holder = [p \in Clients |-> 0] /\ living = Clients /\ deaths = 0
  /\ resp = {} /\ stored = {} /\ answer = {} /\ fetched = {}

(* A client leaves the group after the moderator has heard it: it is in    *)
(* the report and no longer in the tree, and takes no task request.        *)
Leave(c) ==
  /\ server = "start" /\ c \in living /\ living # {c}
  /\ tree' = [tree EXCEPT ![c] = 0] /\ living' = living \ {c}
  /\ UNCHANGED <<file, server, cutting, holder, deaths, resp, stored, outcome>>

(* mcast_start_task_distribution: an empty file changes nothing.           *)
Distribute ==
  /\ server = "start" /\ count # 0
  /\ server' = "measuring"
  /\ UNCHANGED <<file, tree, cutting, work, outcome>>

(* One round of get_data_set_for_client_based_on_capability.  Without a    *)
(* node the entry keeps what the memory held.                              *)
Measure ==
  /\ server = "measuring" /\ round <= Cut
  /\ round' = round + 1
  /\ totals' = [totals EXCEPT ![round] = totals[round - 1] + tree[round]]
  /\ \E w \in IF tree[round] = 0 THEN Garbage ELSE {tree[round]} :
       weight' = [weight EXCEPT ![round] = w]
  /\ UNCHANGED <<file, tree, server, remaining, bounds, work, outcome>>

Measured ==
  /\ server = "measuring" /\ round > Cut
  /\ server' = "cutting" /\ round' = 1
  /\ UNCHANGED <<file, tree, totals, weight, remaining, bounds, work, outcome>>

Total == totals[Cut]
(* Bug: the lines of one unit of capability are rounded first.             *)
Share_Rounded(i) == (weight[i] * (count \div Total)) % Wide

(* A product of unsigned numbers.                                          *)
Share(i) == ((weight[i] * count) % Wide) \div Total

(* Bug: what rounding leaves over is not handed out.                       *)
DataCount_NoRest(i) == Share(i)

(* The last client gets its share and all that is left after it.           *)
DataCount(i) == IF i = Cut THEN remaining ELSE Share(i)

(* Bug: the scan does not look for the end of the file.                    *)
Stop_Beyond(i) == bounds[i - 1] + DataCount(i)

(* Where the scan for data_count newlines stops: at the end of the file at *)
(* the latest.  11 bytes a line are copied without a look at the end.      *)
Stop(i) ==
  LET upto == bounds[i - 1] + DataCount(i)
  IN  IF format = "unstructured" /\ upto > End THEN End ELSE upto

(* Past the last whole line of a structured file the copy leaves the       *)
(* mapping: the server is killed, or the part goes on with bytes that are  *)
(* not the file's.  A share that is too large for the file may also wrap   *)
(* when it is multiplied by 11: such a part ends anywhere.                 *)
Torn(i) == format = "structured" /\ Stop(i) > count
Stops(i) == IF Torn(i) THEN bounds[i - 1] .. MaxLines + 1 ELSE {Stop(i)}

(* One round of create_task_sets_per_client.  Without a capability the     *)
(* division ends the server, and so does a mapping of no bytes.            *)
CutPart ==
  /\ server = "cutting" /\ round <= Cut
  /\ \/ /\ Total # 0 => bounds[round - 1] \in Stops(round)
        /\ server' = "ended"
        /\ UNCHANGED <<round, remaining, bounds>>
     \/ /\ Total # 0
        /\ \E stop \in Stops(round) \ {bounds[round - 1]} :
             bounds' = [bounds EXCEPT ![round] = stop]
        /\ round' = round + 1
        /\ remaining' = (remaining - Share(round)) % Wide
        /\ UNCHANGED server
  /\ UNCHANGED <<file, tree, totals, weight, work, outcome>>

CutDone ==
  /\ server = "cutting" /\ round > Cut
  /\ server' = "handing"
  /\ UNCHANGED <<file, tree, cutting, work, outcome>>

(* The rest of mcast_start_task_distribution walks over all clients of the *)
(* report.  Past the end of the map there is no file name: the server ends *)
(* or sends one that is no file's.                                         *)
HandOut ==
  /\ server = "handing"
  /\ \/ /\ server' = "waiting"
        /\ holder' = [p \in Clients |-> p]
     \/ /\ Cut < clients
        /\ server' = "ended" /\ UNCHANGED holder
  /\ UNCHANGED <<file, tree, cutting, living, deaths, resp, stored, outcome>>

(* execute_task on a part.  The client ends when it cannot open the file   *)
(* and when it divides by zero; otherwise the moderator gets the result.   *)
HasPart(p) == server = "waiting" /\ holder[p] \in living /\ p \notin resp

Compute(p) ==
  /\ HasPart(p)
  /\ IF p > Cut \/ Traps(p)
     THEN living' = living \ {holder[p]} /\ UNCHANGED resp
     ELSE resp' = resp \cup {p} /\ UNCHANGED living
  /\ UNCHANGED <<file, tree, server, cutting, holder, deaths, stored, outcome>>

Die(c) ==
  /\ server = "waiting" /\ c \in living /\ deaths < MaxDeaths
  /\ deaths' = deaths + 1 /\ living' = living \ {c}
  /\ UNCHANGED <<file, tree, server, cutting, holder, resp, stored, outcome>>

(* The moderator reports a dead client, and its part goes to another one.  *)
(* The server follows the tree node of the dead one without a test.        *)
Reassign(p) ==
  /\ server = "waiting" /\ holder[p] \notin living /\ p \notin resp
  /\ living # {}
  /\ IF tree[holder[p]] = 0
     THEN server' = "ended" /\ UNCHANGED holder
     ELSE /\ \E c \in living : holder' = [holder EXCEPT ![p] = c]
          /\ UNCHANGED server
  /\ UNCHANGED <<file, tree, cutting, living, deaths, resp, stored, outcome>>

(* moderator_send_task_response_to_server: files are collected in a folder *)
(* that is named after the group and the time, sums are added up.          *)
Answer ==
  /\ server = "waiting" /\ living # {} /\ resp = Clients
  /\ server' = "answered"
  /\ IF type = "primes"
     THEN /\ answer' = UNION {Result(Lines(p)) : p \in resp}
          /\ stored' = {[folder |-> "group/time", part |-> p] : p \in Clients}
     ELSE /\ answer' = MapThenSumSet(LAMBDA p : Result(Lines(p)), resp)
          /\ UNCHANGED stored
  /\ UNCHANGED <<file, tree, cutting, holder, living, deaths, resp, fetched>>

(* collect_task_results asks for each file by its name in the folder of    *)
(* the group; whether the copy succeeds is not looked at.                  *)
Collect ==
  /\ server = "answered" /\ type = "primes"
  /\ server' = "written"
  /\ fetched' = {f.part : f \in {g \in stored : g.folder = "group"}}
  /\ UNCHANGED <<file, tree, cutting, work, answer>>

Next ==
  \/ \E c \in Clients : Leave(c)
  \/ Distribute
  \/ Measure
  \/ Measured
  \/ CutPart
  \/ CutDone
  \/ HandOut
  \/ \E p \in Clients : Compute(p)
  \/ \E c \in Clients : Die(c)
  \/ \E p \in Clients : Reassign(p)
  \/ Answer
  \/ Collect

Spec == Init /\ [][Next]_vars

(* -------------------------------- properties -------------------------- *)

HandedOut == server \in {"handing", "waiting", "answered", "written"}

(* Nobody in the part of the report that is cut for has left.              *)
AllMeasured == \A c \in 1 .. Cut : tree[c] # 0

(* The parts that create_task_sets_per_client hands out hold every counted *)
(* line, each exactly once, none is empty and none leaves the file: of an  *)
(* unstructured file whatever the capabilities are, those of clients that  *)
(* left included; of a structured file only when nobody has left, because  *)
(* the shares then add up to the file.  (Of a single line no part is cut.) *)
PartsAreTheFile ==
  HandedOut /\ Cut > 0 /\ (format = "unstructured" \/ AllMeasured) =>
    /\ \A l \in 1 .. count : \E p \in 1 .. Cut :
         l \in bounds[p - 1] + 1 .. bounds[p]
    /\ \A p \in 1 .. Cut : bounds[p - 1] < bounds[p]
    /\ bounds[Cut] <= End

(* What a prime is, a sum and a sum of primes, without the program.        *)
Divisors(n) == {d \in 1 .. n : \E e \in 1 .. n : d * e = n}
Primes == {n \in 1 .. count : Cardinality(Divisors(n)) = 2}
Expected ==
  CASE type = "primes"    -> Primes
    [] type = "sum"       -> (count * (count + 1)) \div 2
    [] type = "prime sum" -> SumSet(Primes)

(* The group finds what the task asks of the whole file, however the file  *)
(* was cut, in whatever order the results come, and whoever takes over a   *)
(* part of a dead client (find_prime_numbers, find_sum, find_prime_sum and *)
(* moderator_send_task_response_to_server).  Primes that do not fit into   *)
(* 32 bits are not printed whole, and sums are claimed without deaths: a   *)
(* part may be counted twice after one, as TaskRun shows.  Of a structured *)
(* file it is claimed when the capability of everybody was known.          *)
AnswerIsRight ==
  /\ server \in {"answered", "written"}
  /\ count < Word \/ type # "primes"
  /\ living = Clients \/ type = "primes"
  /\ format = "unstructured" \/ AllMeasured
  => answer = Expected

(* A file that is long enough for the weakest client, and a report of      *)
(* clients that are all there.                                             *)
Ample ==
  /\ count > clients
  /\ \A c \in Clients :
       tree[c] * count >= Tenth * SumFunctionOnSet(tree, Clients)

(* No process ends by the arithmetic of the parts: the server neither      *)
(* divides by zero nor maps an empty file, nor does it look past the end   *)
(* of the map, and no client divides by a tenth of a part that is zero.    *)
AmpleFilesAreSafe ==
  Ample => /\ server # "ended"
           /\ Cardinality(Clients \ living) <= deaths
=============================================================================
