--------------------------- MODULE ModeratorLists ---------------------------
(***************************************************************************)
(* The two lists of a moderator, pointer by pointer, and the threads that  *)
(* use them: the main loop (datagrams), the timer's handler, which runs on *)
(* the main thread whenever the signals are not ignored, and the worker    *)
(* threads that compute the moderator's own parts.  TaskRun takes the      *)
(* pending list to be a sequence and a handler to be one step.             *)
(*                                                                         *)
(* A list is an anchor whose prev is the first and whose next is the last  *)
(* element.  Results are files, and a file that is in the response already *)
(* is refused; what becomes of sums, which are not compared, is TaskRun's. *)
(* When two threads are in the lists at once, anything may become of them: *)
(* such a state has no successor.                                          *)
(***************************************************************************)
EXTENDS Integers, Sequences, FiniteSets, FiniteSetsExt, SequencesExt

CONSTANTS
  Client,      \* the clients of the group
  Self,        \* the one that moderates
  Worker,      \* its worker threads, as many as it gets parts (a bound)
  Cell,        \* memory for mod_client_node_t, numbered (a bound)
  Pending,     \* the anchors of the two lists
  Done,
  Null,        \* no node
  TaskLists,   \* what a task request may name: sequences of clients
  Intervention \* what else may free the moderator: of "cleanup", "update"

ASSUME ClientsAssumption ==
  Self \in Client /\ TaskLists \subseteq Seq(Client) \ {<<>>}
ASSUME MemoryAssumption ==
  /\ Cell \subseteq Nat /\ IsFiniteSet(Cell) /\ Null \notin Cell \cup Client
  /\ Pending # Done /\ {Pending, Done} \cap (Cell \cup {Null}) = {}
ASSUME WorkersAssumption ==
  /\ IsFiniteSet(Worker) /\ {"main", "timer"} \cap Worker = {}
  /\ Null \notin Worker \cup {"main", "timer"}

VARIABLES
  role,      \* "new"; "up" from the first task request on; then "sent", when
             \* it is freed with its answer, or "freed", when it had to stop
  next,      \* of every node and anchor
  prev,
  length,    \* of each list
  id,        \* peer_client_id of each node, Null when it is not allocated
  refs,      \* ref_count of each node
  resp,      \* num_clients of the response that is being collected
  expected,  \* expected_responses
  alone,     \* TRUE when the timer is CLIENT_TIMEOUT: nobody else works
  lock,      \* the thread that has the mutex, Null when it is free
  ignored,   \* TRUE while SIG_IGN is set for the process
  pc,        \* where each thread is
  arg,       \* the client whose result a thread has in hand
  file,      \* and the part it is the result of
  todo,      \* the clients the main loop has yet to enter
  at,        \* the node the handler has come to
  meant,     \* history: the lists as sequences
  asked,     \* history: the clients of the first request, one for each part
  given,     \* history: <<client, part>>, what others were asked for
  answered,  \* history: the parts in the response
  gone,      \* history: the clients that were given up
  handed,    \* history: how many parts clients were asked for
  refused,   \* history: how many results were of a part answered before
  dropped    \* history: how many parts clients had that were given up

lists == <<next, prev, length, id, refs, meant>>
counts == <<resp, expected, alone, asked, given, answered, gone, handed, refused,
            dropped>>
threads == <<lock, ignored, pc, arg, file, todo, at>>
vars == <<role, lists, counts, threads>>

List == {Pending, Done}
Thread == {"main", "timer"} \cup Worker

(* Types; a list is never longer than the memory it is made of.            *)
TypeOK ==
  /\ role \in {"new", "up", "sent", "freed"}
  /\ next \in [Cell \cup List -> Cell \cup {Null}]
  /\ prev \in [Cell \cup List -> Cell \cup {Null}]
  /\ length \in [List -> 0 .. Cardinality(Cell)]
  /\ id \in [Cell -> Client \cup {Null}] /\ refs \in [Cell -> Nat]
  /\ resp \in Nat /\ expected \in Nat /\ alone \in BOOLEAN
  /\ lock \in Thread \cup {Null} /\ ignored \in BOOLEAN
  /\ pc \in [Thread -> {"idle", "task", "hired", "working", "check", "wait",
                        "update", "collected", "send", "walk", "cleanup", "push",
                        "retire"}]
  /\ arg \in [Thread -> Client] /\ file \in [Thread -> Nat] /\ todo \in Seq(Client)
  /\ at \in Cell \cup {Null}

(* Inside the lists: two threads that are there disturb each other.        *)
Inside(t) == pc[t] \in {"task", "update", "send", "walk", "push", "retire"}
Overlap == \E t, u \in Thread : t # u /\ Inside(t) /\ Inside(u)

(* ------------------------------- the lists ---------------------------- *)

(* The nodes met from e on along a link; a ring is left after one node     *)
(* more than there is memory for.                                          *)
Along(link, e) ==
  LET Most == Cardinality(Cell) + 1
      met[n \in 1 .. Most] == IF n = 1 THEN e
                              ELSE IF met[n - 1] = Null THEN Null ELSE link[met[n - 1]]
  IN  SubSeq(met, 1, Cardinality({n \in 1 .. Most : met[n] # Null}))

(* Nodes of a list from the first one on.                                  *)
Elements(l) == Along(next, prev[l])

(* get_client_from_moderator_pending_list                                  *)
Found(c) ==
  LET i == SelectInSeq(Elements(Pending), LAMBDA e : id[e] = c)
  IN  IF i = 0 THEN Null ELSE Elements(Pending)[i]

(* SN_LIST_ELEMENT_UNLINK and SN_LIST_ELEMENT_INSERT_BEFORE the head, on   *)
(* the pointers m = [next, prev, length].                                  *)
Memory == [next |-> next, prev |-> prev, length |-> length]

(* Bug: the other list is counted down.                                    *)
Unlinked_Other(m, l, e) ==
  LET p == m.prev[e]
      n == m.next[e]
      a == IF p # Null THEN [m EXCEPT !.next[p] = n] ELSE [m EXCEPT !.prev[l] = n]
      b == IF n # Null THEN [a EXCEPT !.prev[n] = p] ELSE [a EXCEPT !.next[l] = p]
  IN  [b EXCEPT !.next[e] = Null, !.prev[e] = Null,
                !.length = [k \in List |-> IF k = l THEN @[k] ELSE @[k] - 1]]

(* Bug: the last element is not looked after.                              *)
Unlinked_Last(m, l, e) ==
  LET p == m.prev[e]
      n == m.next[e]
      a == IF p # Null THEN [m EXCEPT !.next[p] = n] ELSE [m EXCEPT !.prev[l] = n]
      b == IF n # Null THEN [a EXCEPT !.prev[n] = p] ELSE a
  IN  [b EXCEPT !.next[e] = Null, !.prev[e] = Null, !.length[l] = @ - 1]

Unlinked(m, l, e) ==
  LET p == m.prev[e]
      n == m.next[e]
      a == IF p # Null THEN [m EXCEPT !.next[p] = n] ELSE [m EXCEPT !.prev[l] = n]
      b == IF n # Null THEN [a EXCEPT !.prev[n] = p] ELSE [a EXCEPT !.next[l] = p]
  IN  [b EXCEPT !.next[e] = Null, !.prev[e] = Null, !.length[l] = @ - 1]

Inserted(m, l, e) ==
  LET h == m.prev[l]
      a == [m EXCEPT !.prev[e] = Null, !.next[e] = h, !.prev[l] = e]
      b == IF h # Null THEN [a EXCEPT !.prev[h] = e] ELSE [a EXCEPT !.next[l] = e]
  IN  [b EXCEPT !.length[l] = @ + 1]

Becomes(m) == next' = m.next /\ prev' = m.prev /\ length' = m.length

(* ------------------------------ the threads --------------------------- *)

Init ==
  /\ role = "new"
  /\ next = [e \in Cell \cup List |-> Null] /\ prev = next
  /\ length = [l \in List |-> 0]
  /\ id = [e \in Cell |-> Null] /\ refs = [e \in Cell |-> 0]
  /\ resp = 0 /\ expected = 0 /\ alone = FALSE
  /\ lock = Null /\ ignored = FALSE
  /\ pc = [t \in Thread |-> "idle"] /\ arg = [t \in Thread |-> Self]
  /\ file = [t \in Thread |-> 0] /\ todo = <<>> /\ at = Null
  /\ meant = [l \in List |-> <<>>] /\ asked = <<>> /\ given = {} /\ answered = {}
  /\ gone = {} /\ handed = 0 /\ refused = 0 /\ dropped = 0

(* Where a thread is that can run; the handler interrupts the main thread. *)
At(t, where) ==
  ~Overlap /\ pc[t] = where /\ (t = "main" => pc["timer"] = "idle")

Goes(t, where) == pc' = [pc EXCEPT ![t] = where]

(* A thread is done; the main loop enables the signals again.              *)
Ends(t) == Goes(t, "idle") /\ ignored' = (t # "main" /\ ignored)
Releases(t) == lock' = IF lock = t THEN Null ELSE lock

(* A request for parts: a thread for each of its own, the rest is others'. *)
Given(ids, parts) ==
  /\ \E W \in SUBSET {w \in Worker : pc[w] = "idle"} :
       \E h \in Bijection(W, {i \in DOMAIN ids : ids[i] = Self}) :
         /\ pc' = [t \in Thread |-> IF t \in W THEN "hired"
                                    ELSE IF t = "main" THEN "task" ELSE pc[t]]
         /\ arg' = [t \in Thread |-> IF t \in W THEN Self ELSE arg[t]]
         /\ file' = [t \in Thread |-> IF t \in W THEN parts[h[t]] ELSE file[t]]
  /\ given' = given \cup {<<ids[i], parts[i]>> : i \in {j \in DOMAIN ids : ids[j] # Self}}

(* The parts that may be given again: all that were a client's that was    *)
(* given up, those it has answered and those another has answered since.   *)
Again == {p \in 1 .. expected : asked[p] \in gone}

(* A task request: the first says how many results to expect; a later one, *)
(* after a client was reported dead, has parts that are given again.       *)
RcvTask(ids) ==
  /\ At("main", "idle") /\ handed + Len(ids) <= Cardinality(Cell)
  /\ \/ /\ role = "new" /\ Given(ids, [i \in DOMAIN ids |-> i])
        /\ expected' = Len(ids) /\ alone' = (ids = <<Self>>) /\ asked' = ids
     \/ /\ role = "up" /\ \E parts \in [DOMAIN ids -> Again] : Given(ids, parts)
        /\ UNCHANGED <<expected, alone, asked>>
  /\ role' = "up" /\ ignored' = TRUE /\ todo' = ids
  /\ UNCHANGED <<lists, resp, answered, gone, handed, refused, dropped, lock, at>>

(* One client of the request: a new node, or one more part for its node.   *)
Track ==
  /\ At("main", "task") /\ todo # <<>>
  /\ todo' = Tail(todo) /\ handed' = handed + 1
  /\ LET c == Head(todo) IN
     IF Found(c) = Null
     THEN LET e == Min({f \in Cell : id[f] = Null}) IN
          /\ id' = [id EXCEPT ![e] = c] /\ refs' = [refs EXCEPT ![e] = 1]
          /\ Becomes(Inserted(Memory, Pending, e))
          /\ meant' = [meant EXCEPT ![Pending] = <<e>> \o @]
     ELSE /\ refs' = [refs EXCEPT ![Found(c)] = @ + 1]
          /\ UNCHANGED <<next, prev, length, id, meant>>
  /\ UNCHANGED <<role, resp, expected, alone, asked, given, answered, gone, refused,
                 dropped, lock, ignored, pc, arg, file, at>>

(* The rest of the request: a thread for every part of its own.            *)
TaskDone ==
  /\ At("main", "task") /\ todo = <<>>
  /\ pc' = [t \in Thread |-> IF t = "main" THEN "idle"
                             ELSE IF pc[t] = "hired" THEN "working" ELSE pc[t]]
  /\ ignored' = FALSE
  /\ UNCHANGED <<role, lists, counts, lock, arg, file, todo, at>>

(* A result comes in, of a part its sender was asked for and as often as   *)
(* it likes, or a part of its own is computed or cannot be.                *)
RcvResult(c, p) ==
  /\ At("main", "idle") /\ <<c, p>> \in given
  /\ arg' = [arg EXCEPT !["main"] = c] /\ file' = [file EXCEPT !["main"] = p]
  /\ Goes("main", "check") /\ ignored' = TRUE
  /\ UNCHANGED <<role, lists, counts, lock, todo, at>>

Computed(w) ==
  /\ At(w, "working") /\ pc' \in {[pc EXCEPT ![w] = p] : p \in {"check", "idle"}}
  /\ UNCHANGED <<role, lists, counts, lock, ignored, arg, file, todo, at>>

(* Is there still a moderator to tell?                                     *)
Check(t) ==
  /\ At(t, "check")
  /\ IF role = "up" THEN Goes(t, "wait") /\ UNCHANGED ignored ELSE Ends(t)
  /\ UNCHANGED <<role, lists, counts, lock, arg, file, todo, at>>

Locks(t) ==
  /\ At(t, "wait") /\ lock = Null /\ lock' = t /\ Goes(t, "update")
  /\ UNCHANGED <<role, lists, counts, ignored, arg, file, todo, at>>

(* The moderator may have been freed while the thread waited.              *)
Wanted(c) == role = "up" /\ Found(c) # Null

Finished(e) == refs[e] = 1

(* Bug: a repeated file is counted like any other.                         *)
Repeated_Never(p) == FALSE

(* check_if_response_already_received finds the file in the response.      *)
Repeated(p) == p \in answered

(* update_moderator_info_with_task_response, up to the attempt to send:    *)
(* the part counts as done by the client even if its result is refused.    *)
Update(t) ==
  /\ At(t, "update")
  /\ IF ~Wanted(arg[t])
     THEN Ends(t) /\ Releases(t) /\ UNCHANGED <<lists, resp, answered, refused>>
     ELSE LET e == Found(arg[t]) IN
          /\ refs' = [refs EXCEPT ![e] = @ - 1]
          /\ IF Repeated(file[t])
             THEN refused' = refused + 1 /\ UNCHANGED <<resp, answered>>
             ELSE /\ resp' = resp + 1 /\ answered' = answered \cup {file[t]}
                  /\ UNCHANGED refused
          /\ IF Finished(e)
             THEN /\ Becomes(Inserted(Unlinked(Memory, Pending, e), Done, e))
                  /\ meant' = [meant EXCEPT ![Pending] = RemoveFirst(@, e), ![Done] = <<e>> \o @]
             ELSE UNCHANGED <<next, prev, length, meant>>
          /\ Goes(t, "collected") /\ UNCHANGED <<lock, ignored, id>>
  /\ UNCHANGED <<role, expected, alone, asked, given, gone, handed, dropped, arg,
                 file, todo, at>>

(* moderator_send_task_response_to_server, from MASK_CLIENT_SIGNALS(true)  *)
(* to MASK_CLIENT_SIGNALS(false).  A thread that comes here after the      *)
(* moderator was freed follows a null pointer: it has no Send.             *)
Masks(t) ==
  /\ At(t, "collected") /\ Goes(t, "send") /\ ignored' = TRUE
  /\ UNCHANGED <<role, lists, counts, lock, arg, file, todo, at>>

Complete == resp = expected

(* deallocate_moderator_list: both lists and the moderator are freed.      *)
ListsFreed ==
  /\ next' = [e \in Cell \cup List |-> Null] /\ prev' = next'
  /\ length' = [l \in List |-> 0] /\ meant' = [l \in List |-> <<>>]
  /\ id' = [e \in Cell |-> Null] /\ refs' = [e \in Cell |-> 0]

Send(t) ==
  /\ At(t, "send") /\ role = "up" /\ Goes(t, "idle") /\ ignored' = FALSE /\ Releases(t)
  /\ IF Complete THEN role' = "sent" /\ ListsFreed ELSE UNCHANGED <<role, lists>>
  /\ UNCHANGED <<counts, arg, file, todo, at>>

(* The command "force cleanup": the test, the mask, and an answer of what  *)
(* has come so far, if anything has; the mutex is not taken.               *)
ForceCleanup ==
  /\ "cleanup" \in Intervention /\ At("main", "idle") /\ role = "up"
  /\ Goes("main", "cleanup")
  /\ UNCHANGED <<role, lists, counts, lock, ignored, arg, file, todo, at>>

MasksCleanup ==
  /\ At("main", "cleanup") /\ Goes("main", "push") /\ ignored' = TRUE
  /\ UNCHANGED <<role, lists, counts, lock, arg, file, todo, at>>

Push ==
  /\ At("main", "push") /\ role = "up" /\ Goes("main", "idle") /\ ignored' = FALSE
  /\ IF resp = 0 THEN UNCHANGED <<role, lists>> ELSE role' = "freed" /\ ListsFreed
  /\ UNCHANGED <<counts, lock, arg, file, todo, at>>

(* A moderator update reaches the moderator that is deposed.               *)
RcvUpdate ==
  /\ "update" \in Intervention /\ At("main", "idle") /\ role = "up"
  /\ Goes("main", "retire") /\ ignored' = TRUE
  /\ UNCHANGED <<role, lists, counts, lock, arg, file, todo, at>>

Retire ==
  /\ At("main", "retire") /\ Goes("main", "idle") /\ ignored' = FALSE
  /\ IF role = "up" THEN role' = "freed" /\ ListsFreed ELSE UNCHANGED <<role, lists>>
  /\ UNCHANGED <<counts, lock, arg, file, todo, at>>

(* The timer: alone, the moderator looks whether it can send; otherwise it *)
(* goes through the list.                                                  *)
TimerFires ==
  /\ role = "up" /\ ~ignored /\ At("timer", "idle")
  /\ IF alone
     THEN resp > 0 /\ Complete /\ Goes("timer", "collected") /\ UNCHANGED at
     ELSE Goes("timer", "walk") /\ at' = prev[Pending]
  /\ UNCHANGED <<role, lists, counts, lock, ignored, arg, file, todo>>

(* Bug: the moderator misses its own heartbeats.                           *)
Silent_All(e) == TRUE

(* Anyone but the moderator may have missed all of its heartbeats.         *)
Silent(e) == id[e] # Self

(* The handler's loop.  The client after one that is given up is not       *)
(* looked at: the node that was unlinked has no next.                      *)
Walk ==
  /\ At("timer", "walk") /\ at # Null
  /\ \/ at' = next[at] /\ UNCHANGED <<lists, dropped, gone>>
     \/ /\ Silent(at) /\ Becomes(Unlinked(Memory, Pending, at))
        /\ meant' = [meant EXCEPT ![Pending] = RemoveFirst(@, at)]
        /\ dropped' = dropped + refs[at] /\ gone' = gone \cup {id[at]}
        /\ at' = next'[at] /\ UNCHANGED <<id, refs>>
  /\ UNCHANGED <<role, resp, expected, alone, asked, given, answered, handed, refused,
                 lock, ignored, pc, arg, file, todo>>

Walked ==
  /\ At("timer", "walk") /\ at = Null /\ Goes("timer", "idle")
  /\ UNCHANGED <<role, lists, counts, lock, ignored, arg, file, todo, at>>

Next ==
  \/ \E ids \in TaskLists : RcvTask(ids)
  \/ Track \/ TaskDone
  \/ \E r \in given : RcvResult(r[1], r[2])
  \/ \E w \in Worker : Computed(w)
  \/ \E t \in Thread : Check(t) \/ Locks(t) \/ Update(t) \/ Masks(t) \/ Send(t)
  \/ TimerFires \/ Walk \/ Walked
  \/ ForceCleanup \/ MasksCleanup \/ Push
  \/ RcvUpdate \/ Retire

Spec == Init /\ [][Next]_vars

(* ----------------------------- properties ----------------------------- *)

(* Elements of a list from the last one back.                              *)
Backwards(l) == Reverse(Along(prev, next[l]))

(* Read from either end, each list has the elements that were put into it  *)
(* and not taken out, as many as its length says: no sequence of insertions*)
(* at the head, removals anywhere and moves leaves a pointer behind        *)
(* (SN_LIST_ELEMENT_UNLINK and SN_LIST_ELEMENT_INSERT_BEFORE, sn_ll.c).    *)
ListsWhole ==
  \A l \in List : /\ Elements(l) = meant[l] /\ Backwards(l) = meant[l]
                  /\ length[l] = Len(meant[l])

(* Every part a client was asked for is answered, refused, given up with   *)
(* its client or still pending at a node of the list, no more answers are  *)
(* counted than expected, and as many as that only when each part is       *)
(* answered: the test for equality in                                      *)
(* moderator_send_task_response_to_server is neither passed by nor met too *)
(* early, whatever the order of results, time-outs and parts that are given*)
(* again, those that were answered before included                         *)
(* (check_if_response_already_received).                                   *)
PartsAccounted ==
  role = "up" =>
    /\ resp + refused + SumFunctionOnSet(refs, Range(meant[Pending])) + dropped = handed
    /\ resp <= expected
    /\ Complete => answered = 1 .. expected

(* A moderator that does not work alone sends its answer only when none of *)
(* the parts that were its own is in work: the worker that has computed    *)
(* one still finds what it dereferences after its test of is_moderator     *)
(* (send_task_results_to_moderator, client.c:1487).  A part that it was    *)
(* given in place of a dead client may be answered already and in work,    *)
(* and "force cleanup" and a new moderator wait for nothing.               *)
OwnPartsFirst ==
  role = "sent" /\ ~alone =>
    \A w \in Worker : pc[w] # "idle" => asked[file[w]] # Self

(* "client_info->moderator_info will always be valid here"                 *)
(* (moderator_send_task_response_to_server, client.c:1527).                *)
ModeratorInfoValid == \A t \in Thread : pc[t] \in {"send", "push"} => role = "up"

=============================================================================
