# A TLA+ development for the multicast task distributor

The repository (`src/`) is a C program for a LAN.  A **server** knows a fixed
set of multicast groups.  **Clients** join groups, an operator types tasks at
the server's prompt, the server picks one client of a group as its
**moderator**, hands every client a part of the task file, and gets the
collected result back from the moderator.  A **backup server** follows the
memberships by checkpoints.  Everything travels in UDP datagrams; every
process is one `epoll` loop that POSIX timer signals interrupt.

This directory holds TLA+ models of the server's control logic, of the
memberships, of a task from its distribution to its answer, and of the data
structures under them; TLC configurations that check them on small instances;
and proofs, checked by TLAPS, of what matters most for instances of every
size.

## 1. Inventory

| part | source | state | operations | hard because |
|---|---|---|---|---|
| task control of a group | `server.c`, `server_fsm.c`, `server_DS.h` | `mcast_group_node_t`: member list, `fsm_state`, `moderator_client`, `timer_id`, `heartbeat_remaining`, `group_reachability_index` | `assign_task`, `moderator_selection`, two timer handlers, echo/notify/task responses, heartbeats | signals interrupt the prompt, datagrams are late, repeated and lost, pointers dangle, 8-bit counters |
| membership, checkpoints, migration | `server.c`, `server_ll.c`, `client.c`, `client_ll.c` | group lists, red-black tree of clients, the client's own list, the backup's copies | join, leave, checkpoint, `server backup`, `migrate`, restart | one fact kept in three processes, unacknowledged datagrams |
| data distribution | `server.c` 1105-1433, 555-697 | task file, distribution map, dead clients and their files | split by capability, mark dead, retransmit, collect | rounding, short files, index arithmetic over two arrays, entries that may not exist |
| moderator | `client.c`, `moderator_fsm.c`, `client_ll.c` | pending list, heartbeat counts, collected response, one timer | notification, alive count, monitoring of clients, collecting, takeover | failover while results arrive, worker threads |
| task execution | `client.c` 1656-2102 | worker threads, result files | prime, sum, prime sum | it shares state with the loop; parts that are too short end the process |
| lists, tree | `sn_ll.c`, `rbt.c`, `server_ll.c`, `client_ll.c` | pointers, colours | insert, remove, find, balance | pointer surgery, a deletion that exchanges nodes, two threads in one list |
| timers, wire format | `common.c`, `comm_primitives.c` | timer ids, buffers | create, arm, delete; encode, decode | ids that are zero, deleted or reused |
| helpers, scripts, vendored tools | the rest, `utility/` | - | printing, logging, address set-up | - |

They meet in these ways.  Server and clients exchange datagrams
(`*_func_handler` picks the handler).  The handlers of the server reach a
group through the FSM (`server_main_fsm`); its timers and the prompt call
`moderator_selection` directly.  The prompt and the timers share the group
node without a lock: datagram handlers run with the signals *ignored*
(`MASK_SERVER_SIGNALS`), the prompt with the signals enabled.  A change of
membership frees nodes that `moderator_client` may point to.

What makes each part right: a group is never told to do a task it has not a
moderator for, nor a finished task again; a search ends; a dead moderator is
replaced and a living one is not deposed; all lists of one process agree and
the backup lags but does not stray; a task file is handed out exactly once
and, after a death, again to somebody alive, and the answer is that of the
whole file; every list operation keeps the list a list and every tree
operation the tree balanced; nobody is freed under a thread that still uses it.

`PROJECT.json` lists 40 places of the code where this is hard to test
("hazards") and which property guards each of them.

## 2. Modules

    TaskLifecycle   what the server promises about the tasks of one group
       ^ implements
    GroupTask       one group at the server        <- MCGroupTask (TLC)
                                                   <- GroupTaskProofs (TLAPS)
    Membership      groups, clients, backups       <- MCMembership (TLC)
                                                   <- MembershipProofs (TLAPS)
                                                      <- ListenerProofs
    TaskRun         one task from report to result <- MCTaskRun (TLC)
                                                   <- TaskRunTypes (TLAPS)
                                                      <- TaskRunProofs
    TaskData        the lines, parts and answer    <- MCTaskData (TLC)
                                                   <- TaskDataProofs (TLAPS)
    ModeratorLists  a moderator's lists and threads<- MCModeratorLists (TLC)
                                                   <- ModeratorListProofs (TLAPS)
    ClientTree      the red-black tree of clients  <- MCClientTree (TLC)
    FoldLemmas      facts about numbers, sequences, folds and sums that the
                    proofs share

`TaskData`, `ModeratorLists` and `ClientTree` open what the modules above
them take for granted: that a part is a part of the file, that the pending
list is a sequence, that the tree is a function from ids to nodes.

### GroupTask

One group: `members` is `client_info` with the newest client first, `status`
the `av_status` of the nodes, `registered` how often the client's tree node
lists the group, and the other variables have the names of the fields of
`mcast_group_node_t`.  `server` says whether the process lives, `cli` how far
the prompt is inside `assign_task`, and `client_node` and `passes` are what
that call has read and not yet stored.  A second group of variables is
history: `task` and `phase` (what the abstract specification talks about),
`distributed`, `probed`, `asked`, `role` (what was ever sent, so what may
still be answered), `silence` and `overlapped`; `alive` and `churn` are the
environment.

| action | code |
|---|---|
| `AssignCheck`, `AssignPending`, `AssignReset` | `assign_task`: its checks, `fsm_state` and the task, the index |
| `AssignLook`, `AssignScan`, `AssignStore`, `AssignRead`, `AssignWrite`, `AssignTest`, `AssignGiveUp`, `AssignTimer`, `AssignSet` | the `moderator_selection` it calls: where to begin, the probes, the new `moderator_client`, the decrement in its two halves, the test for zero, `set_group_available`, `timer_create`, `timer_settime` |
| `SelTimeout`, `HeartbeatMissed`, `ModeratorSilent` | `handle_timeout_real` with `MOD_SEL_TIMEOUT` and `MOD_RSP_TIMEOUT` |
| `TimeoutIgnored` | a one-shot that expires while `MASK_SERVER_SIGNALS(true)` holds |
| `RcvEchoRsp`, `RcvEchoRspFailover` | `handle_echo_response` into `mcast_send_chk_alive_msg`, `send_new_moderator_info` |
| `RcvNotifyRsp` | `handle_moderator_notify_response` into `mcast_start_task_distribution` |
| `RcvTaskRsp` | `handle_moderator_task_response` into `mcast_handle_task_response` |
| `RcvEchoReq` | the moderator's heartbeat |
| `Join`, `Leave`, `Die` | what membership does to the group |

`moderator_selection` is called from three places.  The two timer handlers do
not interrupt each other and take it as one operator, whose parts
(`ScanStart`, `Scanned`, `AfterScan`, `PassesLeft`, `GivesUp`, `Probes`) are
named for what the loop computes.  The prompt runs with the signals enabled,
and a handler may come between any two of its accesses to the group: there
the same function is a sequence of actions (`AssignGoesOn`).  A handler that
ends a pass in between makes `overlapped` true until the next task is
accepted.  The command then goes on with what it has read: it may start a
timer for a group the handler has given up, and decrement an index that is
zero already, so that it wraps.  `TimerEndsWithItsState`, `SelectionBudget`
and `UnreachableOnlyIfAllAsked` name this exception and claim everything
outside it; `PhaseMatchesFsm`, the refinement and the others hold with it.

Abstractions.  The network is the history of what was sent: any answer whose
cause was ever sent may arrive, at any time and any number of times, or never
- which is loss, delay, duplication and reordering at once.  Where the code
follows a pointer that is NULL the server ends (`Crash`); where it uses freed
or uninitialised memory, or reads the distribution map past its end, both the
end of the server and the plain effect of the code are outcomes.  A freed
list node has no successor.  Deleting a timer id that was just deleted is
taken to fail harmlessly; deleting the id zero is undefined.  An empty task
file makes the hand-out return at once, which is a stuttering step.

### TaskLifecycle

The promise: tasks are accepted one after the other; each is `selecting`,
then `running`, then `done`, `unreachable` or - the code does accept a task
on top of an open one - `overtaken`, and nothing ever reopens it.
`GroupTask!ImplementsLifecycle` states that `GroupTask` implements it, with
`last` mapped to `task`.

### Membership

Servers `db`, each with the groups' client lists and capabilities and the
groups and capability on each client's tree node; `standby`, `link` for
checkpoints; clients with their own list; requests, responses and notices on
their way.  `Added` and `Removed` are
`insert_client_info_in_server_DS` and `remove_client_info_from_server_DS`,
with the unsigned capability (`Word` stands for 2^32); `Resolved` is the look
up of a name, which leaves the group of the name before when it finds none.
Loss is a datagram that is never taken; duplicates, restarts, lost and
overtaken checkpoints and write-offs of dead clients are counted as faults.
`mirrored` is history: the servers whose backup has missed nothing.

Left out: names match by a prefix in the code (`strncmp`), here by equality;
a leave is refused by the client while it works on a task of the group;
failures of the multicast socket calls.

### TaskRun

One task of one group, from the announcement of the moderator to the answer
the server takes, with everything `GroupTask` leaves open: which part is
where.  The server has `map` (`distribution_map`: who, and which files),
`working`, `expected`, `dead_files`; each client has a `role` when it acts as
moderator (its FSM state, timer, pending list and collected response), the
`moderator` it sends to, its `pending_task_count`, the `timer_id` of its
group, whether its state is `TASK_EXECUTION_IN_PROGRESS` (`executing`),
`cached` results and worker threads.  A timer whose id was overwritten is
`stray`.  A part is named after the client it was cut for.

| action | code |
|---|---|
| `RcvNotify`, `RcvHello`, `NotifyTimeout`, `NotifyTimeoutIgnored` | `handle_mod_notification`, the echo requests that answer it, the one-shot that ends the wait, and its loss while signals are ignored |
| `RcvReport` | `mcast_start_task_distribution` |
| `RcvTask` | `handle_perform_task_req`, for moderator and worker at once, as in the code |
| `WorkerCounts`, `WorkerChecks`, `WorkerStopsTimer` (`WorkerDeletes`, `WorkerForgets`, `WorkerLeaves`), `WorkerReports`, `WorkerCaches`, `FetchFails` | `execute_task` and `send_task_results_to_moderator`, cut where the thread touches what the main loop also touches: the count, `timer_delete`, `timer_id = 0`, the state |
| `LosesCount` (in `RcvTask`) | `pending_task_count++` without the mutex, crossed by a thread's decrement |
| `DeletionFails`, `StartFails` | `timer_delete` of an id that is zero or gone; `timer_settime` of one that is deleted and not yet zero |
| `Heartbeat`, `Monitor` | the clients' heartbeats and the walk over the pending list |
| `RcvResult` | `handle_task_response` into `update_moderator_info_with_task_response` |
| `RcvDead` | `server_echo_req_task_in_progress_state` with a report of a death |
| `ModeratorSilent`, `NewModerator`, `RcvUpdate` | fail-over, retransmission and take-over |
| `RcvAnswer`, `ForceCleanup` | the answer of the group |

Operators with the names of functions or of what they compute carry the index
arithmetic of the map: `Entry`, `mark_dead_clients_in_group` (with its
exchange of entries), `Heir`, `Recorded` (by the index of the part, as in the
code), `RetransmitFails`.

Abstractions.  Datagrams to the group reach a client in the order in which
the one server sent them (`inbox`); all others form a bag (`net`).  Periodic
heartbeats are not datagrams: a timer gives up a peer whose heartbeats have
stopped.  To give up one that is only late is a fault, like a death, a lost
datagram, a lost signal, a failed fetch, a lost update of the count of tasks,
a result that overtakes the request it belongs to, the deletion of timer id
zero, and an operator's "force cleanup"; `Mishap` says which kinds happen and `MaxFaults` how many.
`missed` is history: whose datagrams were lost.  What follows a dead
moderator's id in `dead_client_arr` never equals an id; a count of working
clients below zero ends the server; the map is large enough
(`TaskData` has the other case).  All threads of one request are started in
one step, and a part that one request names twice is one thread; a thread
does not finish before `pending_task_count` has counted it.  `RcvHello` is one
step although a moderator enables its signals in the middle of it: a timer's
handler that runs there is ordered before it.  The search for a new moderator
goes on until a free client answers (its end is in `GroupTask`), and the story
ends with the task.

### TaskData

One task file from `wc -l` to the answer.  Line `i` holds the number `i`; a
part is an interval of lines, kept as the `bounds` where the scan for
newlines stops, as `start_index` is.  `format` is the kind of file.  The scan
of an unstructured one looks for newlines and for the end of the file; of a
structured one, whose lines have 11 bytes each, `11 * data_count` bytes are
copied without a look at the end (`server.c` 1175).

| action | code |
|---|---|
| `Leave` | a client that is in the moderator's report and no longer in the tree |
| `Distribute`, `Measure`, `Measured` | `mcast_start_task_distribution`, the loop of `get_data_set_for_client_based_on_capability` |
| `CutPart`, `CutDone` | the loop of `create_task_sets_per_client`: share by capability, the rest to the last, the scan, the mapping of the new file |
| `HandOut` | the rest of `mcast_start_task_distribution`, over all clients of the report |
| `Compute` | `execute_task` into `find_prime_numbers`, `find_sum`, `find_prime_sum` |
| `Die`, `Reassign` | a death and the server's look at the tree node of the dead client |
| `Answer`, `Collect` | `moderator_send_task_response_to_server`, `collect_task_results` |

What the code leaves open is a choice: the entry of a client without a tree
node is any of `Garbage`; past the end of a map that was allocated too short
the server ends or sends a name that is no file's.  The product of capability
and lines wraps at `Wide` (2^32), and so does `remaining`, which is unsigned.
A copy that leaves a structured file (`Torn`) ends the server or makes a part
that ends anywhere.  The files have less than 2^32 bytes, and
`capability_total` does not wrap.

### ModeratorLists

The two lists of a moderator with `next`, `prev` and `length` as in
`sn_ll.c`, and the three kinds of threads that use them.  `pc` says where a
thread is; `ignored` is the SIG_IGN of the process, `lock` the mutex.

| action | code |
|---|---|
| `RcvTask`, `Track`, `TaskDone` | `handle_perform_task_req` of a moderator, client by client, without the mutex |
| `RcvResult`, `Computed` | `handle_task_response`, of a part as often as it comes; a worker that is done, or has failed |
| `Check`, `Locks`, `Update` | the test before the mutex, `SAFE_WRITE`, `update_moderator_info_with_task_response` |
| `Masks`, `Send` | `moderator_send_task_response_to_server` |
| `ForceCleanup`, `MasksCleanup`, `Push` | the command "force cleanup": its test, the mask, the answer as far as it has come |
| `RcvUpdate`, `Retire` | `handle_moderator_update` of the moderator that is deposed |
| `TimerFires`, `Walk`, `Walked` | `handle_timeout_real`, `moderator_task_rsp_pending_timeout` node by node |

`Unlinked` and `Inserted` are `SN_LIST_ELEMENT_UNLINK` and the insertion at
the head.  The handler runs on the main thread, which waits for it; workers
block the signals for themselves but enable them for the process.  Two
threads inside the lists at once (`Overlap`), and a `Send` or `Push` after the
moderator was freed, have no defined outcome: the model stops there, so that
the races inside the lists are not checked.  Parts are given again for
clients that were reported dead, as the server does: any part that was cut for
one of them, answered or not (`Again`).  A file that is in the response
already is refused, and still counts as done by the client that sent it
(`Repeated`).  `role` tells a moderator that was freed with its answer
(`"sent"`) from one that had to stop (`"freed"`); `Intervention` says whether
the operator and the server may make it.

### ClientTree

Every field of every node that shapes the tree.  `Insert` and `Delete` are
`RBTreeInsert` and `RBDelete` as the two membership functions call them;
`Rotated`, `InsertFixed`, `DeleteFixed`, `Neighbour` are each one operator
for the two mirrored halves the code has.  Freed nodes have no fields, so
that a use after free stops the checker.

## 3. Runs

| run | bound | shows |
|---|---|---|
| `GroupStable` | 3 clients, 3 tasks, 1 missed heartbeat, 2 passes, scans of 2, counters of 0 to 3, no churn | all safety properties; 3 clients are more than one scan of 2 looks at |
| `GroupChurn` | 2 clients that may die, 2 tasks, 2 joins or leaves, 1 missed heartbeat, scans of 1 | the properties that survive a dangling or recycled `moderator_client`; `SelectionEnds`, `DeadModeratorReplaced` |
| `MembershipRestart` | 1 client, 2 groups and an unknown name, 4 requests, 2 faults | lists agree; the client is in no group behind the server's back |
| `MembershipBackup` | 2 clients, server and backup, 3 requests, 1 fault | the backup mirrors the server, member by member and in order |
| `TaskRunFaults` | 3 clients, results are files, 1 missed heartbeat, 1 fault of ten kinds | the result is complete, heartbeats end with the work, there is one moderator and it knows |
| `TaskData` | both formats, 3 clients, 9 lines, capabilities of 1 to 3, a tenth is 2 lines, products modulo 32, 1 death | the parts are the file, the answer is right, long files end nobody |
| `ClientTree` | 10 ids | balance, links, neighbours, search |
| `ModeratorLists` | 3 clients, 2 workers, 5 parts, clean-up and update | lists are whole, parts accounted for, no answer while a part of its own is in work |
| `GroupTimerAssert`, `GroupSelectedDies`, `TaskRunSums`, `ModeratorListsFreed` | small | four places where the code does not do what its comments or assertions say (section 6) |

Why the bounds are enough to be interesting: the group runs need a second
task for stale answers, more members than one scan covers, and one member
that is not the moderator; they have them.  `GroupStable` has a third task
because of the state of `GroupTimerAssert`, in which a stale answer has left
the monitoring timer running into the next selection:
`MonitoredModeratorIsTold` therefore speaks of a task in progress and not of
that timer.  Both runs shrink the limits of the code (5 missed heartbeats, 2
passes, scans of 3, 8-bit counters: `Max8` is 3 instead of 255) so that every
counter reaches its end and an index that is decremented at zero wraps, `GroupChurn` with
joins and leaves in between; the proofs do not depend on these numbers.  In
`MembershipRestart` four requests are the fewest that let a leave of an
earlier process be granted to its successor.  `MonitoredModeratorIsTold` and
`UnreachableOnlyIfAllAsked` are stated for a stable membership only: memory
that is reused may put another client in the place of the moderator, and a
client that joins in the middle of a pass is not asked.  The two runs have
1.4 and 1.8 million states; the command is overtaken by a timer in them, the
index wraps, and a timer runs in `STATE_NONE`.

`TaskRunFaults` has three clients because a part has to move from a dead
client to a second one under the eyes of a third.  One fault is less modest
than it sounds: a moderator whose one-shot expired is replaced without any
(it starts no heartbeats), so that a second fail-over comes on top of the one
fault.  The eleventh kind, `"late moderator"`, is left out of the run: a
moderator that is deposed while it lives and is then announced again drops
its role at the second announcement (`client.c` 370-386, meant for old
moderators), after which nobody collects; with that kind `ModeratorActs`
fails.  The run has 3.5 million states.  `TaskRunSums` needs no more than one
death.

`HeartbeatsEnd` is false in the code for a client to which one of four things
has happened; `disturbed` is the set of these clients, and nobody else is
excepted.  A thread that cannot fetch its file ends without counting itself
down (`client.c` 1823-1829).  An update of the count is lost, because
`client.c` 2267 counts up without the mutex.  A thread writes zero over the id
of a timer that was started meanwhile (1795).  And a client is made moderator
whose group timer runs while its state, written late by a thread (1797) or by
a request for others, is not `TASK_EXECUTION_IN_PROGRESS` (472).  The last two
take two faults and do not occur in `TaskRunFaults`; the proofs cover them,
and runs with two faults of fewer kinds reached them.

`TaskData` needs three clients for a rounding rest that is not the last
client's alone, nine lines for the square of an odd prime and for shares that
are uneven, and files shorter than the number of clients.  `Garbage` has an
entry that is far larger than the file, so that the lines left over go below
zero and a share wraps modulo 32.  `PartsAreTheFile` and `AnswerIsRight` claim
nothing of a structured file once a client that is cut for has left: the code
then copies past the end of the file or leaves lines out.  Ten ids make trees of four levels, in which every case of
`RBDeleteFixUp` occurs below the root on both sides.  Five parts of three
clients, counted as often as they are given out, let a client be given up,
its part be given to a second one and the late result arrive in between; two
workers are needed for one to wait while the other sends.  The two peers and
the two workers are interchangeable (`Alike`).

Deadlock is checked for `ClientTree` only: an operator may stop typing,
requests are bounded and a crashed server does nothing.

**Fairness** (`LiveSpec`): weak fairness of `AssignGoesOn`, `SelTimeout`,
`HeartbeatMissed` and `ModeratorSilent`: the kernel delivers an expired
timer, and the prompt's command returns.  No datagram need ever arrive.
`SelectionEnds` assumes that task responses do not arrive for ever, each of
which sets the scan back to the head of the list; and it allows for the lost
one-shot, after which a search really does stop.

Each property of a passing run has a mutant: a definition whose name ends in
a suffix (`Dec8_Int`, `Added_NotPurged`, ...) is a plausible slip of the
operator it is named after, and the run finds the property violated with it.

## 4. Proofs

### GroupTask

`GroupTaskProofs` proves for every number of clients, tasks, joins, leaves
and for every value of the limits allowed by the assumptions
(`ClientAssumption`, `NumTasksAssumption`, `LimitsAssumption`,
`EnvironmentAssumption`):

* `TypeCorrect`, `TimersEnd`, `BudgetKept`, `PhaseAgrees`: the invariants
  `TypeOK`, `TimerEndsWithItsState`, `SelectionBudget`, `PhaseMatchesFsm`;
* `DeposedLate`: the action property `DeposedOnlyAfterSilence`;
* `Refinement`: `GroupTask` implements `TaskLifecycle`;
* `MonitoredTold` and `AllAsked`, for a stable membership (`MaxChurn = 0`):
  the invariant `MonitoredModeratorIsTold` and the action property
  `UnreachableOnlyIfAllAsked`.

None of the four invariants is inductive alone.  `Inv` is `TypeOK` with
`Structure`, which adds: a dangling moderator is somebody
(`DanglingIsSomebody`, so that `Scanned` is a set of clients); a group that
is not idle has a task and the prompt only holds a task that is left to
assign (`TaskInHand`); no timer runs in `MODERATOR_SELECTED`
(`NoTimerWhenSelected`, without which the monitoring timer could send a
selected group back); and while the monitoring timer is alive
`heartbeat_remaining + silence = MaxMisses` (`HeartbeatsCounted`, from which
`DeposedLate` follows).  Two parts are about the command that a timer may
interrupt at every step.  `CommandUnderWay`: between its steps the group
still waits for a moderator, unless a handler has given it up, and until a
handler has ended a pass the index is the full one the command has set, so
that the command itself never gives up (`Reachable` is at least 2).
`GivenUpStays`: a group that is idle although a search goes on has its task
declared unreachable already, which is why the phase never disagrees.  One
lemma per group of actions preserves the types (`*Type`) and one the structure
(`*Structure`).

`Stable` is what a stable membership adds to `Inv`: no client is in the list
twice and the server points to nobody who has left it (`Distinct`,
`NobodyLost`), the moderator of the task was told so and is marked busy
(`SelectedIsTold`), in the last pass every free client before the place of the
scan has been asked (`LastPass`), and the command's scan finds nothing to
begin with only after a handler has ended a pass (`MissedScan`).  The scan asks whom it passes
(`ScanAsks`) and goes on where it stopped (`AfterScanPlace`).  A task response
frees a busy client behind the scan's back, but it also sets the scan to the
head of the list (`ResponseStable`); without that `LastPass` would be false.

### TaskData

`TaskDataProofs` proves, for files, reports and capabilities of any size,
for any number of deaths and for whatever natural numbers an uninitialised
capability holds (`SizesAssumption` only says that the sizes are numbers and
that the divisors are not zero):

* `TypeCorrect`: the invariant `TypeOK`;
* `PartsWhole`, `AmpleIsSafe`, `AnswerCorrect`: the invariants
  `PartsAreTheFile`, `AmpleFilesAreSafe`, `AnswerIsRight`.

None is inductive alone.  The loop that cuts the file keeps two accounts,
`remaining_count` and the place where the last part ended, and in an
unstructured file they disagree as soon as a share is clipped by the end of
the file: `remaining` then wraps below zero.  `Inv` adds what is true
nevertheless (`CuttingGoesOn`): the parts cut so far hold every line up to
their end and none is empty, and either the two accounts add up to `count` or
the last part ended at the end of the file (`RestAgrees`), where whatever the
last client takes stops too.  `AllIsCut` carries this past the cut.  In a
structured file nothing stops at the end.  There it is `InProportion` that
keeps every part inside: when nobody that is cut for has left, no share wraps
(`ShareIsExact`) and what has been cut is no more than the capabilities
measured allow, so that the accounts agree to the last line.  `Sound` is the
condition under which one of the two arguments applies.

`AmpleIsSafe` is arithmetic over all clients.  `Weighed` says that
`capability_total` after each round is the sum of the capabilities so far.
Shares are rounded down, so what has been cut stays in proportion to the
capabilities measured (`InProportion`); from that `Proportion` concludes
that the share of the weakest client is still left for every client that
follows, and at least a tenth of something.  Hence no scan is clipped and no
part too short for the division (`PartsAreLong`), every client of the report
still has its node (`Registered`: a client that leaves makes the file no
longer `Ample`), and every process that ends is one that died (`AmpleInv`).

`AnswerCorrect` needs the cut for two things: the lines of the parts are
disjoint and are together those of the file (`LinesOfParts`), and a result
of every client means a part for every client (`AnswerInv`).  The sums then
add up part by part (`SumsOfParts`) to the sum of the file, which is
count (count + 1) / 2 (`SumOfInterval`), or of its primes; and trial division
up to the root finds exactly the numbers with two divisors (`TwoDivisors`).

### Membership

`MembershipProofs` and `ListenerProofs` prove, for every number of clients,
servers, groups, requests and faults, whatever the operator types after
`server backup` and for any capabilities (`PrimaryAssumption`,
`BackupAssumption`, `NamesAssumption`, `NumbersAssumption`):

* `TypeCorrect`, `RegistryIsSound`, `BackupKeepsUp`: the invariants `TypeOK`,
  `RegistryAgrees`, `BackupMirrors`;
* `NobodyListensUnknown`: the invariant `ListenersAreRegistered`.

`Sane` are the lists of one server that agree with each other, `Sound` the
checkpoints a server really sends (a join carries the capability the client
drew).  `Consistent` says that every server's lists are `Sane`, that every
checkpoint under way is `Sound` and that only a server with a backup has any.
It is inductive because both list operations, and so any sequence of them,
stay within `Sane` (`AddedSane`, `RemovedSane`, `JoinedFold`).

`Mirroring` is `BackupMirrors` without the fold: what a checkpoint does to the
groups is one `Step`, and a sequence of checkpoints `Leads` from the groups of
the backup to those of the server.  A change at the server appends what it
does (`LeadsConcat`), a delivery takes the head off (`LeadsTail`), and
`ReplayedFold` gives the fold back.  A backup of a backup gets every
checkpoint twice, once from the list operation and once from the handler
(`server.c` 361); `StepTwice` shows that the second one changes nothing,
which needs that a client is in a group at most once.  A removal that finds
no listing has the effect of one that does, because by `RegistryAgrees` the
client is then in no group either.  For `mirrored` it turned out to be enough
that server and backup have the same groups when the backup is named; what
their tree nodes list may differ.

`ListenersAreRegistered` is a matter of counting.  `Posted` says that no
datagram bears a number that was not given out, that a leave names one group,
that nobody is moved back to the primary and that what a client's process
asks while it talks to the primary goes there; `AnsweredOnce` that without
duplicates a request is answered once; `Balanced` is the property for each
client by itself, wherever the others have been moved.  `Even` is the balance
of one client and one group: one lemma for each thing that may happen to it
(`EvenJoin`, `EvenLeave`, `EvenJoinRsp`, `EvenLeaveRsp`, `EvenTaken`), over
lemmas about how often an element occurs in a sequence.

### TaskRun

`TaskRunTypes` and `TaskRunProofs` prove, for every finite set of clients,
every number of faults and all of their kinds, `"late moderator"` included
(but for `ModeratorAlwaysActs`):

* `TypeCorrect`, `HeartbeatsStop`, `DeposedTold`: `TypeOK`, `HeartbeatsEnd`,
  `DeposedIsTold`;
* `ModeratorAlwaysActs`: `ModeratorActs`, when `"late moderator"` is not among
  the faults, as in the run `TaskRunFaults`: with it the property is false
  (section 3);
* `ResultsComplete`: `ResultComplete`, for results that are files
  (`TypeFile`; `TaskRunSums` shows it false for sums).

The types are stated for a set `K` of known parts (`Types(K)`): no part is
invented, and `Known` says that there are no more parts than the moderator
expects answers.  `HeartbeatsEnd` is about a count and not about the threads
it counts, so it rests on `BeatsWell`: for a client that is not `disturbed`,
`pending_task_count` is the number of its threads that have still to count
themselves down, no timer of it is stray, and an armed one belongs to a client
that is no moderator and is busy or has a thread about to delete it.
`NotifiedFirst` adds that the notification is the first thing a client takes
and finds it idle.
`DeposedIsTold` rests on `News`: the last moderator that was named to a
client (`LastNamed`) is the one it follows or is going to read of (`Knows`).
`ModeratorActs` needs to know of every client where it stands (`Acting`).  The
one the server follows is the first moderator, without a successor so far
(`FirstStill`), or one that was `Chosen` later: called by an update with a
task request behind it (`Appointed`), at work with a timer that runs or the
request still to come (`Serves`), or done, with its one answer on the way
(`Answered`).  Every other one is `Aside`: no announcement that it has still to
take names it, it has answered at most once and not while it collects, and if
it is free, so that the server may choose it next, it neither collects nor has
an answer on the way.  The hard step is a
fail-over in the middle of another: the announcements that are still unread
then name clients that are not followed any more.  `OthersAlike` and
`ReachingAlike` say which datagrams a step leaves as they are.  The proof uses
that NULL is no role (`NullAssumption`): a role that is set is never mistaken
for none.  TLC checked `Acting` with three clients and one fault of nine
kinds, with two clients and up to four, and with three clients and two faults
out of four kinds.

`ResultComplete` rests on `Before` (before the first report nothing of the
task is under way) and on `Expectations`: every part that is asked for, under
way or collected is one that was handed out, and the collected ones are
different.  As many different parts as there are parts are all of them
(`InjectiveLen`).

### ModeratorLists

`ModeratorListProofs` proves, for every number of clients, worker threads and
nodes and for task requests of any length (`ClientsAssumption`,
`MemoryAssumption`, `WorkersAssumption`: memory is finite, and a node, an
anchor, a thread and NULL are different things):

* `TypeCorrect`, `ListsAreWhole`, `PartsAreAccounted`, `OwnFirst`: the
  invariants `TypeOK`, `ListsWhole`, `PartsAccounted`, `OwnPartsFirst`.

They hold up to the first time two threads are inside the lists together: the
code has no defined outcome there, and the model no successor.

A walk along pointers is awkward to reason about when the pointers change.
`Linked` says what they are at each place of a sequence instead: the anchor
has its ends, and every node its neighbours.  `UnlinkedPointers` and
`InsertedPointers` state the macros field by field, `UnlinkedList` and
`InsertedList` what they make of the list, `UnlinkedOther` and
`InsertedOther` that the other list does not notice, which needs that the two
share no node (`Chained`).  Only then is a walk brought back: along pointers
that are `Linked` to a sequence it meets that sequence (`AlongList`), and the
search finds a client's node exactly when there is one (`FoundNode`).

`PartsAccounted` needs that a pending node has a reference and that each
client has one node (`Nodes`), that a free node is left for every client
still to be entered (`Space`), and the sum itself (`Budget`).  That answers
neither pass the expected number nor reach it early is a matter of which parts
they are: `Answers` says that the response holds different parts of the file.

`OwnPartsFirst` is about threads.  `InHand` says that a part that was cut for
the moderator itself is in the hands of at most one thread, and not answered
while it is: such a part is never given again, because the walk passes the
moderator over (`Answers`), and never comes in from the net.  Parts that were
given again may be answered and in work at once, which is why the property
speaks of the moderator's own.  When the answer is complete every part is
answered (`AllAnswered`), so no thread has one of the moderator's own in hand;
a worker that is past its update holds the mutex, and only one can
(`Holders`).  The one who sends is therefore the last.  Of a moderator that
works alone this is not true (`ModeratorListsFreed`): there the timer's
handler sends without the mutex.  A moderator that is freed by "force
cleanup" or by an update waits for nobody, and nothing is claimed.

### What the proofs rest on, and what is only model-checked

Every strengthened invariant was checked by TLC on the instances of section 3
before it was proved.  `FoldLemmas` has the induction the proofs use: on a set
of numbers (`Least`, `Induction`) instead of a predicate, which the provers
cannot instantiate; from it the functions behind the folds of the community
modules exist and take the steps one expects (`FoldExists`, `CourseOfFold`),
and the community modules' sums over finite sets do not depend on the order
in which elements are chosen (`SumOverSplit`, `SumOverUnion`).

Only model-checked:

* the liveness properties `SelectionEnds` and `DeadModeratorReplaced`
  (fairness and ENABLED are out of the prover's reach);
* all of `ClientTree`: what it says of a tree of any height is recursive, and
  the prover takes neither recursive operators nor induction over data.

## 5. Not modelled, and the plan

In this order:

1. A second task in `TaskRun` (cached results and heartbeats of the one
   before), liveness of one task without faults.
2. The server's lists (`server_ll.c`) as pointers, and the best-fit choice of
   a group (`get_group_node_by_best_fit`, which stops at the first busy group).

A backup of a backup is in `Membership` (`BackupOf` may chain) and in the
proofs; a run with a third server would be many times as large as
`MembershipBackup` and is left out.

Known and not covered by a property: the moderator counts echo requests, not
clients (`client.c` 914), so a repeated one completes the count early; the
result files are asked for in the folder of the group while the moderator has
put them into a folder below it (`server.c` 1410, `client.c` 1695), which
`TaskData` shows as an empty `fetched`.

Not planned: the XDR encoding, logging and printing, socket set-up, the file
transfer scripts, `utility/`.

## 6. Where code and comments disagree

* `server.c` 934: the monitoring timer "is not expected to hit in any other
  state"; after a repeated task response and a third task it is armed in
  `MODERATOR_SELECTION_PENDING` with no heartbeat left (`GroupTimerAssert`).
* `server.c` 864-867: a moderator that dies while selected is not replaced;
  no timer runs there (`GroupSelectedDies`).
* `client.c` 1527: `moderator_info` "will always be valid here"; a moderator
  that works alone may send its answer from the timer's handler and from the
  worker thread, and the second of them follows a null pointer
  (`ModeratorListsFreed`).
* `client.c` 1386: a response "for this file" is refused when it was already
  received; only files are compared, so a sum counts a part twice and misses
  another after one death (`TaskRunSums`).  Two more slips are needed and
  present: `server.c` 664-671 enters a part in the map by its own index and
  not under the client that gets it, and `client.c` 1792-1798 tests the count
  and deletes the timer in two steps.

Noted while modelling, and not the subject of a run: `server.c` 1944-1948
says that the timer is not rearmed for a group that is given up, but a timer
that gives it up in the midst of `assign_task` is followed by one that is
(exceptions of `TimerEndsWithItsState`); `client.c` 2267 counts up without the
mutex that 1786 takes; `server.c` 1175 copies structured files without a look
at their end; `server.c` 1952-1953
says "wait for first client to respond", but a failover may give up in the
same step, because the passes of the last search are not restored;
`server_DS.h` 101 says that the capability of a group is that of its clients,
but a client that joins twice counts twice; the assertion at `client.c` 647
is met when two joins and two leaves are typed ahead of their responses;
`client.c` 161 says that the walk cycles through all listed clients, but it
ends at the first one it gives up; `server.c` 1226 says that few clients are
chosen for a short file, but the request names all of them.
