--------------------------- MODULE TaskLifecycle ---------------------------
(***************************************************************************)
(* What the server promises about the tasks an operator types for one      *)
(* multicast group, whatever the datagrams, timers and crashes do.  Tasks  *)
(* are numbered in the order in which the CLI accepts them.  A task is     *)
(* first "selecting" (a moderator is being looked for), then "running"     *)
(* (the group has been told to perform it) and ends "done", "unreachable"  *)
(* (the server gave the group up) or "overtaken" (a later task took the    *)
(* group over while the earlier one was still open).                       *)
(***************************************************************************)
EXTENDS Naturals

CONSTANT NumTasks    \* how many tasks the operator types

VARIABLES
  last,     \* number of the task accepted last, 0 before the first
  phase     \* what has become of each task

Tasks == 1 .. NumTasks

Open   == {"selecting", "running"}
Closed == {"done", "unreachable", "overtaken"}

vars == <<last, phase>>

TypeOK ==
  /\ last \in 0 .. NumTasks
  /\ phase \in [Tasks -> {"new"} \cup Open \cup Closed]

Init ==
  /\ last = 0
  /\ phase = [t \in Tasks |-> "new"]

(* The CLI accepts the next task; a task that was still open is lost.      *)
Accept ==
  /\ last < NumTasks
  /\ last' = last + 1
  /\ phase' = [t \in Tasks |->
                 IF t = last + 1 THEN "selecting"
                 ELSE IF t = last /\ phase[t] \in Open THEN "overtaken"
                 ELSE phase[t]]

(* The group is told to perform the task.                                  *)
Distribute ==
  /\ last \in Tasks
  /\ phase[last] = "selecting"
  /\ phase' = [phase EXCEPT ![last] = "running"]
  /\ UNCHANGED last

(* A result has come back.                                                 *)
Complete ==
  /\ last \in Tasks
  /\ phase[last] = "running"
  /\ phase' = [phase EXCEPT ![last] = "done"]
  /\ UNCHANGED last

(* Nobody in the group answers.                                            *)
GiveUp ==
  /\ last \in Tasks
  /\ phase[last] \in Open
  /\ phase' = [phase EXCEPT ![last] = "unreachable"]
  /\ UNCHANGED last

Next == Accept \/ Distribute \/ Complete \/ GiveUp

Spec == Init /\ [][Next]_vars
============================================================================
