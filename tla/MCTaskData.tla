----------------------------- MODULE MCTaskData -----------------------------
(* The instances of TaskData that TLC checks.                              *)
EXTENDS TaskData

(* What an uninitialised capability may be: nothing, little, far too much. *)
Leftovers == {0, 1, 7}
=============================================================================
