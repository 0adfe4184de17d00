---------------------------- MODULE MCGroupTask ----------------------------
(***************************************************************************)
(* Small instances of GroupTask for TLC.                                   *)
(***************************************************************************)
EXTENDS GroupTask, TLC

(* The clients are interchangeable: every constant set is all of Client or *)
(* empty.                                                                  *)
Symmetry == Permutations(Client)
============================================================================
