----------------------------- MODULE MCTaskRun -----------------------------
(***************************************************************************)
(* Small instances of TaskRun for TLC.                                     *)
(***************************************************************************)
EXTENDS TaskRun, TLC

CONSTANTS c1, c2, c3

(* The clients are interchangeable.                                        *)
Symmetry == Permutations(Client)
=============================================================================
