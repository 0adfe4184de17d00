---------------------------- MODULE MCMembership ----------------------------
(***************************************************************************)
(* Small instances of Membership for TLC.                                  *)
(***************************************************************************)
EXTENDS Membership, TLC

CONSTANTS p, b, g1, g2, x

(* A primary and its backup, and a primary alone.                          *)
Pair == [s \in {p, b} |-> IF s = p THEN b ELSE NULL]
Alone == [s \in {p} |-> NULL]

OneGroup == {<<g1>>}
WithUnknown == {<<g1, x, g2>>}

(* The clients are interchangeable.                                        *)
Symmetry == Permutations(Client)
=============================================================================
