-------------------------- MODULE MCModeratorLists --------------------------
(* The instances of ModeratorLists that TLC checks.                        *)
EXTENDS ModeratorLists

CONSTANTS me, peer1, peer2, w1, w2

(* Alone; with parts of its own and of others; none of its own; a part     *)
(* that is given again.                                                    *)
Requests ==
  {<<me>>, <<me, peer1, peer2>>, <<me, peer1, peer1, me>>, <<peer1, peer2>>,
   <<peer2>>}

(* Worker threads are alike.                                               *)
Alike == Permutations(Worker)
=============================================================================
