----------------------------- MODULE ClientTree -----------------------------
(***************************************************************************)
(* The red-black tree in which the server finds the node of a client by    *)
(* its id: the pointers, colours and keys of every node, and the two ways  *)
(* in which the server changes it.  Membership takes the tree to be a      *)
(* function of ids; here it is shown to be one.                            *)
(*                                                                         *)
(* A node is called by the key it was allocated for, which need not be the *)
(* key it holds.  A node that was freed has no fields: to read one stops   *)
(* the checker.  What the code does twice, with left and right switched,   *)
(* is one operator with the side d.                                        *)
(***************************************************************************)
EXTENDS Integers, Sequences, FiniteSets, FiniteSetsExt, SequencesExt

CONSTANTS
  Key,  \* the ids of clients, positive numbers
  Nil,  \* the sentinel that stands for no child
  Root  \* the sentinel whose left child is the root

ASSUME KeyAssumption == Key \subseteq Nat \ {0} /\ Nil \notin Key /\ Root \notin Key

VARIABLE tree  \* the fields left, right, parent, red and key of every node

Nodes == DOMAIN tree.key
Clients == Nodes \ {Nil, Root}

TypeOK ==
  /\ Clients \subseteq Key /\ {Nil, Root} \subseteq Nodes
  /\ \A f \in {"left", "right", "parent"} :
       /\ DOMAIN tree[f] = Nodes
       /\ \A n \in Nodes : n # Nil => tree[f][n] \in Nodes
  /\ tree.red \in [Nodes -> BOOLEAN]
  /\ \A n \in Clients : tree.key[n] \in Key

Other(d) == IF d = "left" THEN "right" ELSE "left"

(* ------------------------------- pointers ----------------------------- *)

(* The link from p down to x leads to y instead.                           *)
Relinked(t, p, x, y) ==
  IF x = t.left[p] THEN [t EXCEPT !.left[p] = y] ELSE [t EXCEPT !.right[p] = y]

(* Bug: the subtree that changes sides keeps its parent.                   *)
Adopted_Not(t, c, p) == t

(* The sentinel's parent is left alone.                                    *)
Adopted(t, c, p) == IF c = Nil THEN t ELSE [t EXCEPT !.parent[c] = p]

(* LeftRotate and RightRotate: x goes down on side d, the child on the     *)
(* other side takes its place.                                             *)
Rotated(t, d, x) ==
  LET y  == t[Other(d)][x]
      t1 == Adopted([t EXCEPT ![Other(d)][x] = t[d][y]], t[d][y], x)
      t2 == Relinked([t1 EXCEPT !.parent[y] = t.parent[x]], t.parent[x], x, y)
  IN  [t2 EXCEPT ![d][y] = x, !.parent[x] = y]

(* The way down of TreeInsertHelp: the node that gets the new child.       *)
RECURSIVE Above(_, _, _, _)
Above(t, y, x, k) ==
  IF x = Nil THEN y
  ELSE Above(t, x, IF t.key[x] > k THEN t.left[x] ELSE t.right[x], k)

With(f, n, v) == [m \in DOMAIN f \cup {n} |-> IF m = n THEN v ELSE f[m]]

(* The memory malloc gives: which of the free nodes makes no difference.   *)
Fresh(t, k) ==
  IF k \in DOMAIN t.key THEN CHOOSE n \in Key : n \notin DOMAIN t.key ELSE k

(* A node z for k, red, and TreeInsertHelp.                                *)
Hung(t, z, k) ==
  LET y == Above(t, Root, t.left[Root], k)
      u == [left |-> With(t.left, z, Nil), right |-> With(t.right, z, Nil),
            parent |-> With(t.parent, z, y), red |-> With(t.red, z, TRUE),
            key |-> With(t.key, z, k)]
  IN  IF y = Root \/ t.key[y] > k THEN [u EXCEPT !.left[y] = z]
                                  ELSE [u EXCEPT !.right[y] = z]

(* The loop of RBTreeInsert: x and its parent may both be red.             *)
RECURSIVE InsertFixed(_, _)
InsertFixed(t, x) ==
  LET p     == t.parent[x]
      g     == t.parent[p]
      d     == IF p = t.left[g] THEN "left" ELSE "right"
      uncle == t[Other(d)][g]
      inner == x = t[Other(d)][p]
      low   == IF inner THEN p ELSE x
      t1    == IF inner THEN Rotated(t, d, p) ELSE t
      mid   == t1.parent[low]
      top   == t1.parent[mid]
      t2    == [t1 EXCEPT !.red[mid] = FALSE, !.red[top] = TRUE]
  IN  IF ~t.red[p] THEN [t EXCEPT !.red[t.left[Root]] = FALSE]
      ELSE IF t.red[uncle]
      THEN InsertFixed([t EXCEPT !.red[p] = FALSE, !.red[uncle] = FALSE,
                                 !.red[g] = TRUE], g)
      ELSE InsertFixed(Rotated(t2, Other(d), top), low)

RBTreeInsert(t, k) == InsertFixed(Hung(t, Fresh(t, k), k), Fresh(t, k))

(* The last node on side d below x, and the first one above it to which x  *)
(* is not on side d.                                                       *)
RECURSIVE Outermost(_, _, _), Turn(_, _, _), Turn_Sentinel(_, _, _)
Outermost(t, d, x) == IF t[d][x] = Nil THEN x ELSE Outermost(t, d, t[d][x])

(* Bug: the sentinel above the root is taken for a node.                   *)
Turn_Sentinel(t, d, x) ==
  LET y == t.parent[x] IN IF x = t[d][y] THEN Turn_Sentinel(t, d, y) ELSE y

Turn(t, d, x) ==
  LET y == t.parent[x]
  IN  IF y = Root THEN Nil ELSE IF x = t[d][y] THEN Turn(t, d, y) ELSE y

(* TreeSuccessor and TreePredecessor: the next node towards side d.        *)
Neighbour(t, d, x) ==
  IF t[d][x] # Nil THEN Outermost(t, Other(d), t[d][x]) ELSE Turn(t, d, x)

(* Bug: a red brother is not looked for.                                   *)
BrotherBlack_No(t, d, p) == t

(* A red brother of the child on side d is rotated away.                   *)
BrotherBlack(t, d, p) ==
  LET w == t[Other(d)][p]
  IN  IF t.red[w]
      THEN Rotated([t EXCEPT !.red[w] = FALSE, !.red[p] = TRUE], d, p) ELSE t

(* RBDeleteFixUp: the paths through x lack a black node.  The root is the  *)
(* one from before the rotations.                                          *)
RECURSIVE DeleteFixed(_, _, _)
DeleteFixed(t, x, root) ==
  LET p   == t.parent[x]
      d   == IF x = t.left[p] THEN "left" ELSE "right"
      e   == Other(d)
      t1  == BrotherBlack(t, d, p)
      w   == t1[e][p]
      t2  == IF t1.red[t1[e][w]] THEN t1
             ELSE Rotated([t1 EXCEPT !.red[t1[d][w]] = FALSE, !.red[w] = TRUE], e, w)
      v   == t2[e][p]
      t3  == [t2 EXCEPT !.red[v] = t2.red[p], !.red[p] = FALSE, !.red[t2[e][v]] = FALSE]
  IN  IF t.red[x] \/ x = root THEN [t EXCEPT !.red[x] = FALSE]
      ELSE IF ~t1.red[t1.left[w]] /\ ~t1.red[t1.right[w]]
      THEN DeleteFixed([t1 EXCEPT !.red[w] = TRUE], p, root)
      ELSE DeleteFixed(Rotated(t3, d, p), root, root)

Freed(t, z) ==
  [f \in DOMAIN t |-> [n \in DOMAIN t[f] \ {z} |-> t[f][n]]]

(* The first half of RBDelete: y, which has at most one child x, is taken  *)
(* out.                                                                    *)
Spliced(t, y) ==
  LET x == IF t.left[y] = Nil THEN t.right[y] ELSE t.left[y]
      u == Relinked([t EXCEPT !.parent[x] = t.parent[y]], t.parent[y], y, x)
  IN  IF t.red[y] THEN u ELSE DeleteFixed(u, x, u.left[Root])

(* Bug: the children are not told of their new parent.                     *)
InPlace_Orphans(t, y, z) ==
  Relinked([t EXCEPT !.left[y] = t.left[z], !.right[y] = t.right[z],
                     !.parent[y] = t.parent[z], !.red[y] = t.red[z]],
           t.parent[z], z, y)

(* The second half: y takes the place of z.                                *)
InPlace(t, y, z) ==
  Relinked([t EXCEPT !.left[y] = t.left[z], !.right[y] = t.right[z],
                     !.parent[y] = t.parent[z], !.red[y] = t.red[z],
                     !.parent[t.right[z]] = y, !.parent[t.left[z]] = y],
           t.parent[z], z, y)

Leaving(t, z) ==
  IF t.left[z] = Nil \/ t.right[z] = Nil THEN z ELSE Neighbour(t, "right", z)

RBDelete(t, z) ==
  LET y == Leaving(t, z)
      u == Spliced(t, y)
  IN  Freed(IF y = z THEN u ELSE InPlace(u, y, z), z)

(* RBFindNodeByID, Nil for NULL.                                           *)
RECURSIVE Search(_, _, _), Search_Unsigned(_, _, _)

(* Bug: the sign of the difference of two unsigned keys decides the way.   *)
Search_Unsigned(t, x, k) ==
  IF x = Nil \/ t.key[x] = k THEN x
  ELSE Search_Unsigned(t, IF (t.key[x] - k) % 16 < 8 THEN t.left[x] ELSE t.right[x], k)

Search(t, x, k) ==
  IF x = Nil \/ t.key[x] = k THEN x
  ELSE Search(t, IF t.key[x] > k THEN t.left[x] ELSE t.right[x], k)
Find(k) == Search(tree, tree.left[Root], k)

(* --------------------------------- actions ---------------------------- *)

(* RBTreeCreate.                                                           *)
Init ==
  LET f == [n \in {Nil, Root} |-> Nil]
  IN  tree = [left |-> f, right |-> f, parent |-> f,
              red |-> [n \in {Nil, Root} |-> FALSE],
              key |-> [n \in {Nil, Root} |-> 0]]

(* A client's first join puts it into the tree.                            *)
Insert(k) ==
  /\ Find(k) = Nil
  /\ tree' = RBTreeInsert(tree, k)

(* The leave of its last group takes it out.                               *)
Delete(k) ==
  /\ Find(k) # Nil
  /\ tree' = RBDelete(tree, Find(k))

Next == \E k \in Key : Insert(k) \/ Delete(k)

Spec == Init /\ [][Next]_tree

(* -------------------------------- properties -------------------------- *)

(* InorderTreePrint, from the root down.                                   *)
RECURSIVE InOrder(_, _)
InOrder(t, x) ==
  IF x = Nil THEN <<>> ELSE InOrder(t, t.left[x]) \o <<x>> \o InOrder(t, t.right[x])
Listed == InOrder(tree, tree.left[Root])

(* The black nodes on every way down from x, -1 when the ways differ.      *)
RECURSIVE BlackHeight(_)
BlackHeight(x) ==
  IF x = Nil THEN 0
  ELSE LET l == BlackHeight(tree.left[x])
           r == BlackHeight(tree.right[x])
       IN  IF l # r \/ l = -1 THEN -1 ELSE IF tree.red[x] THEN l ELSE l + 1

(* What RBTreeInsert and RBDeleteFixUp are to restore: red nodes have      *)
(* black children, every way down has as many black nodes, so that no      *)
(* search is longer than twice another; both sentinels stay black, the     *)
(* loops rely on it instead of testing for the root.                       *)
RedBlack ==
  /\ ~tree.red[Nil] /\ ~tree.red[Root] /\ ~tree.red[tree.left[Root]]
  /\ \A n \in Clients :
       tree.red[n] => ~tree.red[tree.left[n]] /\ ~tree.red[tree.right[n]]
  /\ BlackHeight(tree.left[Root]) # -1

(* Every allocated node hangs in the tree once, and its parent is the node *)
(* it hangs from: rotations and the exchange of RBDelete lose no subtree   *)
(* and no way up.                                                          *)
LinksAgree ==
  /\ ToSet(Listed) = Clients /\ Len(Listed) = Cardinality(Clients)
  /\ \A n \in Clients :
       LET p == tree.parent[n] IN n = tree.left[p] \/ (p # Root /\ n = tree.right[p])

(* TreeSuccessor and TreePredecessor give the next and the last node in    *)
(* the order of the keys, and nil at the ends.                             *)
NeighboursAreNext ==
  \A i \in DOMAIN Listed :
    /\ Neighbour(tree, "right", Listed[i]) = IF i = Len(Listed) THEN Nil ELSE Listed[i + 1]
    /\ Neighbour(tree, "left", Listed[i]) = IF i = 1 THEN Nil ELSE Listed[i - 1]

(* The tree is the set of clients that Membership takes it for: a search   *)
(* finds a client exactly when it is in it, and a request for one client   *)
(* adds or removes this client and nobody else.                            *)
IdsOf(t) == {t.key[n] : n \in ToSet(InOrder(t, t.left[Root]))}
ServesRequests ==
  \A k \in Key :
    IF k \in IdsOf(tree)
    THEN Find(k) # Nil /\ IdsOf(RBDelete(tree, Find(k))) = IdsOf(tree) \ {k}
    ELSE Find(k) = Nil /\ IdsOf(RBTreeInsert(tree, k)) = IdsOf(tree) \cup {k}
=============================================================================
