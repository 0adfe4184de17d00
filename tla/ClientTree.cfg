SPECIFICATION Spec
CONSTANTS
  Key <- Ids
  Nil = Nil
  Root = Root
INVARIANTS
  TypeOK
  RedBlack
  LinksAgree
  NeighboursAreNext
  ServesRequests
