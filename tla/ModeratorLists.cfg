SPECIFICATION Spec
CONSTANTS
  me = me
  peer1 = peer1
  peer2 = peer2
  w1 = w1
  w2 = w2
  Client = {me, peer1, peer2}
  Self = me
  Worker = {w1, w2}
  Cell = {1, 2, 3, 4, 5}
  Pending = Pending
  Done = Done
  Null = Null
  TaskLists <- Requests
  Intervention = {"cleanup", "update"}
SYMMETRY Alike
INVARIANTS
  TypeOK
  ListsWhole
  PartsAccounted
  OwnPartsFirst
CHECK_DEADLOCK FALSE
