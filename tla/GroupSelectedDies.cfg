SPECIFICATION LiveSpec
CONSTANTS
  c1 = c1
  c2 = c2
  Client = {c1, c2}
  NULL = NULL
  NumTasks = 1
  MaxMisses = 1
  Reachable = 2
  MaxTried = 3
  MaxChurn = 0
  Mortal = {c1, c2}
  Max8 = 3
  HeapByte = {3}
CHECK_DEADLOCK FALSE
PROPERTY SelectedModeratorReplaced
