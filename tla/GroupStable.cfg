SPECIFICATION Spec
CONSTANTS
  c1 = c1
  c2 = c2
  c3 = c3
  Client = {c1, c2, c3}
  NULL = NULL
  NumTasks = 3
  MaxMisses = 1
  Reachable = 2
  MaxTried = 2
  MaxChurn = 0
  Mortal = {}
  Max8 = 3
  HeapByte = {3}
CHECK_DEADLOCK FALSE
SYMMETRY Symmetry
INVARIANTS TypeOK TimerEndsWithItsState SelectionBudget PhaseMatchesFsm MonitoredModeratorIsTold
PROPERTIES DeposedOnlyAfterSilence UnreachableOnlyIfAllAsked ImplementsLifecycle
