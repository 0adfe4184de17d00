SPECIFICATION Spec
CONSTANTS
  c1 = c1
  c2 = c2
  c3 = c3
  Client = {c1, c2, c3}
  NULL = NULL
  MaxBeats = 1
  TypeFile = FALSE
  Mishap = {"death"}
  MaxFaults = 1
CHECK_DEADLOCK FALSE
SYMMETRY Symmetry
INVARIANT ResultComplete
