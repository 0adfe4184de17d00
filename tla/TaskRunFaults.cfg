SPECIFICATION Spec
CONSTANTS
  c1 = c1
  c2 = c2
  c3 = c3
  Client = {c1, c2, c3}
  NULL = NULL
  MaxBeats = 1
  TypeFile = TRUE
  Mishap = {"death", "loss", "deletion", "signal", "cleanup", "fetch",
            "count", "late hello", "late client", "late request"}
  MaxFaults = 1
CHECK_DEADLOCK FALSE
SYMMETRY Symmetry
INVARIANTS
  TypeOK ResultComplete HeartbeatsEnd DeposedIsTold ModeratorActs
