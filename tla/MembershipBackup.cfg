SPECIFICATION Spec
CONSTANTS
  c1 = c1
  c2 = c2
  p = p
  b = b
  g1 = g1
  g2 = g2
  x = x
  Client = {c1, c2}
  Server = {p, b}
  Group = {g1}
  Unknown = {}
  NULL = NULL
  Primary = p
  BackupOf <- Pair
  JoinLists <- OneGroup
  Capability = {1}
  Word = 8
  MaxRequests = 3
  MaxFaults = 1
CHECK_DEADLOCK FALSE
SYMMETRY Symmetry
INVARIANTS RegistryAgrees BackupMirrors
