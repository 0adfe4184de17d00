SPECIFICATION Spec
CONSTANTS
  c1 = c1
  c2 = c2
  p = p
  b = b
  g1 = g1
  g2 = g2
  x = x
  Client = {c1}
  Server = {p}
  Group = {g1, g2}
  Unknown = {x}
  NULL = NULL
  Primary = p
  BackupOf <- Alone
  JoinLists <- WithUnknown
  Capability = {1}
  Word = 8
  MaxRequests = 4
  MaxFaults = 2
CHECK_DEADLOCK FALSE
INVARIANTS TypeOK RegistryAgrees ListenersAreRegistered
