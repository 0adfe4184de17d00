SPECIFICATION Spec
CONSTANTS
  MaxClients = 3
  MaxLines = 9
  MaxCapability = 3
  Garbage <- Leftovers
  Tenth = 2
  Word = 8
  Wide = 32
  MaxDeaths = 1
INVARIANTS
  TypeOK
  PartsAreTheFile
  AnswerIsRight
  AmpleFilesAreSafe
CHECK_DEADLOCK FALSE
