SPECIFICATION FairSpec
CONSTANTS
  InCap = 1
  OutCap = 1
  Ingest = 1
  MaxApp = 3
  MaxPkts = 2
  MaxTimer = 1
INVARIANTS
  JunkFirst
PROPERTIES
  FlushEnds
  TasksFollow
CHECK_DEADLOCK FALSE
