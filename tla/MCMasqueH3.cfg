SPECIFICATION FairSpec
CONSTANTS
  InCap = 1
  OutCap = 1
  Ingest = 1
  MaxApp = 2
  ValidateTicks = 2
  Required = 2
  NetCap = 1
  MaxPkts = 4
  NoTimer = NoTimer
  NoStream = NoStream
INVARIANTS
  TypeOK
  ExposedAfterTraffic
PROPERTIES
  ImplementsTunnel
  EdgeNoticed
  ValidationEnds
  StackFollows
CHECK_DEADLOCK FALSE
