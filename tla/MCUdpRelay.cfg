SPECIFICATION UdpFairSpec
CONSTANTS
  t1 = t1
  t2 = t2
  Tasks <- MCTasks
  Roles <- MCRoles
  AppCap = 1
  DataCap = 1
  CmdCap = 1
  BufCap = 1
  Chunk = 1
  MaxOpens = 3
  MaxReqs = 1
  MaxData = 2
INVARIANTS
  UdpTypeOK
  SocketsOwned
PROPERTIES
  ServiceEnds
  LookupEnds
  AssocReclaimed
CHECK_DEADLOCK FALSE
