SPECIFICATION FairSpec
CONSTANTS
  Conns = {c1}
  AppQueue = 1
  CmdQueue = 1
  TcpBuf = 1
  MaxUp = 2
  MaxDown = 2
INVARIANTS
  FinAfterData
PROPERTIES
  OpenAnswered
  HalfCloseForwarded
  EndedIsReclaimed
CHECK_DEADLOCK FALSE
