SPECIFICATION Spec
CONSTANTS
  Conns = {c1, c2}
  AppQueue = 1
  CmdQueue = 1
  TcpBuf = 2
  MaxUp = 0
  MaxDown = 2
SYMMETRY ConnSymmetry
INVARIANTS
  NoSelfDeadlock
  DownstreamIntact
CHECK_DEADLOCK FALSE
