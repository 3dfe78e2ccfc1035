SPECIFICATION FairSpec
CONSTANTS
  MaxProcs = 2
  MaxLines = 1
  MaxToggles = 1
  JobsMayFail = TRUE
INVARIANTS
  NoLostEngine
  ProxyNotForgotten
PROPERTY ProxyOnConnect
CHECK_DEADLOCK FALSE
