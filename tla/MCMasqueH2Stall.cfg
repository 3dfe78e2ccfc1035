SPECIFICATION FairSpec
CONSTANTS
  ValidateTicks = 2
  PongTicks = 1
  Required = 2
  Window = 6
  InCap = 1
  OutCap = 1
  Chunks <- MCChunks
  MaxChunks = 2
  NoTimer = NoTimer
PROPERTY StallNoticed
CHECK_DEADLOCK FALSE
