SPECIFICATION FairSpec
CONSTANTS
  a1 = a1
  a2 = a2
  a3 = a3
  b1 = b1
  Cands <- MCCands
  Lists <- MCLists
  Modes <- MCModes
  Deadline = 2
  Rtts = {1, 2}
  NoResult = NoResult
  Horizon = 3
INVARIANTS
  FastestWins
  GivesUpHonestly
  StopsForReason
PROPERTY HuntEnds
CHECK_DEADLOCK FALSE
