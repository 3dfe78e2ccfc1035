SPECIFICATION FairSpec
CONSTANTS
  Procs = {p1, p2}
  MaxKeys = 10
  MaxFaults = 1
  NoKey = NoKey
INVARIANTS
  TypeOK
  KeysMatch
  ReadyIsEnrolled
PROPERTIES
  GetsReady
