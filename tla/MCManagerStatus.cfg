SPECIFICATION Spec
CONSTANTS
  MaxProcs = 2
  MaxLines = 1
  MaxToggles = 0
  JobsMayFail = FALSE
INVARIANT StatusShown
CHECK_DEADLOCK FALSE
