CONSTANTS
  Terminals = {t1, t2}
  AsRoot = TRUE
  Compatible <- Anything
  MaxRuns = 4
  MaxFaults = 0
SPECIFICATION Spec
INVARIANT NothingLost
CHECK_DEADLOCK FALSE
