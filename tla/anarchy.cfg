CONSTANTS
  Terminals = {t1, t2}
  AsRoot = FALSE
  Compatible <- Anything
  MaxRuns = 3
  MaxFaults = 1
SPECIFICATION Spec
SYMMETRY Symmetry
INVARIANT CommittedKept
CHECK_DEADLOCK FALSE
