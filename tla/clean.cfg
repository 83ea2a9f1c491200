CONSTANTS
  Terminals = {t1, t2}
  AsRoot = TRUE
  Compatible <- KernelAside
  MaxRuns = 5
  MaxFaults = 0
SPECIFICATION Spec
SYMMETRY Symmetry
INVARIANTS IsoBootable NoSpuriousFailure NoLeftovers
PROPERTY DoneMeansDelivered
CHECK_DEADLOCK FALSE
