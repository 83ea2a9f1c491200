CONSTANTS
  Terminals = {t1}
  AsRoot = TRUE
  Compatible <- OneAtATime
  MaxRuns = 4
  MaxFaults = 2
SPECIFICATION Spec
INVARIANTS BackupInv RerunUnblocked
PROPERTIES CopiesDelivered ImplementsStore
CHECK_DEADLOCK FALSE
