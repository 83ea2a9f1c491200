CONSTANTS
  p1 = p1  p2 = p2  ann = ann  ben = ben  old = old  new = new
  NoEntry = NoEntry  Nobody = Nobody  Killed = Killed
  Processes <- MCProcesses
  Users <- MCUsers
  Ids <- MCIds
  Secrets <- MCSecrets
  Tries = 2
  MaxCommands = 2
  MaxFaults = 1
SPECIFICATION MCSpec
INVARIANTS TypeOK OneWriter UidsUnique
PROPERTIES BackupIsPrevious UpdatesKept NeverLockedOut PasswdWorks Ends
CHECK_DEADLOCK FALSE
