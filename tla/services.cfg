CONSTANTS
  Pids <- MCPids
  MaxCommands = 2
SPECIFICATION FairSpec
INVARIANTS TypeOK OwnChild NeverTwo StatusTells ExitsClean Obeyed
PROPERTIES ExitHappens UpRuns DownStays
CHECK_DEADLOCK FALSE
