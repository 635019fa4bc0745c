SPECIFICATION UtilSpec
CONSTANTS
  Last = 35
  MaxStage = 12
  PipeSize = 1
  NOFILE = 16
  Node <- MCNode
  Kind <- MCKind
  Entries <- MCEntries
  Words <- MCWords
  Target <- MCTarget
  TooLong <- MCTooLong
  FindFiles = 6
  XargsBuf = 4
  MaxFail = 2
  MAXARG = 4
  Argc = {2, 3}
INVARIANTS
  PrintsThePrimes
  FilesSuffice
  LinesRun
PROPERTY EveryCommandEnds
CHECK_DEADLOCK FALSE
