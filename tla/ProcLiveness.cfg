SPECIFICATION FairSpec
CONSTANTS
  NPROC = 2
  CPU = {c1, c2}
  None = None
  MaxPid = 3
  KillArgs = {2}
PROPERTIES
  WaitReturns
  ExitCompletes
  RunnableRuns
  KilledExits
