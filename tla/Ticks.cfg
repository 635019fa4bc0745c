SPECIFICATION FairSpec
CONSTANTS
  NPROC = 2
  TickMod = 4
  Args <- MCArgs
  MaxLate = 1
  None = None
  Clock = Clock
INVARIANTS
  ReturnsOnTime
  NoOversleep
PROPERTIES
  KilledReturns
  SleepEnds
