SPECIFICATION FairSpec
CONSTANTS
  Thread = {t1, t2}
  LineLen = 2
  PGSIZE = 3
  None = None
INVARIANTS
  LinesWhole
  LockMatches
  BacktraceComplete
PROPERTIES
  PanicReports
CHECK_DEADLOCK FALSE
