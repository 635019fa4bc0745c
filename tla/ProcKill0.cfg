SPECIFICATION Spec
CONSTANTS
  NPROC = 2
  CPU = {c1}
  None = None
  MaxPid = 2
  KillArgs = {0}
PROPERTY BornUnkilled
