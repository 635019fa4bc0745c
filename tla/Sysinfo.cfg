SPECIFICATION Spec
CONSTANTS
  NPROC = 3
  NPages = 5
  KPages = 1
  Mask <- MCMask
  Caller = {1}
  None = None
INVARIANTS
  SysinfoTruth
  TraceInherited
