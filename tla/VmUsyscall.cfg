SPECIFICATION Spec
CONSTANTS
  Proc = {p1, p2}
  initproc = p1
  Null = Null
  NPages = 12
  PGSIZE = 4
  Fan = 3
  UintMod = 64
  Align = 2
  PtrSize = 1
  ByteBits = 2
  MAX_PAGES = 4
  ArgSizes <- SomeArgSizes
  Ranges <- SomeRanges
  Accessed <- SomeAccessed
  Nums <- SomeNums
  MaxSz = 16
  SbrkArgs <- SomeSbrkArgs
  SegEnds = {6}
INVARIANT AllocFailureReturns
CHECK_DEADLOCK FALSE
