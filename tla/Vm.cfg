SPECIFICATION Spec
CONSTANTS
  Proc = {p1, p2, p3}
  initproc = p1
  Null = Null
  NPages = 24
  PGSIZE = 4
  Fan = 3
  UintMod = 64
  Align = 2
  PtrSize = 1
  ByteBits = 2
  MAX_PAGES = 4
  ArgSizes <- SomeArgSizes
  Ranges <- SomeRanges
  Accessed <- SomeAccessed
  Nums <- SomeNums
  MaxSz = 16
  SbrkArgs <- SomeSbrkArgs
  SegEnds = {6, 12}
SYMMETRY SlotSymmetry
INVARIANTS
  PagesConserved
  SizesMatchTables
  NothingLeft
  CopiesExact
  PgaccessExact
CHECK_DEADLOCK FALSE
