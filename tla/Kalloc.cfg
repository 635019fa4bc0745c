SPECIFICATION FairSpec
CONSTANTS
  NPages = 3
  Thread = {t1, t2}
  None = None
  UserWord = {1}
INVARIANTS
  EveryPageOnce
  FreememExact
PROPERTIES
  AllocatorSpec
  CallsReturn
