SPECIFICATION Spec
CONSTANTS
  NPROC = 3
  CPU = {c1, c2}
  None = None
  MaxPid = 3
  KillArgs = {2}
SYMMETRY CpuSymmetry
INVARIANTS
  StackExclusive
  SchedEntry
  ReleaseHolds
  LockOrder
  NoLostWakeup
  ParentsLive
  NoSlotLeak
  PidUnique
PROPERTY TreeSpec
