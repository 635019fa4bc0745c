SPECIFICATION FairSpec
CONSTANTS
  Interval <- SomeIntervals
  MaxCalls = 3
  MaxLate = 2
INVARIANTS
  NoReentry
PROPERTIES
  RestoresRegisters
  CountsTicks
  AlarmComes
