SPECIFICATION Spec
CONSTANTS
  Interval <- SomeIntervals
  MaxCalls = 1
  MaxLate = 1
PROPERTY FiresAtInterval
