SPECIFICATION Spec
CONSTANTS
  One = 16
  Incr = 3
  Adj = 1
  FilterSize = 3
  RunThresh = 4
  HoldoverThresh = 1
  Holdout = 6
  BatchSamples = 11
INVARIANTS
  TypeOK
  BitsInBounds
  LowRateIsTimed
  HoldoverWithinRun
