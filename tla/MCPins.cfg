SPECIFICATION Spec
CONSTANTS
  Cycle = 3
  Range = 16
  Values = {1, 12}
  Free = Free
  TonePin = {1}
  Rate = {0, 1}
  NoPin = NoPin
INVARIANTS
  NotStranded
  DutyCycle
  LowStays
  EnabledIsSetUp
PROPERTIES
  PulseComes
  TimedToneEnds
