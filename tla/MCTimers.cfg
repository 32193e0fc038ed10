SPECIFICATION Spec
CONSTANTS
  t1 = t1
  t2 = t2
  c1 = c1
  c2 = c2
  Timer = {t1, t2}
  Sleeper = {s1}
  Delay = {1, 2}
  SystimeMod = 16
  Callback = {c1, c2}
  Use <- MCUse
  Null = Null
  Slots = 2
  CountMod = 4
INVARIANTS
  ArmedOwnsSlot
  CalledOnce
  CountIsExact
PROPERTIES
  ClockSpec
  EventuallyCalled
