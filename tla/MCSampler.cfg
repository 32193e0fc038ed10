SPECIFICATION Spec
CONSTANTS
  N = 4
  Budget = 3
  FlagMod = 3
INVARIANTS
  BatchIsWhole
  NoBatchLost
