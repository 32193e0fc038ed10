SPECIFICATION Spec
CONSTANTS
  Unit = 8
  Units = 9
  Thread = {t1, t2}
  Sizes = {0, 8, 9, 24}
  Limit = 2
  Header = Header
  Junk = Junk
  None = None
INVARIANTS
  Tiled
  Coalesced
  LongEnough
  Intact
