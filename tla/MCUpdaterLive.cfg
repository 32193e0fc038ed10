SPECIFICATION LiveSpec
CONSTANTS
  Program <- MCProgram
  Size <- MCSize
  Image <- MCImage
  AppHeader <- MCAppHeader
  Word <- MCWord
  Blank = Blank
  Torn = Torn
  None = None
  BlockWords = 2
  BlockMax = 1
  SectorBlocks = 2
  FlashFaults = FALSE
INVARIANTS
  GuidMeansHeader
  BlankEntryMeansBlankBlock
PROPERTIES
  EventuallyRuns
\* The system rests once the wanted program runs.
CHECK_DEADLOCK FALSE
