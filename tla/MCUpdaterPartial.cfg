SPECIFICATION Spec
CONSTANTS
  Program <- MCProgram
  Size <- MCSize
  Image <- MCImage
  AppHeader <- MCAppHeader
  Word <- MCWord
  Blank = Blank
  Torn = Torn
  None = None
  BlockWords = 2
  BlockMax = 2
  SectorBlocks = 2
  FlashFaults = FALSE
INVARIANT RunsVerifiedApp
