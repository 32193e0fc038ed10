SPECIFICATION Spec
CONSTANTS
  Program <- MCTwo
  Size <- MCSize
  Image <- MCImage
  AppHeader <- MCAppHeader
  Word <- MCWord
  Blank = Blank
  Torn = Torn
  None = None
  BlockWords = 2
  BlockMax = 1
  SectorBlocks = 2
  FlashFaults = TRUE
INVARIANTS
  TypeOK
  CompleteMeansVerified
PROPERTIES
  StoreSpec
  UpdaterStartsVerifiedApp
  NoOverprogram
