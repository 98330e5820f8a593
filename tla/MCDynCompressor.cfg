SPECIFICATION FairSpec
CONSTANTS
  RegBits = 16
  WindowSize = 8
  MaxMatch = 6
  MinMatch = 3
  Word = 5
  Updates = 3
  PosMod = 16
  MaxTokens = 5
  OutBits = 80
  Hash <- MCHash
  Slots <- MCSlots
  HdrWidths = {13}
  LitWidths = {3, 6}
  DistWidths = {5}
  Builds = {"amd64", "other"}
  DirtyReset = FALSE
  GoesOn = FALSE
  MaxFails = 1
  MaxResets = 1
  MaxFlushes = 2
  WriteSizes = {0, 7, 24}
  Texts <- MCTexts
CHECK_DEADLOCK FALSE
INVARIANTS
  TypeOK
  WindowHolds
  LooksBackInWindow
  NothingLost
  TokensCoded
  OutputFits
  OnlyGivenData
PROPERTIES
  PlainWriterSpec
  CallsReturn
