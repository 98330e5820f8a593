SPECIFICATION Spec
CONSTANTS
  RegBits = 16
  WindowSize = 8
  MaxMatch = 6
  MinMatch = 3
  Word = 5
  Updates = 3
  PosMod = 16
  MaxTokens = 5
  OutBits = 80
  Hash <- MCHash
  Slots <- MCSlots
  HdrWidths = {10, 13}
  LitWidths = {3, 6}
  DistWidths = {5}
  Builds = {"other"}
  DirtyReset = FALSE
  GoesOn = TRUE
  MaxFails = 1
  MaxResets = 0
  MaxFlushes = 1
  WriteSizes = {0, 7, 24}
  Texts <- MCShort
CHECK_DEADLOCK FALSE
PROPERTIES
  ErrorsStay
