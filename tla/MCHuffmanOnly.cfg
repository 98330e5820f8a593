SPECIFICATION FairSpec
CONSTANTS
  RegBits = 24
  Size = 30
  OutBits = 128
  HdrWidths = {14, 20}
  LitWidths = {3, 5}
  EobWidths = {1, 2, 5}
  GoesOn = FALSE
  MaxFails = 1
  MaxResets = 1
  MaxFlushes = 1
  WriteSizes = {0, 11, 32}
  Texts <- MCTexts
CHECK_DEADLOCK FALSE
INVARIANTS
  TypeOK
  OutputFits
  NothingLost
  OnlyNewData
PROPERTIES
  PlainWriterSteps
  CallsReturn
