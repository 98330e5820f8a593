SPECIFICATION Spec
CONSTANTS
  RegBits = 24
  Size = 30
  OutBits = 128
  HdrWidths = {14, 20}
  LitWidths = {3, 5}
  EobWidths = {1, 2, 5}
  GoesOn = FALSE
  MaxFails = 1
  MaxResets = 0
  MaxFlushes = 1
  WriteSizes = {0, 1, 5, 37}
  Texts <- MCTexts
CHECK_DEADLOCK FALSE
INVARIANTS
  FlushOfData
