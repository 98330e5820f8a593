SPECIFICATION Spec
CONSTANTS
  RegBytes = 8
  HistorySize = 4
  LookAhead = 6
  MaxHdrSize = 20
  MaxCodeLen = 15
  MaxMatch = 4
  MaxSyms = 3
  BufSize = 10
  ReadSizes = {0, 1, 3}
  MaxResets = 1
  DirtyReset = TRUE
  Byte <- MCByte
  CanFail = FALSE
  Source <- MCReset
INVARIANTS
  FreshAfterReset
