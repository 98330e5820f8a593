SPECIFICATION FairSpec
CONSTANTS
  RegBytes = 8
  HistorySize = 4
  LookAhead = 6
  MaxHdrSize = 20
  MaxCodeLen = 15
  MaxMatch = 4
  MaxSyms = 3
  BufSize = 10
  ReadSizes = {0, 1, 3}
  MaxResets = 1
  DirtyReset = TRUE
  Byte <- MCByte
  CanFail = TRUE
  Source <- MCSource
ACTION_CONSTRAINT ResetAmongFew
INVARIANTS
  TypeOK
  Contiguous
  OnTrack
  WindowIntact
  SpillFits
  HeaderKept
  LeftBehindStream
PROPERTIES
  ReadReturns
  StreamEnds
  PlainReaderSpec
