SPECIFICATION FairSpec
CONSTANTS
  MaxText = 2
  MaxMembers = 2
  MaxFaults = 1
  MaxResets = 2
  WriteSizes = {0, 1, 2}
  ReadSizes = {0, 2}
  SizeMod = 2
  None = None
  Dicts = {None, d1}
  Readers = {"bufio"}
  Levels = {"dyn", "huffman"}
  Headers <- MCHeaders
CHECK_DEADLOCK FALSE
INVARIANTS
  EofMeansAll
  IntactReads
  ArrivedIsRead
PROPERTIES
  ReadReturns
