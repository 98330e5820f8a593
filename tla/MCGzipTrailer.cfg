SPECIFICATION Spec
CONSTANTS
  MaxText = 3
  MaxMembers = 1
  MaxFaults = 1
  MaxResets = 1
  WriteSizes = {0, 1, 2}
  ReadSizes = {0, 1, 3}
  SizeMod = 2
  None = None
  Dicts = {None, d1}
  Readers = {"bufio"}
  Levels = {"dyn", "huffman"}
  Headers <- MCHeaders
CHECK_DEADLOCK FALSE
INVARIANTS
  CountsBytes
