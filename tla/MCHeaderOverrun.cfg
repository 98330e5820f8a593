SPECIFICATION Spec
CONSTANTS
  MaxDepth = 5
  CountMod = 64
  Cutoff = 2
  LitSyms = 7
  LenExtra <- MCLenExtra
  DistSyms = 5
  RepeatBits = 1
  FewBits = 1
  ManyBits = 1
  ClcOrder <- MCClcOrder
  ClcLimit = 3
  LitBits = 4
  DistBits = 3
  LeftOvers <- MCLeftOvers
  Blocks <- MCBlocks
  Foreign <- MCForeign
CHECK_DEADLOCK FALSE
INVARIANTS
  InvalidIsAnswered
