SPECIFICATION FairLoopSpec
CONSTANTS
  Hash <- MCHash
  h1 = h1
  h2 = h2
  Leaf <- MCLeaf
  MaxLen = 5
INVARIANTS
  LoopInv
  RootBindsHashes
PROPERTIES
  LoopEnds
CHECK_DEADLOCK FALSE
