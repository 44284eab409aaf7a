SPECIFICATION Spec
CONSTANTS
  Chains <- MCChains
  Size <- MCSize
  Origin <- MCOrigin
  Gap <- MCGap
  TimeSpace = 8
  Empty = {"empty"}
  B = 3
  Zero = Zero
  Bad = "bad"
  SaveBound = 2
  Vectors <- MCVectors
  BufferBound = 7
INVARIANTS
  BufferFits
  LoadReturnsFile
  VectorFirst
  DescriptionCovers
