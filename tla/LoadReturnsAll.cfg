SPECIFICATION Spec
CONSTANTS
  Chains <- MCChains
  Size <- MCSize
  Origin <- MCOrigin
  Gap <- MCGap
  TimeSpace = 8
  Empty = {"empty"}
  B = 3
  Zero = Zero
  Bad = "bad"
  SaveBound = 1
  Vectors <- MCVectors
  BufferBound = 7
INVARIANT LoadReturnsAll
