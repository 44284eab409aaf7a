SPECIFICATION Spec
CONSTANTS
  Hash <- MCHash
  ZERO_HASH = ZERO_HASH
  TimeSpace = 2
  Limits <- MCLimits
  Data = {d1, d2}
  DigestIds = {1}
  Indices = {1, 2}
  WriteBound = 2
SYMMETRY MCSymmetry
INVARIANTS
  Bounded
  AddKeepsLinked
  WindowBound
  SelectOrdered
  TamperEvident
CHECK_DEADLOCK FALSE
