SPECIFICATION Spec
CONSTANTS
  Hash <- MCHash
  ZERO_HASH = ZERO_HASH
  TimeSpace = 2
  MainLimit <- MCMainLimit
  SideLimit <- MCSideLimit
  Data = {d1, d2}
  DigestIds = {1}
  Indices = {2}
  WriteBound = 2
SYMMETRY MCSymmetry
VIEW MCView
INVARIANTS
  MainInv
  SidesDigested
PROPERTIES
  LedgerSpec
CHECK_DEADLOCK FALSE
