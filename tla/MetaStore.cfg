SPECIFICATION MetaSpec
CONSTANTS
  u1 = u1
  u2 = u2
  n1 = n1
  n2 = n2
  Saves = {1, 2, 3, 4}
  Uuids = {u1, u2}
  Names = {n1, n2}
  Uuid <- MCUuid
  FileName <- MCFileName
  TooLong = {4}
  Unasked = Unasked
  Missing = Missing
  NoSave = NoSave
INVARIANTS
  ListInv
  MetaAfterFile
PROPERTIES
  CatalogueSpec
CHECK_DEADLOCK FALSE
