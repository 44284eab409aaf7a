SPECIFICATION Spec
CONSTANTS
  Clients = {c1, c2, c3}
  Capacity = 1
  Nobody = Nobody
INVARIANTS
  QueueInv
  NoSilence
  GoodServed
PROPERTIES
  CancelStops
  ServesFairly
CHECK_DEADLOCK FALSE
