SPECIFICATION Spec
CONSTANTS
  Msgs = {1, 2, 3}
  Capacity = 1
  None = None
  Mixes <- MCMixes
INVARIANTS
  PipelineInv
  PlainLostOnly
PROPERTIES
  AcceptedEnds
  ListenerNotHeld
  CancelStops
  ServesMessages
CHECK_DEADLOCK FALSE
