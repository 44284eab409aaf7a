SPECIFICATION Spec
CONSTANTS
  Nodes = {"p", "q"}
  Msgs <- MCMsgs
  Reader = "q"
  H = 2
  MAX = 7
  SendBound = 2
  Zero = Zero
INVARIANTS
  FramesInv
  AcceptedAsSent
CHECK_DEADLOCK FALSE
