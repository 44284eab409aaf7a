SPECIFICATION FairSpec
CONSTANTS
  Capacity = 2
  Lengths <- MCLengths
  ReadSizes <- MCReadSizes
  Sources = {"slice", "stream"}
  Sinks = {"closure", "no_closure", "read"}
  Failures = {"closure", "stream"}
  MaxCalls = 4
INVARIANTS
  BufferInv
  Delivered
PROPERTIES
  StreamSpec
  ProducerEnds
  ConsumerEnds
\* Every task may have returned.
CHECK_DEADLOCK FALSE
