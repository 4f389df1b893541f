CONSTANTS
  BufSize = 8
  Heads = {4, 5}
  Bodies = {2, 3}
  Garbage <- AnyGarbage
  SplitHeads = FALSE
  MaxSent = 3
SPECIFICATION Spec
INVARIANTS
  TypeOK
  NothingHeldBack
PROPERTY
  ImplementsPacketStream
