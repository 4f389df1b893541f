CONSTANTS
  Hdr = 2
  BufSize = 4
  Lengths <- FittingLengths
  Junk = {}
  MaxSent = 4
SPECIFICATION Spec
INVARIANTS
  Aligned
  Intact
  InOrder
  NothingHeldBack
PROPERTY
  ImplementsPacketStream
