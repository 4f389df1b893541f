CONSTANTS
  Hdr = 2
  BufSize = 4
  Lengths <- AnyLengths
  Junk <- AnyJunk
  MaxSent = 3
SPECIFICATION Spec
INVARIANTS
  TypeOK
  RelayHasRoom
