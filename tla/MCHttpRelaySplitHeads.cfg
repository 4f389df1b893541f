CONSTANTS
  BufSize = 8
  Heads = {4, 5}
  Bodies = {2, 3}
  Garbage <- Leftovers
  SplitHeads = TRUE
  MaxSent = 3
SPECIFICATION Spec
INVARIANT
  OnlyWholePackets
