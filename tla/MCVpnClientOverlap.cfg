CONSTANTS
  Sessions = {s1, s2}
  Logins = {}
  Servers = {v1}
  MaxPosted = 1
  Patient = FALSE
SPECIFICATION Spec
INVARIANT
  OneSession
CHECK_DEADLOCK FALSE
