CONSTANTS
  Sessions = {s1}
  Logins = {l1}
  Servers = {v1}
  MaxPosted = 1
  Patient = TRUE
SPECIFICATION Spec
INVARIANT
  GatewayKnown
CHECK_DEADLOCK FALSE
