CONSTANTS
  Sessions = {s1, s2}
  Logins = {}
  Servers = {v1}
  MaxPosted = 1
  Patient = FALSE
SYMMETRY Interchangeable
SPECIFICATION Spec
INVARIANTS
  TypeOK
  WindowSettles
  DefaultRouteRestored
CHECK_DEADLOCK FALSE
