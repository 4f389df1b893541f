CONSTANTS
  Sessions = {s1}
  Logins = {}
  Servers = {v1}
  MaxPosted = 1
  Patient = FALSE
SPECIFICATION FairSpec
PROPERTY
  QuitEnds
CHECK_DEADLOCK FALSE
