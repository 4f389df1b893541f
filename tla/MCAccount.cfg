CONSTANTS
  SelectWait = 1
  Limit = 2
  DayLimits = {0, 2}
  MonthLimits = {0, 3}
  DayUsed = 1
  MonthUsed = 2
  Reach = 3
  Burst = 1
SPECIFICATION AccountFairSpec
INVARIANTS
  AccountTypeOK
  StopSeen
PROPERTIES
  StopEnds
  DeadPeerNoticed
  QuotaEnforced
CHECK_DEADLOCK FALSE
