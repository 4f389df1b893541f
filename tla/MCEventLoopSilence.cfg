CONSTANTS
  SelectWait = 2
  Limit = 4
SPECIFICATION FairSpec
PROPERTY
  SilenceEnds
CHECK_DEADLOCK FALSE
