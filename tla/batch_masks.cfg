CONSTANTS
  Size = 2
  Limit = 1
  FailOpen = TRUE
  MaxFlushes = 0
SPECIFICATION FairSpec
PROPERTY NeverMasked
CHECK_DEADLOCK FALSE
