CONSTANTS
  Size = 3
  Limit = 1
  FailOpen = TRUE
  MaxFlushes = 2
SPECIFICATION FairSpec
INVARIANTS
  TypeOK
  Positional
  SpendsOnce
  ScriptLossHidden
PROPERTY Answered
CHECK_DEADLOCK FALSE
