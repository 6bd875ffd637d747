CONSTANTS
  Reqs = {r1, r2}
  Limit = 1
  FailOpen = FALSE
  MaxLosses = 2
  MaxDrops = 1
SPECIFICATION FairSpec
INVARIANTS
  TypeOK
  OneAwait
  AllowsAreCharged
  ChargedOnce
  ScriptLossHidden
  ClientErrorsTrue
  ErrorsCounted
PROPERTIES
  AnswerStands
  Answered
CHECK_DEADLOCK FALSE
