CONSTANTS
  Limit = 2
  Window = 3
  Costs = {1, 2}
  MaxTime = 5
  MaxCalls = 4
SPECIFICATION Spec
INVARIANT WaitEnough
CHECK_DEADLOCK FALSE
