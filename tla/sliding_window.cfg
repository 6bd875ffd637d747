\* Three units in any three milliseconds; over seven milliseconds every entry
\* can leave twice.
CONSTANTS
  Limit = 3
  Window = 3
  Costs = {1, 2}
  MaxTime = 7
  MaxCalls = 6
SPECIFICATION Spec
INVARIANTS
  WindowBound
  NoEarlierSlot
  WaitEnoughForOne
  IInv
PROPERTY ImplementsEagerWindow
CHECK_DEADLOCK FALSE
