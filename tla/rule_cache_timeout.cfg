CONSTANTS
  Instances = {a}
  TTL = 2
  CommandTimeout = 1
  MaxTime = 4
  MaxEvents = 1
  MaxPending = 1
SPECIFICATION Spec
INVARIANT EditMadeIsSeen
CHECK_DEADLOCK FALSE
