CONSTANTS
  Instances = {a, b}
  TTL = 1
  CommandTimeout = 1
  MaxTime = 3
  MaxEvents = 2
  MaxPending = 2
SYMMETRY Symmetry
SPECIFICATION Spec
INVARIANTS
  TypeOK
  StaleBound
  EditReturnedIsSeen
CHECK_DEADLOCK FALSE
