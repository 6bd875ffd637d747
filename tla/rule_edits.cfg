\* A token is 2 units; computations are exact.
CONSTANTS
  Unit = 2
  Rounding = 0
  Buckets <- MCBuckets
  Windows <- MCWindows
  Costs = {1, 2}
  MaxTime = 3
  MaxCalls = 4
  Burst = 6
  Rate = 6
  Span = 2
  TopLimit = 3
SPECIFICATION Spec
INVARIANTS
  BucketBound
  WindowBound
  EditsInv
PROPERTY NoTokensLost
CHECK_DEADLOCK FALSE
