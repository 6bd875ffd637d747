\* A token is 4 units, the bucket holds 12 units (3 tokens) and refills 2 units
\* (half a token) each millisecond: full after 6 ms.  A computation errs by a
\* quarter of a token.
CONSTANTS
  Unit = 4
  Rounding = 1
  Capacity = 12
  Refill = 2
  Costs = {1, 3}
  MaxTime = 7
  MaxRuns = 2
SPECIFICATION Spec
INVARIANTS
  AdmissionBound
  IInv
PROPERTY ImplementsEagerBucket
CHECK_DEADLOCK FALSE
