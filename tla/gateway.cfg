\* Two requests of any kind; a bus that keeps one event.
CONSTANTS
  Callers = {c1, c2}
  Streams = {s1}
  Tenants = {demo, t1}
  Demo = demo
  NoKey = none
  AdminKey = admin
  Items <- MCItems
  Decisions <- MCDecisions
  MaxBatch = 2
  MaxItems = 3
  Ceiling = 2
  MaxBuffer = 1
  FailPolicies = {TRUE, FALSE}
SPECIFICATION Spec
SYMMETRY MCSymmetry
INVARIANTS
  TypeOK
  KeysGivenWork
  NothingMissed
  CountersAddUp
  HeadersCoverTheWait
  SameVerdict
CHECK_DEADLOCK FALSE
