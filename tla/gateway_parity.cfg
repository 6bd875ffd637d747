\* One request; nothing fails.
CONSTANTS
  Callers = {c1}
  Streams = {s1}
  Tenants = {demo, t1}
  Demo = demo
  NoKey = none
  AdminKey = admin
  Items <- MCItems
  Decisions <- MCDecisions
  MaxBatch = 2
  MaxItems = 2
  Ceiling = 2
  MaxBuffer = 1
  FailPolicies = {FALSE}
SPECIFICATION Spec
INVARIANT SameContract
CHECK_DEADLOCK FALSE
