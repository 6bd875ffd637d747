CONSTANTS
  RestCalls = {r1, r2}
  GrpcCalls = {g1}
  Streams = {s1}
  CallTime = 1
  Deadline = 2
SPECIFICATION FairSpec
INVARIANTS
  TypeOK
  NoneDropped
  
PROPERTIES
  ShutdownEnds
  Boots
CHECK_DEADLOCK FALSE
