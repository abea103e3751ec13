\* Two connections at a time: two descriptors, one IO loop, so that both are in
\* its containers, and a pool for one object, so that the second is deleted.
SPECIFICATION FairSpec
CONSTANTS
  Clients = {c1, c2}
  Fds = {f1, f2}
  Objects = {o1, o2, o3}
  LoopCount = 1
  PoolSize = 1
  None = None
INVARIANTS
  Ownership
  NeverUntimed
  AcceptDrains
  
PROPERTIES
  EventsKeepObjects
  GoneIsClosed
\* A data race may end the behaviour.
CHECK_DEADLOCK FALSE
