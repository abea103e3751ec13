\* Three threads for one connection: two may wait or create at the same time.
SPECIFICATION FairSpec
CONSTANTS
  Threads = {t1, t2, t3}
  Handles = {h1, h2, h3, h4, h5}
  PoolSize = 1
  None = None
INVARIANTS
  OneOwner
  NoLostNotify
  OpenBounded
PROPERTIES
  GetReturns
\* After Destroy nobody gets a connection.
CHECK_DEADLOCK FALSE
