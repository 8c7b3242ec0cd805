SPECIFICATION PoolFairSpec
CONSTANTS
  Threads = {t1, t2, t3}
  Handles = {h1, h2}
  NoHandle = NoHandle
CHECK_DEADLOCK FALSE
INVARIANTS
  NoSharing
  EveryHandleAccounted
PROPERTIES
  WaitEnds
