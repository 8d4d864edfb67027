SPECIFICATION FairSpec
CONSTANTS
  Dials = {d1, d2}
  Closers = {c1, c2}
  NoConn = NoConn
  MaxGen = 2
PROPERTIES
  PoolFairSpec
CHECK_DEADLOCK FALSE
