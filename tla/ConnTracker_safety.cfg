SPECIFICATION Spec
CONSTANTS
  Dials = {d1, d2, d3}
  Closers = {c1, c2}
  NoConn = NoConn
  MaxGen = 2
SYMMETRY Symmetry
INVARIANTS
  NoEscape
  NewcomersSpared
PROPERTIES
  PoolSpec
CHECK_DEADLOCK FALSE
