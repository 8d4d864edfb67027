SPECIFICATION ExemptSpec
CONSTANTS
  Streams = {s1, s2}
  Callers = {c1, c2}
  None = None
  MaxGen = 3
SYMMETRY Symmetry
INVARIANTS
  IdleCloseSparesStreams
  ClosedHoldsNothing
  KeepMeansChecks
PROPERTIES
  OnlyResetCuts
CHECK_DEADLOCK FALSE
