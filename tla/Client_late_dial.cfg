SPECIFICATION Spec
CONSTANTS
  Streams = {s1, s2}
  Callers = {c1}
  None = None
  MaxGen = 3
INVARIANTS
  SuspendedKeepsNothing
CHECK_DEADLOCK FALSE
