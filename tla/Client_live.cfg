SPECIFICATION PlainSpec
CONSTANTS
  Streams = {s1, s2}
  Callers = {c1}
  None = None
  MaxGen = 3
PROPERTIES
  CallsReturn
  ClosedDrains
  IdleDrains
CHECK_DEADLOCK FALSE
