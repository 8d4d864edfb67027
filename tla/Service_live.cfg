SPECIFICATION FairSpec
CONSTANTS
  Requests = {r1}
  Users = {u1}
  HasICMP = FALSE
PROPERTIES
  CloseEnds
CHECK_DEADLOCK FALSE
