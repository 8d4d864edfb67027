SPECIFICATION TunnelFairSpec
CONSTANTS
  Requests = {r1}
  Users = {u1}
  HasICMP = FALSE
PROPERTIES
  SessionEnds
  InterruptEndsServer
  ImplementsService
CHECK_DEADLOCK FALSE
