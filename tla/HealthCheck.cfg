SPECIFICATION FairSpec
CONSTANTS
  Checks = {k1, k2, k3}
  T = 7
INVARIANTS
  StoppedIsQuiet
  KeepsBeating
  ChecksDoNotPileUp
  BeatsInTime
PROPERTIES
  ComesToRest
CHECK_DEADLOCK FALSE
