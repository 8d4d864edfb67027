SPECIFICATION FairSpec
CONSTANTS
  Users = {u1, u2}
  Dialer = Dialer
INVARIANTS
  BodyNeverLeaks
  ReadHasBody
  SlotOutlivesRequest
  FailedDialHoldsNothing
PROPERTIES
  FailedRequestReleases
  DialReturns
  CloseUnblocks
CHECK_DEADLOCK FALSE
