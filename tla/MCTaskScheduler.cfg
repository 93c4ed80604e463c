SPECIFICATION FairSpec
CONSTANTS
  Poller = {p1, p2, p3}
  Shared = {p1, p2, p3}
  Nil = Nil
  MaxCalls = 5
INVARIANTS
  OnePass
  ListSound
PROPERTIES
  TickInsidePassIsInert
  YieldLeavesNothingNew
  EachIsPolled
CHECK_DEADLOCK FALSE
