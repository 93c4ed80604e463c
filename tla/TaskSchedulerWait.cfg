SPECIFICATION FairSpec
CONSTANTS
  Poller = {p1, p2, p3}
  Shared = {}
  Nil = Nil
  MaxCalls = 4
PROPERTIES
  NestedWaitPollsItsTask
CHECK_DEADLOCK FALSE
