SPECIFICATION MCFairSpec
CONSTANTS
  UdpCalls = 2
  MaxCalls = 3
PROPERTIES
  EveryWaitEnds
  EveryCloseEnds
CHECK_DEADLOCK FALSE
