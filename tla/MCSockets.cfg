SPECIFICATION MCSpec
CONSTANTS
  UdpCalls = 3
  MaxCalls = 4
INVARIANTS
  Sound
  DatagramsAreSound
PROPERTIES
  ConnectIsReported
CHECK_DEADLOCK FALSE
