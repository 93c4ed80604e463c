SPECIFICATION MCSpec
CONSTANTS
  Source = {s1, s2}
  Callback = {k1, k2}
  Delay = {d1, d2}
  None = None
  MaxCalls = 4
  Byte = {0, 1}
  BufferSize = 3
  MaxLength = 4
INVARIANTS
  Sound
  ClosedIsSaved
PROPERTIES
  RunsOnceUnlessRemoved
  ImplementsByteStream
SYMMETRY Symmetry
CHECK_DEADLOCK FALSE
