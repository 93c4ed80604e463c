SPECIFICATION MCFairSpec
CONSTANT
  MaxCalls = 4
  Rates = {1, 2, 3, 4, 5, 7}
  OutputSampleRate = 3
  BufferLimit = 5
  ChunkLimit = 2
  MaxPlay = 3
  MaxInput = 8
  Clips = {1, 5}
INVARIANTS
  Sound
  StreamIsExact
PROPERTIES
  CallsReturn
CHECK_DEADLOCK FALSE
