SPECIFICATION MCFairSpec
CONSTANTS
  Object = {o, p}
  None = None
  Field = {f}
  Static = {s}
  Size <- ObjectSize
  MaxFrames = 2
  ZoneSize = 30
  DoomZoneSize = 20
  ZoneHeader = 2
  Header = 2
  MinFragment = 2
  Align = 2
  Lump = {"l", "m"}
  LumpSize <- LumpLength
  DoomSize = {1, 3}
  QuakeSize = {1, 3, 6}
  Trash = 1
INVARIANTS
  MemoryIsWhole
  FailsOnlyWhenFull
  DecodesTheFormat
  CollectsGarbage
PROPERTIES
  FreesWhatItMay
  ImplementsLru
  AllCallsReturn
CHECK_DEADLOCK FALSE
