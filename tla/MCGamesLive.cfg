SPECIFICATION MCFairSpec
CONSTANTS
  Weapons = {"fist", "pistol", "chaingun", "supershotgun", "missile"}
  Max <- DoomAmmo
  Clip <- DoomClip
  BfgCells = 2
  Generous = FALSE
  Bottom = 1
  TicRate = 3
  Second = 10
  Width = 1280
  BackupTics = 6
  MaxAhead = 5
  MaxWipe = 8
  Tics = 12
  Doors = {"door"}
  Lifts = {"lift", "lift2"}
  Crushers = {"crusher", "crusher2"}
  Levels <- DoomLevels
  InitFloor <- DoomFloor
  InitCeiling <- DoomCeiling
  LowFloor = 0
  HighFloor = 1
  DoorTop = 2
  HighCeiling = 2
  Thing = 2
  Reached = {"door", "lift", "crusher"}
  CrushGap = 1
  WaitTime = 1
  MaxPlats = 1
  MaxCeilings = 1
  Leftover = {0, 3}
  ByHand = {"door", "lift"}
  Address = {1, 2}
  Frames = 6
  MixAhead = 3
  SubmitFrames = 2
  TimeLimit = 14
  InRate = 3
  OutRate = 4
INVARIANTS
  Sound
  RunsWhatWasMade
  OneStepUnderWay
  HandsOutWhatWasPainted
PROPERTIES
  DoomGoesOn
  QuakeGoesOn
CHECK_DEADLOCK FALSE
