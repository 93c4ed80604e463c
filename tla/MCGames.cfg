SPECIFICATION MCSpec
CONSTANTS
  LastMap = 2
  Demos = 2
  MaxAhead = 2
  Ambients = 1
  Dynamics = 2
  Statics = 1
  Sfx <- Sounds
  NoSfx = "none"
  Length <- SoundLength
  LoopStart <- SoundLoop
  AmbientSfx <- AmbientSound
  Entity = {1, 2}
  View = 1
  MaxSkip = 2
  Ahead = 2
  MaxTime = 2
  FireKeys = {"ctrl", "w"}
  ConsoleKeys = {"w"}
  Taps = {"esc", "enter", "tilde"}
  UsbMax = 1
  MaxTyped = 1
  MaxCommands = 2
INVARIANTS
  Sound
  NoStuckKey
  FiresWhileHeld
  ReadsInsideSound
PROPERTIES
  LoadedOnce
CHECK_DEADLOCK FALSE
