SPECIFICATION FairSpec
CONSTANTS
  FireKeys = {"ctrl", "w"}
  ConsoleKeys = {"w"}
  Taps = {"esc", "enter", "n"}
  UsbMax = 1
  MaxTyped = 0
  MaxCommands = 2
PROPERTY AnswersTheDialog
CHECK_DEADLOCK FALSE
