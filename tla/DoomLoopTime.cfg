SPECIFICATION FairSpec
CONSTANTS
  TicRate = 3
  Second = 10
  Width = 128
  BackupTics = 6
  MaxAhead = 5
  MaxWipe = 8
  Tics = 12
PROPERTIES
  GoesOn
