SPECIFICATION FairSpec
CONSTANTS
  Half = 16
  Reports <- TwoReports
  Garbage <- Zeros
  PipeCap = 1
  MaxStream = 5
PROPERTIES
  FatalIsHeeded
CHECK_DEADLOCK FALSE
