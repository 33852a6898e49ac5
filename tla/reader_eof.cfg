SPECIFICATION FairSpec
CONSTANTS
  Half = 16
  Reports <- TwoReports
  Garbage <- Zeros
  PipeCap = 1
  MaxStream = 5
PROPERTIES
  PingIsPeriodic
CHECK_DEADLOCK FALSE
