SPECIFICATION Spec
CONSTANTS
  Half = 16
  Reports <- LongReports
  Garbage <- Zeros
  PipeCap = 1
  MaxStream = 18
PROPERTIES
  LengthDecoded
CHECK_DEADLOCK FALSE
