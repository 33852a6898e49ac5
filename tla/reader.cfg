SPECIFICATION FairSpec
CONSTANTS
  Half = 16
  Reports <- SomeReports
  Garbage <- SomeGarbage
  PipeCap = 2
  MaxStream = 10
INVARIANTS
  TypeOK
  FeedInv
PROPERTIES
  FeedKept
  ReadReturns
CHECK_DEADLOCK FALSE
