SPECIFICATION FairSpec
CONSTANTS
  Wrap = 48
  Hour = 8
  Minute = 2
  Pause = 2
INVARIANTS
  TypeOK
  ClockInv
PROPERTIES
  HourAwayFromWrap
  ReadsGoOn
