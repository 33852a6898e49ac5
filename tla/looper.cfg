SPECIFICATION FairSpec
CONSTANT Buttons = {b1, b2}
INVARIANTS
  TypeOK
  HoldsCounted
  HoldsRemembered
  NoAssertFails
  LooperInv
PROPERTIES
  TopicsKept
  EpochsEnd
