SPECIFICATION FairSpec
CONSTANTS
  Messages = {m}
  HighWater = 2
  MaxOutstanding = 5
  MaxUnsettled = 4
INVARIANTS
  TypeOK
  UpMeansConnected
  UpHasNoLeak
  PahoInv
PROPERTIES
  ComesBackUp
  LossIsNoticed
