SPECIFICATION FairSpec
CONSTANTS
  HighWater = 1
  MaxOutstanding = 3
  MaxUnsettled = 3
  MaxCrashes = 1
INVARIANTS
  TypeOK
  OnlineStays
  BridgeInv
PROPERTY
  OnlineAgain
