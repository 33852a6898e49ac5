SPECIFICATION ReadSpec
CONSTANTS
  Last = 2
  MaxRuns = 5
  Keys <- SomeKeys
  Mandatory <- SomeMandatory
  Numbers = {"80"}
  ConfigFiles <- SomeFiles
  Cap = 10
INVARIANTS
  SettingsTypeOK
  SettingsAsWritten
  EndsForAReason
  NewestFirst
  RotationInv
  SettingsInv
PROPERTY
  OnlyOldestLost
CHECK_DEADLOCK FALSE
