SPECIFICATION Spec
CONSTANTS
  Characters <- SomeCharacters
  Numbers = {"0", "1", "2"}
  Addresses = {"m1", "m2"}
  Modes = {"mqtt", "interact"}
  Inputs <- SomeInputs
  Settings <- SomeSettings
  WordSize = 4
  CopySize = 2
  LineSize = 10
  CmdSize = 8
  MaxEpochs = 1
INVARIANTS
  TypeOK
  CommandInv
  AskedInOrder
  PacketsWhole
  AllAsked
  StopsForAReason
CHECK_DEADLOCK FALSE
