SPECIFICATION Spec
CONSTANTS
  ECM = ECM
  TCM = TCM
  c1 = c1
  Modules <- MCModules
  Codes = {c1}
  Profiles <- MCProfiles
  MaxCommands = 3
  MaxMisses = 2
  MaxFaults = 1
INVARIANTS
  RefusalIsTrue
CHECK_DEADLOCK FALSE
