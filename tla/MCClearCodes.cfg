SPECIFICATION FairSpec
CONSTANTS
  ECM = ECM
  TCM = TCM
  c1 = c1
  Modules <- MCModules
  Codes = {c1}
  Profiles <- MCProfiles
  MaxCommands = 3
  MaxMisses = 2
  MaxFaults = 1
INVARIANTS
  TypeOK
  OnlyNodesWithCodes
  ListIsTrue
  NoCodeHidden
PROPERTIES
  CommandEnds
CHECK_DEADLOCK FALSE
