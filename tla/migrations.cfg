SPECIFICATION FairSpec
CONSTANTS
  Processes = {p1, p2}
  Latest = 6
  Recognised = 4
  MaxFaults = 2
INVARIANTS
  RegisterSound
PROPERTIES
  UpgradesBackedUp
  UpgradeCompletes
