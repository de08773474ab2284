SPECIFICATION FairSpec
CONSTANTS
  Placements = {"w1"}
  Settings <- MCFiles
  Workloads <- MCWorkloads
  MaxEdits = 4
  MaxFaults = 1
INVARIANTS
  TypeOK
  GoneLeavesNoFiles
  PlacementsRest
PROPERTY StoreSettles
CHECK_DEADLOCK FALSE
