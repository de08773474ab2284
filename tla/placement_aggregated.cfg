SPECIFICATION FairSpec
CONSTANTS
  Placements = {"w1", "w2"}
  Settings <- MCAggregated
  Workloads <- MCWorkloads
  MaxEdits = 4
  MaxFaults = 0
INVARIANT GoneLeavesNoFiles
PROPERTIES
  StoreSettles
  DeletionCompletes
CHECK_DEADLOCK FALSE
