SPECIFICATION FairSpec
CONSTANTS
  Placements = {"w1"}
  Settings <- MCFiles
  Workloads <- MCWorkloads
  MaxEdits = 2
  MaxFaults = 0
PROPERTY DeletionCompletes
CHECK_DEADLOCK FALSE
