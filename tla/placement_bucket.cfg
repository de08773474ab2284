SPECIFICATION FairSpec
CONSTANTS
  Placements = {"w1"}
  Settings <- MCBucketNone
  Workloads <- MCWorkloads
  MaxEdits = 2
  MaxFaults = 1
PROPERTY StoreSettles
CHECK_DEADLOCK FALSE
