SPECIFICATION FairSpec
CONSTANTS
  Groups = {"g1", "g2"}
  Destinations <- MCDestinations
  Strict <- MCStrict
  Labels <- MCLabels
  GroupSpecs <- MCGroupSpecs
  Selector <- MCSelector
  Settings <- MCSwallowed
PROPERTY SchedulingRetried
CHECK_DEADLOCK FALSE
