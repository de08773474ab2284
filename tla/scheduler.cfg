SPECIFICATION FairSpec
CONSTANTS
  Groups = {"g1", "g2"}
  Destinations <- MCDestinations
  Strict <- MCStrict
  Labels <- MCLabels
  GroupSpecs <- MCGroupSpecs
  Selector <- MCSelector
  Settings <- MCSettings
INVARIANTS
  TypeOK
  PlacementsMatchWork
  GoneWorkHasNoPlacements
  WorkRests
PROPERTY SchedulingSettles
CHECK_DEADLOCK FALSE
