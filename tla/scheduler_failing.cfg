SPECIFICATION FairSpec
CONSTANTS
  Groups = {"g1", "g2"}
  Destinations <- MCDestinations
  Strict <- MCStrict
  Labels <- MCLabels
  GroupSpecs <- MCGroupSpecs
  Selector <- MCSelector
  Settings <- MCFailing
PROPERTY FailingSettles
CHECK_DEADLOCK FALSE
