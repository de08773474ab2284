SPECIFICATION Spec
CONSTANTS
  Groups = {"g1", "g2"}
  Destinations <- MCDestinations
  Strict <- MCStrict
  Labels <- MCLabels
  GroupSpecs <- MCGroupSpecs
  Selector <- MCSelector
  Settings <- MCDuplicate
INVARIANT OnePlacementPerGroup
CHECK_DEADLOCK FALSE
