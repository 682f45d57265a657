CONSTANTS
  RBD_COUNT = 2
  TBD_COUNT = 2
  BUFFER_MAX = 2
  Loads <- MCLoads
SPECIFICATION Spec
PROPERTIES
  ImplementsLink
  DropsOnlyWhenFull
CHECK_DEADLOCK FALSE
