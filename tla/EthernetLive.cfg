CONSTANTS
  RBD_COUNT = 1
  TBD_COUNT = 1
  BUFFER_MAX = 1
  Loads <- MCSmallLoads
SPECIFICATION FairSpec
PROPERTIES
  FramesMoveOn
  ReceiverRestarts
CHECK_DEADLOCK FALSE
