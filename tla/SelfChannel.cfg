CONSTANTS
  Floating = Floating
  Entries = 2
  FirstSlot = 3
  Descriptions <- SelfChannels
SPECIFICATION Spec
INVARIANTS
  DuplicateIdsRejected
CHECK_DEADLOCK FALSE
