CONSTANTS
  Floating = Floating
  Entries = 2
  FirstSlot = 3
  Descriptions <- MCDescriptions
SPECIFICATION Spec
INVARIANTS
  OverlapsRejected
CHECK_DEADLOCK FALSE
