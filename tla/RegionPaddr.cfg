CONSTANTS
  Untyped <- MCUntyped
  AllocSize <- MCAllocSize
  KernelSize <- MCAllocSize
  FanOut = 2
  Counts = {0, 1, 3}
  FixedPages = {}
  MaxSlots = 6
SPECIFICATION Spec
INVARIANTS
  PageAddressesKnown
CHECK_DEADLOCK FALSE
