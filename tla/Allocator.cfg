CONSTANTS
  Untyped <- MCUntyped
  AllocSize <- MCAllocSize
  KernelSize <- MCKernelSize
  FanOut = 2
  Counts = {0, 1, 3}
  FixedPages <- MCFixedPages
  MaxSlots = 5
SPECIFICATION Spec
INVARIANTS
  RetypesSucceed
  FixedWhereAsked
CHECK_DEADLOCK FALSE
