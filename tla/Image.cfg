CONSTANTS
  Machines <- MCMachines
  Programs <- MCPrograms
  TaskSizes = {1, 4}
  Page = 2
  MaxTable = 8
  FixedRootSize = 2
  RootAlign = 4
  TaskVaddr = 48
  TableSize = 1
  Entries = 3
  FanOut = 2
  SlotSize = 1
  TableVaddr = 36
  ObjectCaps = {0, 2}
  DataSizes = {1, 4, 7}
  MaxUntypeds = 16
  BootstrapDataSize = 110
  CodeSize = 2
SPECIFICATION BootSpec
INVARIANTS
  NothingShared
  RegionsExact
  UntypedsPartition
  SegmentsFit
  ImageAccepted
  LoadedIntact
  VariablesSet
  KernelMapped
  BootstrapCompletes
  AddressesKept
  TableReadable
  AllocationsInStep
PROPERTIES
  SizesConverge
CHECK_DEADLOCK FALSE
