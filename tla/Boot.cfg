CONSTANTS
  Floating = Floating
  Entries = 2
  FirstSlot = 3
  Descriptions <- MCDescriptions
SPECIFICATION Spec
INVARIANTS
  BootCompletes
  CapsAsDescribed
  MonitorKnowsWho
  RunsOnItsOwn
  MapsAsDescribed
  IpcBuffersWritable
  InvocationsAsWritten
CHECK_DEADLOCK FALSE
