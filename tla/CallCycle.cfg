CONSTANTS
  client = client
  driver = driver
  server = server
  None = None
  PD <- MCPD
  Id = {0, 1, 2}
  Priority <- MCPriority
  PP = {driver, server}
  Passive = {}
  Throttled = {}
  Channels <- ChainChannels
  Irqs <- ChainIrqs
  AppCalls <- CycleCalls
  MayFault = {}
SPECIFICATION Spec
INVARIANTS
  NoCallDeadlock
CHECK_DEADLOCK FALSE
