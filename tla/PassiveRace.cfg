CONSTANTS
  client = client
  driver = driver
  server = server
  None = None
  PD <- MCPD
  Id = {0, 1, 2}
  Priority <- MCPriority
  PP = {driver, server}
  Passive = {driver}
  Throttled = {}
  Channels <- ChainChannels
  Irqs <- ChainIrqs
  AppCalls <- ChainCalls
  MayFault = {}
SPECIFICATION Spec
INVARIANTS
  SignalledWhileWaiting
CHECK_DEADLOCK FALSE
