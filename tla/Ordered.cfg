CONSTANTS
  client = client
  driver = driver
  server = server
  None = None
  PD <- MCPD
  Id = {0, 1, 2}
  Priority <- MCPriority
  PP = {driver, server}
  Passive = {server}
  Throttled = {}
  Channels <- ChainChannels
  Irqs <- ChainIrqs
  AppCalls <- ChainCalls
  MayFault = {}
SPECIFICATION FairSpec
INVARIANTS
  NeverStranded
  SignalledWhileWaiting
PROPERTIES
  NotificationsHandled
  CallsReturn
CHECK_DEADLOCK FALSE
