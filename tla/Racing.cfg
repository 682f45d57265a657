CONSTANTS
  client = client
  driver = driver
  server = server
  None = None
  PD <- MCPD
  Id = {0, 1, 2}
  Priority <- MCPriority
  PP = {driver, server}
  Passive = {driver, server}
  Throttled <- MCPD
  Channels <- ChainChannels
  Irqs <- ChainIrqs
  AppCalls <- ChainCalls
  MayFault = {driver}
SPECIFICATION Spec
INVARIANTS
  TypeOK
  OneReplyPerCall
  CallerIsPeer
  ContextsConserved
  ActiveOwnContext
  NoCallDeadlock
PROPERTIES
  ImplementsChannels
CHECK_DEADLOCK FALSE
