SPECIFICATION Spec
CONSTANTS
  c1 = c1
  c2 = c2
  c3 = c3
  c4 = c4
  c5 = c5
  ip1 = ip1
  ip3 = ip3
  ip2 = ip2
  unknown = unknown
  missing = missing
  Clients = {c1, c2, c3, c4, c5}
  Forwarded <- ForwardedOf
  RealIp <- RealIpOf
  TrustProxy = "strict"
  Unknown = unknown
  Missing = missing
  Limit = 1
  Window = 2
  MaxEntries = 2
  MaxTime = 2
  MaxCalls = 3
  Sockets = {c1, c2}
  NumWsPlugins = 2
  MsgLimit = 1
  MsgWindow = 2
  HasSchema = TRUE
  MaxMessages <- MCMaxMessages
CHECK_DEADLOCK FALSE
INVARIANTS
  LimitsHold
  OpenedBehindPlugins
PROPERTY RefusalsAreFair
