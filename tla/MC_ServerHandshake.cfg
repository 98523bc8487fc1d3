SPECIFICATION Spec
CONSTANTS
  Conns = {p1}
  Names = {mysql}
  Configured = {mysql}
  MetricsEnabled = FALSE
  MaxConnections = 1
  MaxChunks = 2
INVARIANT HandshakeReachesHandler
CHECK_DEADLOCK FALSE
