SPECIFICATION FairSpec
CONSTANTS
  Conns = {p1}
  Names = {mysql}
  Configured = {mysql}
  MetricsEnabled = TRUE
  MaxConnections = 1
  MaxChunks = 1
PROPERTIES GracefulShutdown
CHECK_DEADLOCK FALSE
