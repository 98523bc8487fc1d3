SPECIFICATION Spec
CONSTANTS
  Conns = {p1}
  Names = {mysql}
  Configured = {mysql}
  MetricsEnabled = FALSE
  MaxConnections = 1
  MaxChunks = 3
PROPERTY InFlightFinish
CHECK_DEADLOCK FALSE
