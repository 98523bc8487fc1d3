SPECIFICATION HandlerSpec
CONSTANTS
  Conns = {p1, p2}
  Names = {mysql}
  MaxConnections = 1
  MaxChunks = 2
INVARIANT WithinMaxConnections
CHECK_DEADLOCK FALSE
