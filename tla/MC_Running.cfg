SPECIFICATION RunningSpec
CONSTANTS
  Conns = {p1, p2}
  Names = {mysql, postgres}
  Configured = {mysql}
  MetricsEnabled = TRUE
  MaxConnections = 1
  MaxChunks = 3
  Served = {p1}
  RacingChunks = 2
  Clients = {c1}
  Broadcasters = {b1, b2}
  SendCap = 1
  BroadcastCap = 1
  MaxMessages = 4
INVARIANTS TypeOK StoppedQuiet NoSpin MapSound ServedSound
PROPERTIES StopReturns HandlerReturns PumpsReleased NobodyStuck
CHECK_DEADLOCK FALSE
