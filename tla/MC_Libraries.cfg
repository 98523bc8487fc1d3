SPECIFICATION LibrariesSpec
CONSTANTS
  Nodes = {n1, n2, n3}
  Workers = {w1, w2}
  Preferred = n1
  FailureThreshold = 2
  MaxResponses = 4
  Requests = {q1, q2, q3}
  Threshold = 2
  MaxOutcomes = 4
  Borrowers = {b1}
  Rebalancers = {r1, r2}
  Registrations <- OneLimit
  Ceiling = 2
  Floor = 0
  MaxStep = 10
  MinStep = 2
  MaxPools = 2
  MaxStrays = 1
  Askers = {a1, a2}
  Burst = 2
  MaxBuckets = 2
  MaxRefills = 1
  Queries = {q1, q2}
  TopPriority = 2
  MaxQueueSize = 1
  Callers = {c1, c2}
  Keys <- TwoTables
  Selects = {s1, s2}
  MaxSize = 1
  MaxWrites = 1
  Contexts = {q1, q2}
  Engines <- AllKinds
  LBNodes = {l1, l2}
  Strategy = "least_connections"
  Columns = 0
  MaxRows = 0
  MaxReplaced = 1
  Requesters = {p1, p2, p3}
  MaxPlugins = 3
  Routings = {k1}
  RangeStart = 2
  RangeEnd = 6
  MaxShards = 6
  MaxHash = 7
  Sockets = {t1}
  SecretPaths = {p1, v1, f1}
  VaultPaths = {p1, v1}
  Provided = {p1}
  FieldsOf <- PathFields
  SecretClients = {c1, c2}
  MaxRotations = 1
  Conns = {o1, o2}
  MaxOff = 1
  Changes = {d1, d2}
  Subscribers = {u1, u2}
  Matching <- AllMatching
  LogSize = 1
  TimedQueries = {q1}
  TimeoutOf <- TwoTicks
  Thresholds = {1, 2}
  MaxTime = 3
INVARIANTS
  TypesOK
  FailoverSound
  CountDecides
  CountsBalance
  LimitsKept
  AdmissionBound
  OnePlace
  StaleOnlyByRace
  CountsExplained
  MapsAgree
  TargetsExist
  SecretsSound
  CountersExplained
  ChangeLogSound
  TimeoutsSound
PROPERTIES
  PromotesHealthy
  FailoverHappens
  ImplementsBreaker
  DashboardSettles
CHECK_DEADLOCK FALSE
