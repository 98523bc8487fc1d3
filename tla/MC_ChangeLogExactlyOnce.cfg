SPECIFICATION ChangeLogSpec
CONSTANTS
  Changes = {d1, d2}
  Subscribers = {u1}
  Matching <- NoFilter
  LogSize = 2
INVARIANT ExactlyOnce
CHECK_DEADLOCK FALSE
