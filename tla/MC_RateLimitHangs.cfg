CONSTANTS
  Goroutines = {g1}
  Mutexes <- AllMutexes
  Methods <- RateLimitOnly
  Suspects <- AllSuspects
  Rank <- AllRanks
  Guard <- AllGuard
  Racy <- AllRacy
SPECIFICATION Spec
INVARIANT NeverHangs
CHECK_DEADLOCK FALSE
