CONSTANTS
  Goroutines = {g1, g2}
  Mutexes <- AllMutexes
  Methods <- AllMethods
  Suspects <- AllSuspects
  Rank <- AllRanks
  Guard <- AllGuard
  Racy <- AllRacy
SYMMETRY Permutation
SPECIFICATION Spec
INVARIANTS
  TypeOK
  LocksPaired
  NoRace
  NoDeadlock
  PathsKnown
CHECK_DEADLOCK FALSE
