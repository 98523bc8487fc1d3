--------------------------- MODULE MC_SharedState ---------------------------
(* Two goroutines are enough for two calls to meet at any two steps; that  *)
(* any number of them is no worse is proved.                               *)
EXTENDS SharedState, EngineMethods, QueryEngineMethods, ServiceMethods, TLC

Permutation == Permutations(Goroutines)

AllMethods == EngineMethods @@ QueryEngineMethods @@ ServiceMethods
AllOrders == EngineOrder @@ QueryEngineOrder @@ ServiceOrder

(* A component with no entry has the value given for it.                   *)
Filled(entries, default) == entries @@ [c \in DOMAIN AllMethods |-> default]

AllSteps == UNION {UNION {{p[i] : i \in DOMAIN p} : p \in AllMethods[c]} : c \in DOMAIN AllMethods}
AllMutexes == {step.on : step \in {s \in AllSteps : s.op \in {"Lock", "RLock"}}}

(* The rank of a mutex in an order: how many stand after it.               *)
RankIn(order) ==
  [m \in AllMutexes |->
     Cardinality({j \in DOMAIN order : \E i \in 1..(j - 1) : order[i] = m})]
AllRanks == [c \in DOMAIN AllMethods |-> RankIn(Filled(AllOrders, <<>>)[c])]

AllSuspects == Filled(EngineSuspects, {})
AllGuard == Filled(EngineGuard @@ QueryEngineGuard @@ ServiceGuard, <<>>)
AllRacy == Filled(EngineRacy @@ QueryEngineRacy @@ ServiceRacy, {})

(* The rate limit intelligence alone.                                      *)
RateLimitOnly == [ratelimit |-> RateLimit_Methods]
=============================================================================
