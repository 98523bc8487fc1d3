--------------------------- MODULE PoolRebalancer ---------------------------
(***************************************************************************)
(* PoolRebalancerEngine (engines/pool_rebalancer_engine.go): for every     *)
(* registered pool it counts the connections in use and moves two limits.  *)
(*                                                                         *)
(* Every call looks the pool up under the engine's mutex and then works on *)
(* the pool it found under that pool's own mutex, so a pool may be         *)
(* unregistered or replaced in between. The rebalancer also reads a        *)
(* pool's limits with no mutex, and writes later what it made of them.     *)
(* Names of pools share nothing: there is one name.                        *)
(***************************************************************************)
EXTENDS Integers, FiniteSets

CONSTANTS
  Borrowers,         \* queries that use connections of the pool
  Rebalancers,       \* runRebalancer, and callers of ForceRebalance
  Registrations,     \* the limits it may be registered with: [min, max]
  Ceiling, Floor,    \* config.MaxConnections and config.MinConnections
  MaxStep, MinStep,  \* what a limit moves by (10 and 2 in the code)
  MaxPools,          \* bound of the model: registrations
  MaxStrays          \* bound of the model: releases a pool is off by

ASSUME PoolAssumption ==
  /\ IsFiniteSet(Borrowers)
  /\ Registrations \subseteq [min : Nat, max : Nat \ {0}]
  /\ \A r \in Registrations : r.min <= r.max
  /\ Ceiling \in Nat /\ Floor \in Nat
  /\ MaxStep \in Nat /\ MinStep \in Nat
  /\ MaxPools \in Nat /\ MaxStrays \in Nat

VARIABLES
  made,         \* how many pools were ever registered; they are numbered
  registered,   \* the one the name stands for, 0 for none
  asked,        \* per pool: what it was registered with
  minConns, maxConns, activeConns, idleConns,  \* the fields of each pool
  strays,       \* per pool: releases counted in it of connections that are
                \* not its own or released before, less its own that it missed
  borrower,     \* per borrower: [at, pool, lender]
  rebalancer    \* per rebalancer: [at, pool, target]

poolVars == <<made, registered, asked, minConns, maxConns, activeConns, idleConns,
              strays, borrower, rebalancer>>

Pools == 1..MaxPools

Resting == [at |-> "idle", pool |-> 0, target |-> 0]

PoolInit ==
  /\ made = 0 /\ registered = 0
  /\ asked \in [Pools -> Registrations]
  /\ minConns = [p \in Pools |-> asked[p].min]
  /\ maxConns = [p \in Pools |-> asked[p].max]
  /\ activeConns = [p \in Pools |-> 0]
  /\ idleConns = [p \in Pools |-> asked[p].min]
  /\ strays = [p \in Pools |-> 0]
  /\ borrower = [b \in Borrowers |-> [at |-> "free", pool |-> 0, lender |-> 0]]
  /\ rebalancer = [r \in Rebalancers |-> Resting]

-----------------------------------------------------------------------------
(* The fields of a pool to come stand ready in Init.                       *)
RegisterPool ==
  /\ made < MaxPools
  /\ made' = made + 1
  /\ registered' = made + 1
  /\ UNCHANGED <<asked, minConns, maxConns, activeConns, idleConns, strays,
                 borrower, rebalancer>>

UnregisterPool ==
  /\ registered # 0 /\ registered' = 0
  /\ UNCHANGED <<made, asked, minConns, maxConns, activeConns, idleConns, strays,
                 borrower, rebalancer>>

-----------------------------------------------------------------------------
BorrowerTo(b, at, pool, lender) ==
  borrower' = [borrower EXCEPT ![b] = [at |-> at, pool |-> pool, lender |-> lender]]

(* RecordConnectionAcquired: the look-up, and the count.                   *)
Seek(b) ==
  /\ borrower[b].at = "free" /\ registered # 0
  /\ BorrowerTo(b, "seeking", registered, 0)
  /\ UNCHANGED <<made, registered, asked, minConns, maxConns, activeConns, idleConns,
                 strays, rebalancer>>

Acquire(b) ==
  LET p == borrower[b].pool
  IN  /\ borrower[b].at = "seeking"
      /\ activeConns' = [activeConns EXCEPT ![p] = @ + 1]
      /\ idleConns' = [idleConns EXCEPT ![p] = @ - 1]
      /\ BorrowerTo(b, "using", 0, p)
      /\ UNCHANGED <<made, registered, asked, minConns, maxConns, strays, rebalancer>>

(* RecordConnectionReleased and ProcessResponse release alike, and both    *)
(* may be called for one connection ("again": the lender is 0).            *)
SeekRelease(b) ==
  /\ borrower[b].at \in {"using", "again"} /\ registered # 0
  /\ borrower[b].lender # registered => strays[registered] < MaxStrays
  /\ BorrowerTo(b, "returning", registered, borrower[b].lender)
  /\ UNCHANGED <<made, registered, asked, minConns, maxConns, activeConns, idleConns,
                 strays, rebalancer>>

(* The name is of no pool: an error, or nothing, and no count.             *)
ReleaseUnknown(b) ==
  /\ borrower[b].at = "using" /\ registered = 0
  /\ strays[borrower[b].lender] > -MaxStrays
  /\ strays' = [strays EXCEPT ![borrower[b].lender] = @ - 1]
  /\ BorrowerTo(b, "free", 0, 0)
  /\ UNCHANGED <<made, registered, asked, minConns, maxConns, activeConns, idleConns,
                 rebalancer>>

(* Mutant: only one of the two counters.                                   *)
Release_ActiveOnly(b) ==
  LET p == borrower[b].pool
      lender == borrower[b].lender
  IN  /\ borrower[b].at = "returning"
      /\ activeConns' = [activeConns EXCEPT ![p] = @ - 1]
      /\ strays' = [q \in Pools |-> strays[q] + (IF q = p THEN 1 ELSE 0)
                                              - (IF q = lender THEN 1 ELSE 0)]
      /\ BorrowerTo(b, IF lender = 0 THEN "free" ELSE "again", 0, 0)
      /\ UNCHANGED <<made, registered, asked, minConns, maxConns, idleConns, rebalancer>>

Release(b) ==
  LET p == borrower[b].pool
      lender == borrower[b].lender
  IN  /\ borrower[b].at = "returning"
      /\ activeConns' = [activeConns EXCEPT ![p] = @ - 1]
      /\ idleConns' = [idleConns EXCEPT ![p] = @ + 1]
      /\ strays' = [q \in Pools |-> strays[q] + (IF q = p THEN 1 ELSE 0)
                                              - (IF q = lender THEN 1 ELSE 0)]
      /\ BorrowerTo(b, IF lender = 0 THEN "free" ELSE "again", 0, 0)
      /\ UNCHANGED <<made, registered, asked, minConns, maxConns, rebalancer>>

(* The connection is released by one of the two only.                      *)
ReleasedOnce(b) ==
  /\ borrower[b].at = "again"
  /\ BorrowerTo(b, "free", 0, 0)
  /\ UNCHANGED <<made, registered, asked, minConns, maxConns, activeConns, idleConns,
                 strays, rebalancer>>

-----------------------------------------------------------------------------
Lower(x, y) == IF x < y THEN x ELSE y
Higher(x, y) == IF x < y THEN y ELSE x

RebalancerAt(r, at) == rebalancer[r].at = at

(* rebalance takes the pools of the moment, and then adjusts each.         *)
StartRebalance(r) ==
  /\ RebalancerAt(r, "idle") /\ registered # 0
  /\ rebalancer' = [rebalancer EXCEPT ![r] = [@ EXCEPT !.at = "measure", !.pool = registered]]
  /\ UNCHANGED <<made, registered, asked, minConns, maxConns, activeConns, idleConns,
                 strays, borrower>>

(* analyzeAndAdjust. Above 0.8 of the maximum in use it looks at that, and *)
(* below 0.3 at the minimum; either look comes after the mutex is let go.  *)
Measure(r) ==
  LET p == rebalancer[r].pool
  IN  /\ RebalancerAt(r, "measure")
      /\ rebalancer' = [rebalancer EXCEPT
           ![r] = CASE 10 * activeConns[p] > 8 * maxConns[p] -> [@ EXCEPT !.at = "judge max"]
                    [] 10 * activeConns[p] < 3 * maxConns[p] -> [@ EXCEPT !.at = "judge min"]
                    [] OTHER -> Resting]
      /\ UNCHANGED <<made, registered, asked, minConns, maxConns, activeConns, idleConns,
                     strays, borrower>>

JudgeMax(r) ==
  /\ RebalancerAt(r, "judge max")
  /\ rebalancer' = [rebalancer EXCEPT
       ![r] = IF maxConns[@.pool] < Ceiling THEN [@ EXCEPT !.at = "read max"] ELSE Resting]
  /\ UNCHANGED <<made, registered, asked, minConns, maxConns, activeConns, idleConns,
                 strays, borrower>>

ReadMax(r) ==
  /\ RebalancerAt(r, "read max")
  /\ rebalancer' = [rebalancer EXCEPT
       ![r] = [@ EXCEPT !.at = "write max",
                        !.target = Lower(maxConns[rebalancer[r].pool] + MaxStep, Ceiling)]]
  /\ UNCHANGED <<made, registered, asked, minConns, maxConns, activeConns, idleConns,
                 strays, borrower>>

(* Mutant: the step is added to the limit of the moment.                   *)
WriteMax_Fresh(r) ==
  /\ RebalancerAt(r, "write max")
  /\ maxConns' = [maxConns EXCEPT ![rebalancer[r].pool] = @ + MaxStep]
  /\ rebalancer' = [rebalancer EXCEPT ![r] = Resting]
  /\ UNCHANGED <<made, registered, asked, minConns, activeConns, idleConns, strays, borrower>>

WriteMax(r) ==
  /\ RebalancerAt(r, "write max")
  /\ maxConns' = [maxConns EXCEPT ![rebalancer[r].pool] = rebalancer[r].target]
  /\ rebalancer' = [rebalancer EXCEPT ![r] = Resting]
  /\ UNCHANGED <<made, registered, asked, minConns, activeConns, idleConns, strays, borrower>>

JudgeMin(r) ==
  /\ RebalancerAt(r, "judge min")
  /\ rebalancer' = [rebalancer EXCEPT
       ![r] = IF minConns[@.pool] > Floor THEN [@ EXCEPT !.at = "read min"] ELSE Resting]
  /\ UNCHANGED <<made, registered, asked, minConns, maxConns, activeConns, idleConns,
                 strays, borrower>>

ReadMin(r) ==
  /\ RebalancerAt(r, "read min")
  /\ rebalancer' = [rebalancer EXCEPT
       ![r] = [@ EXCEPT !.at = "write min",
                        !.target = Higher(minConns[rebalancer[r].pool] - MinStep, Floor)]]
  /\ UNCHANGED <<made, registered, asked, minConns, maxConns, activeConns, idleConns,
                 strays, borrower>>

WriteMin(r) ==
  /\ RebalancerAt(r, "write min")
  /\ minConns' = [minConns EXCEPT ![rebalancer[r].pool] = rebalancer[r].target]
  /\ rebalancer' = [rebalancer EXCEPT ![r] = Resting]
  /\ UNCHANGED <<made, registered, asked, maxConns, activeConns, idleConns, strays, borrower>>

Borrow(b) ==
  \/ Seek(b) \/ Acquire(b)
  \/ SeekRelease(b) \/ ReleaseUnknown(b) \/ Release(b) \/ ReleasedOnce(b)

Rebalance(r) ==
  \/ StartRebalance(r) \/ Measure(r)
  \/ JudgeMax(r) \/ ReadMax(r) \/ WriteMax(r)
  \/ JudgeMin(r) \/ ReadMin(r) \/ WriteMin(r)

PoolNext ==
  \/ RegisterPool \/ UnregisterPool
  \/ \E b \in Borrowers : Borrow(b)
  \/ \E r \in Rebalancers : Rebalance(r)

PoolSpec == PoolInit /\ [][PoolNext]_poolVars

-----------------------------------------------------------------------------
PoolsOK ==
  /\ made \in 0..MaxPools /\ registered \in 0..made
  /\ asked \in [Pools -> Registrations]
  /\ minConns \in [Pools -> Int] /\ maxConns \in [Pools -> Int]
  /\ activeConns \in [Pools -> Int] /\ idleConns \in [Pools -> Int]
  /\ strays \in [Pools -> Int]

BorrowersOK ==
  /\ borrower \in [Borrowers -> [at : {"free", "seeking", "using", "again", "returning"},
                                 pool : 0..made, lender : 0..made]]
  /\ \A b \in Borrowers :
       /\ borrower[b].at \in {"seeking", "returning"} => borrower[b].pool # 0
       /\ borrower[b].at = "using" => borrower[b].lender # 0
       /\ borrower[b].at \in {"free", "seeking", "again"} => borrower[b].lender = 0

RebalancersOK ==
  /\ rebalancer \in [Rebalancers ->
       [at : {"idle", "measure", "judge max", "read max", "write max",
              "judge min", "read min", "write min"},
        pool : 0..made, target : Int]]
  /\ \A r \in Rebalancers : rebalancer[r].at # "idle" => rebalancer[r].pool # 0

(* The variables range over what their declarations say; who works on a    *)
(* pool works on one that was registered.                                  *)
PoolTypeOK == PoolsOK /\ BorrowersOK /\ RebalancersOK

UsersOf(p) == {b \in Borrowers : borrower[b].lender = p}

(* Two counters, one total: connections are neither made nor lost by       *)
(* counting, though a pool may count one that is not its own or one that   *)
(* was released before; and those are all that Active is off by.           *)
CountsBalance ==
  \A p \in Pools :
    /\ activeConns[p] + idleConns[p] = asked[p].min
    /\ activeConns[p] = Cardinality(UsersOf(p)) - strays[p]

(* The limits stay between what was asked for and what the configuration   *)
(* allows, and in their order, though several rebalancers read them with   *)
(* no lock and write what they computed from an older value.               *)
LimitsKept ==
  \A p \in Pools :
    /\ asked[p].max <= maxConns[p] /\ maxConns[p] <= Higher(asked[p].max, Ceiling)
    /\ Lower(asked[p].min, Floor) <= minConns[p] /\ minConns[p] <= asked[p].min
    /\ minConns[p] <= maxConns[p]
=============================================================================
