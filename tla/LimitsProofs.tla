---------------------------- MODULE LimitsProofs ----------------------------
(***************************************************************************)
(* Proofs about PoolRebalancer, RateLimits and PoolOptimizer, for any      *)
(* borrowers, rebalancers, askers and connections, and for all limits and  *)
(* bounds.                                                                 *)
(*                                                                         *)
(* PoolRebalancer: CountsBalance is inductive as it stands. LimitsKept is  *)
(* not: a limit is written from what a rebalancer read some steps before.  *)
(* TargetsKept says that what it carries is good for the pool whatever has *)
(* happened since: the maximum is raised only in a pool that was           *)
(* registered with less than the ceiling, and the minimum lowered only in  *)
(* one with more than the floor.                                           *)
(*                                                                         *)
(* RateLimits: AdmissionBound counts what was made, what is in the map and *)
(* what was retired, and LimitsTypeOK says that an asker holds a bucket    *)
(* that was made. Fresh adds that a bucket to come is full and unused, so  *)
(* that a new limit, which takes tokens from it, takes none that was       *)
(* admitted.                                                               *)
(*                                                                         *)
(* PoolOptimizer: CountersExplained is inductive with the types; each call *)
(* is counted once against the table it finds.                             *)
(***************************************************************************)
EXTENDS PoolRebalancer, RateLimits, PoolOptimizer, FiniteSetTheorems, TLAPS

TargetKept(now) ==
  /\ now.at = "read max" => asked[now.pool].max < Ceiling
  /\ now.at = "write max" =>
       asked[now.pool].max <= now.target /\ now.target <= Higher(asked[now.pool].max, Ceiling)
  /\ now.at = "read min" => Floor < asked[now.pool].min
  /\ now.at = "write min" =>
       Lower(asked[now.pool].min, Floor) <= now.target /\ now.target <= asked[now.pool].min

TargetsKept == \A r \in Rebalancers : TargetKept(rebalancer[r])

PoolInv == PoolTypeOK /\ LimitsKept /\ TargetsKept /\ CountsBalance

Moments == {"idle", "measure", "judge max", "read max", "write max",
            "judge min", "read min", "write min"}

countVars == <<activeConns, idleConns, strays>>

-----------------------------------------------------------------------------
(* What the types say of numbers, in one place.                            *)
LEMMA PoolNumbers ==
  ASSUME PoolTypeOK
  PROVE  /\ made \in Nat /\ registered \in 0..made /\ 0..made \subseteq Pools \cup {0}
         /\ \A p \in Pools : /\ asked[p].min \in Nat /\ asked[p].max \in Nat
                             /\ asked[p].min <= asked[p].max
         /\ Ceiling \in Nat /\ Floor \in Nat /\ MaxStep \in Nat /\ MinStep \in Nat
BY PoolAssumption DEF PoolTypeOK, PoolsOK, Pools, PoolAssumption

LEMMA PoolStarts == PoolInit => PoolInv
<1> SUFFICES ASSUME PoolInit PROVE PoolInv
  OBVIOUS
<1> USE PoolAssumption DEF PoolAssumption
<1>1. \A p \in Pools : /\ asked[p].min \in Nat /\ asked[p].max \in Nat
                       /\ asked[p].min <= asked[p].max
  BY DEF PoolInit
<1>2. PoolTypeOK
  BY <1>1 DEF PoolInit, PoolTypeOK, PoolsOK, BorrowersOK, RebalancersOK, Resting
<1>3. LimitsKept
  BY <1>1 DEF PoolInit, LimitsKept, Lower, Higher
<1>4. TargetsKept
  BY DEF PoolInit, TargetsKept, TargetKept, Resting
<1>5. ASSUME NEW p \in Pools
      PROVE  activeConns[p] + idleConns[p] = asked[p].min /\
             activeConns[p] = Cardinality(UsersOf(p)) - strays[p]
  <2>1. UsersOf(p) = {}
    BY DEF PoolInit, UsersOf, Pools
  <2>2. Cardinality(UsersOf(p)) = 0
    BY <2>1, FS_EmptySet
  <2> QED
    BY <1>1, <2>2 DEF PoolInit
<1> QED
  BY <1>2, <1>3, <1>4, <1>5 DEF PoolInv, CountsBalance

-----------------------------------------------------------------------------
(* A borrower moves: the lender of its connection, if any, is some pool.   *)
LEMMA BorrowerMoves ==
  ASSUME BorrowersOK, NEW b \in Borrowers, UNCHANGED made,
         NEW at \in {"free", "seeking", "using", "again", "returning"},
         NEW pool \in 0..made, NEW lender \in 0..made, BorrowerTo(b, at, pool, lender),
         at \in {"seeking", "returning"} => pool # 0,
         at = "using" => lender # 0,
         at \in {"free", "seeking", "again"} => lender = 0
  PROVE  BorrowersOK'
BY DEF BorrowersOK, BorrowerTo

(* A borrower's step keeps the types.                                      *)
LEMMA BorrowTypes ==
  ASSUME PoolTypeOK, NEW b \in Borrowers, Borrow(b)
  PROVE  PoolTypeOK'
<1> DEFINE p == borrower[b].pool
           lender == borrower[b].lender
<1>0. /\ p \in 0..made /\ lender \in 0..made
      /\ 0 \in 0..made /\ registered \in 0..made /\ 0..made \subseteq Pools \cup {0}
  BY PoolNumbers DEF PoolTypeOK, BorrowersOK
<1>1. UNCHANGED <<made, registered, asked, minConns, maxConns, rebalancer>>
  BY DEF Borrow, Seek, Acquire, SeekRelease, ReleaseUnknown, Release, ReleasedOnce
<1>2. RebalancersOK'
  BY <1>1 DEF PoolTypeOK, RebalancersOK
<1>3. BorrowersOK'
  <2> USE DEF PoolTypeOK
  <2>1. CASE Seek(b)
    BY <1>0, <1>1, <2>1, BorrowerMoves DEF Seek
  <2>2. CASE Acquire(b)
    <3>1. p # 0
      BY <2>2 DEF Acquire, BorrowersOK
    <3> QED
      BY <1>0, <1>1, <2>2, <3>1, BorrowerMoves DEF Acquire
  <2>3. CASE SeekRelease(b)
    BY <1>0, <1>1, <2>3, BorrowerMoves DEF SeekRelease
  <2>4. CASE ReleaseUnknown(b) \/ Release(b) \/ ReleasedOnce(b)
    <3>1. BorrowerTo(b, "free", 0, 0) \/ BorrowerTo(b, "again", 0, 0)
      BY <2>4 DEF ReleaseUnknown, Release, ReleasedOnce
    <3> QED
      BY <1>0, <1>1, <3>1, BorrowerMoves
  <2> QED
    BY <2>1, <2>2, <2>3, <2>4 DEF Borrow
<1>4. countVars' \in [Pools -> Int] \X [Pools -> Int] \X [Pools -> Int]
  <2> USE DEF countVars, PoolTypeOK, PoolsOK
  <2>1. CASE Seek(b) \/ SeekRelease(b) \/ ReleasedOnce(b)
    BY <2>1 DEF Seek, SeekRelease, ReleasedOnce
  <2>2. CASE Acquire(b)
    BY <2>2, <1>0 DEF Acquire
  <2>3. CASE ReleaseUnknown(b)
    BY <2>3, <1>0 DEF ReleaseUnknown
  <2>4. CASE Release(b)
    BY <2>4, <1>0 DEF Release
  <2> QED
    BY <2>1, <2>2, <2>3, <2>4 DEF Borrow
<1>5. PoolsOK'
  BY <1>1, <1>4 DEF PoolTypeOK, PoolsOK, countVars
<1> QED
  BY <1>2, <1>3, <1>5 DEF PoolTypeOK

(* A rebalancer that looks and decides moves, and changes nothing else.    *)
Thinks(r) ==
  StartRebalance(r) \/ Measure(r) \/ JudgeMax(r) \/ ReadMax(r) \/ JudgeMin(r) \/ ReadMin(r)

LEMMA ThinkMoves ==
  ASSUME PoolTypeOK, NEW r \in Rebalancers, Thinks(r)
  PROVE  /\ rebalancer' \in [Rebalancers -> [at : Moments, pool : 0..made, target : Int]]
         /\ \A q \in Rebalancers \ {r} : rebalancer'[q] = rebalancer[q]
         /\ rebalancer'[r].at # "idle" => rebalancer'[r].pool # 0
<1>0. /\ rebalancer \in [Rebalancers -> [at : Moments, pool : 0..made, target : Int]]
      /\ rebalancer[r].at # "idle" => rebalancer[r].pool # 0
      /\ registered \in 0..made
  BY PoolNumbers DEF PoolTypeOK, RebalancersOK, Moments
<1>1. CASE StartRebalance(r)
  BY <1>0, <1>1 DEF StartRebalance, Moments
<1>2. CASE Measure(r) \/ JudgeMax(r) \/ JudgeMin(r)
  <2>1. Resting \in [at : Moments, pool : 0..made, target : Int] /\ Resting.at = "idle"
    BY PoolNumbers DEF Resting, Moments
  <2>2. rebalancer[r].pool # 0
    BY <1>0, <1>2 DEF Measure, JudgeMax, JudgeMin, RebalancerAt
  <2>3. PICK at \in Moments :
          \/ rebalancer' = [rebalancer EXCEPT ![r] = [rebalancer[r] EXCEPT !.at = at]]
          \/ rebalancer' = [rebalancer EXCEPT ![r] = Resting]
    BY <1>2 DEF Measure, JudgeMax, JudgeMin, Moments
  <2> QED
    BY <1>0, <2>1, <2>2, <2>3
<1>3. CASE ReadMax(r) \/ ReadMin(r)
  <2>1. rebalancer[r].pool # 0 /\ rebalancer[r].pool \in Pools
    BY <1>0, <1>3, PoolNumbers DEF ReadMax, ReadMin, RebalancerAt
  <2>2. /\ Lower(maxConns[rebalancer[r].pool] + MaxStep, Ceiling) \in Int
        /\ Higher(minConns[rebalancer[r].pool] - MinStep, Floor) \in Int
    BY <2>1, PoolNumbers DEF PoolTypeOK, PoolsOK, Lower, Higher
  <2>3. PICK at \in {"write max", "write min"}, target \in Int :
          rebalancer' = [rebalancer EXCEPT
            ![r] = [rebalancer[r] EXCEPT !.at = at, !.target = target]]
    BY <1>3, <2>2 DEF ReadMax, ReadMin
  <2> QED
    BY <1>0, <2>1, <2>3 DEF Moments
<1> QED
  BY <1>1, <1>2, <1>3 DEF Thinks

LEMMA ThinkChanges ==
  ASSUME NEW r \in Rebalancers, Thinks(r)
  PROVE  UNCHANGED <<made, registered, asked, minConns, maxConns,
                     activeConns, idleConns, strays, borrower>>
BY DEF Thinks, StartRebalance, Measure, JudgeMax, ReadMax, JudgeMin, ReadMin

LEMMA RebalanceTypes ==
  ASSUME PoolTypeOK, NEW r \in Rebalancers, Rebalance(r)
  PROVE  PoolTypeOK'
<1>1. UNCHANGED <<made, registered, asked, activeConns, idleConns, strays, borrower>>
  BY ThinkChanges DEF Rebalance, Thinks, WriteMax, WriteMin
<1>2. BorrowersOK'
  BY <1>1 DEF PoolTypeOK, BorrowersOK
<1>3. CASE Thinks(r)
  <2>1. /\ rebalancer' \in [Rebalancers -> [at : Moments, pool : 0..made', target : Int]]
        /\ \A q \in Rebalancers : rebalancer'[q].at # "idle" => rebalancer'[q].pool # 0
    BY <1>1, <1>3, ThinkMoves DEF PoolTypeOK, RebalancersOK
  <2>2. PoolsOK'
    BY <1>3, ThinkChanges DEF PoolTypeOK, PoolsOK
  <2> QED
    BY <1>2, <2>1, <2>2 DEF PoolTypeOK, RebalancersOK, Moments
<1>4. CASE WriteMax(r) \/ WriteMin(r)
  <2>1. rebalancer[r].pool \in Pools /\ rebalancer[r].target \in Int
    BY <1>4, PoolNumbers DEF WriteMax, WriteMin, RebalancerAt, PoolTypeOK, RebalancersOK
  <2>2. maxConns' \in [Pools -> Int] /\ minConns' \in [Pools -> Int]
    BY <1>4, <2>1 DEF WriteMax, WriteMin, PoolTypeOK, PoolsOK
  <2>3. PoolsOK'
    BY <1>1, <2>2 DEF PoolTypeOK, PoolsOK
  <2>4. rebalancer' = [rebalancer EXCEPT ![r] = Resting]
    BY <1>4 DEF WriteMax, WriteMin
  <2>5. Resting \in [at : Moments, pool : 0..made, target : Int] /\ Resting.at = "idle"
    BY PoolNumbers DEF Resting, Moments
  <2>6. RebalancersOK'
    BY <1>1, <2>4, <2>5 DEF PoolTypeOK, RebalancersOK, Moments
  <2> QED
    BY <1>2, <2>3, <2>6 DEF PoolTypeOK
<1> QED
  BY <1>3, <1>4 DEF Rebalance, Thinks

LEMMA TypeStep ==
  ASSUME PoolTypeOK, [PoolNext]_poolVars
  PROVE  PoolTypeOK'
<1>1. CASE RegisterPool \/ UnregisterPool \/ UNCHANGED poolVars
  <2>1. /\ made' \in 0..MaxPools /\ registered' \in 0..made'
        /\ 0..made \subseteq 0..made'
    BY <1>1, PoolAssumption
       DEF RegisterPool, UnregisterPool, poolVars, PoolTypeOK, PoolsOK, PoolAssumption
  <2>2. UNCHANGED <<asked, minConns, maxConns, activeConns, idleConns, strays,
                    borrower, rebalancer>>
    BY <1>1 DEF RegisterPool, UnregisterPool, poolVars
  <2>3. PoolsOK'
    BY <2>1, <2>2 DEF PoolTypeOK, PoolsOK
  <2>4. BorrowersOK'
    BY <2>1, <2>2 DEF PoolTypeOK, BorrowersOK
  <2>5. RebalancersOK'
    BY <2>1, <2>2 DEF PoolTypeOK, RebalancersOK
  <2> QED
    BY <2>3, <2>4, <2>5 DEF PoolTypeOK
<1> QED
  BY <1>1, BorrowTypes, RebalanceTypes DEF PoolNext

-----------------------------------------------------------------------------
(* What lends or takes back connections leaves the limits alone.           *)
LEMMA BorrowChanges ==
  ASSUME NEW b \in Borrowers, Borrow(b)
  PROVE  UNCHANGED <<made, registered, asked, minConns, maxConns, rebalancer>>
BY DEF Borrow, Seek, Acquire, SeekRelease, ReleaseUnknown, Release, ReleasedOnce

(* The pool a rebalancer works on.                                         *)
LEMMA AtWork ==
  ASSUME PoolTypeOK, LimitsKept, NEW r \in Rebalancers, rebalancer[r].at # "idle"
  PROVE  LET p == rebalancer[r].pool
         IN  /\ p \in Pools
             /\ asked[p].min \in Nat /\ asked[p].max \in Nat
             /\ minConns[p] \in Int /\ maxConns[p] \in Int
             /\ asked[p].max <= maxConns[p] /\ minConns[p] <= asked[p].min
             /\ Ceiling \in Nat /\ Floor \in Nat /\ MaxStep \in Nat /\ MinStep \in Nat
<1> DEFINE p == rebalancer[r].pool
<1>1. p # 0 /\ p \in 0..made
  BY DEF PoolTypeOK, RebalancersOK
<1>2. p \in Pools
  BY <1>1, PoolNumbers
<1> QED
  BY <1>2, PoolNumbers DEF LimitsKept, PoolTypeOK, PoolsOK

(* It decides on the limits of the moment, which LimitsKept bounds.        *)
LEMMA ThinkTargets ==
  ASSUME PoolTypeOK, LimitsKept, TargetsKept, NEW r \in Rebalancers, Thinks(r)
  PROVE  LimitsKept' /\ TargetsKept'
<1> DEFINE p == rebalancer[r].pool
           then == rebalancer'[r]
<1>0. rebalancer \in [Rebalancers -> [at : Moments, pool : 0..made, target : Int]]
  BY DEF PoolTypeOK, RebalancersOK, Moments
<1>1. UNCHANGED <<asked, minConns, maxConns>>
  BY ThinkChanges
<1>2. LimitsKept'
  BY <1>1 DEF LimitsKept, Pools
<1>3. TargetKept(then) => TargetsKept'
  <2>1. ASSUME NEW q \in Rebalancers, q # r
        PROVE  TargetKept(rebalancer'[q])
    BY <2>1, ThinkMoves DEF TargetsKept
  <2> QED
    BY <1>1, <2>1 DEF TargetsKept, TargetKept
<1>4. rebalancer[r].at # "idle" =>
        /\ asked[p].min \in Nat /\ asked[p].max \in Nat
        /\ minConns[p] \in Int /\ maxConns[p] \in Int
        /\ asked[p].max <= maxConns[p] /\ minConns[p] <= asked[p].min
        /\ Ceiling \in Nat /\ Floor \in Nat /\ MaxStep \in Nat /\ MinStep \in Nat
  BY AtWork
<1>5. Resting.at = "idle"
  BY DEF Resting
<1>6. CASE StartRebalance(r) \/ Measure(r)
  <2>1. PICK at \in {"measure", "judge max", "judge min"} :
          \/ rebalancer' = [rebalancer EXCEPT ![r] = [rebalancer[r] EXCEPT !.at = at]]
          \/ rebalancer' = [rebalancer EXCEPT ![r] = Resting]
          \/ StartRebalance(r)
    BY <1>6 DEF Measure
  <2>2. then.at = at \/ then.at = "measure" \/ then = Resting
    BY <1>0, <2>1 DEF StartRebalance
  <2>3. then.at \in {"measure", "idle", "judge max", "judge min"}
    BY <1>5, <2>2
  <2> QED
    BY <1>2, <1>3, <2>3 DEF TargetKept
<1>7. CASE JudgeMax(r)
  <2>1. CASE maxConns[p] < Ceiling
    <3>1. then.at = "read max" /\ then.pool = p
      BY <1>0, <1>7, <2>1 DEF JudgeMax
    <3>2. asked[p].max < Ceiling
      <4>1. rebalancer[r].at # "idle"
        BY <1>7 DEF JudgeMax, RebalancerAt
      <4> QED
        BY <1>4, <2>1, <4>1
    <3> QED
      BY <1>2, <1>3, <3>1, <3>2 DEF TargetKept
  <2>2. CASE ~(maxConns[p] < Ceiling)
    <3>1. then = Resting
      BY <1>0, <1>7, <2>2 DEF JudgeMax
    <3> QED
      BY <1>2, <1>3, <1>5, <3>1 DEF TargetKept
  <2> QED
    BY <2>1, <2>2
<1>8. CASE JudgeMin(r)
  <2>1. CASE minConns[p] > Floor
    <3>1. then.at = "read min" /\ then.pool = p
      BY <1>0, <1>8, <2>1 DEF JudgeMin
    <3>2. Floor < asked[p].min
      <4>1. rebalancer[r].at # "idle"
        BY <1>8 DEF JudgeMin, RebalancerAt
      <4> QED
        BY <1>4, <2>1, <4>1
    <3> QED
      BY <1>2, <1>3, <3>1, <3>2 DEF TargetKept
  <2>2. CASE ~(minConns[p] > Floor)
    <3>1. then = Resting
      BY <1>0, <1>8, <2>2 DEF JudgeMin
    <3> QED
      BY <1>2, <1>3, <1>5, <3>1 DEF TargetKept
  <2> QED
    BY <2>1, <2>2
<1>9. CASE ReadMax(r)
  <2>1. /\ then.at = "write max" /\ then.pool = p
        /\ then.target = Lower(maxConns[p] + MaxStep, Ceiling)
    BY <1>0, <1>9 DEF ReadMax
  <2>2. asked[p].max < Ceiling
    BY <1>9 DEF ReadMax, RebalancerAt, TargetsKept, TargetKept
  <2>3. rebalancer[r].at # "idle"
    BY <1>9 DEF ReadMax, RebalancerAt
  <2>4. asked[p].max <= then.target /\ then.target <= Higher(asked[p].max, Ceiling)
    <3> DEFINE new == Lower(maxConns[p] + MaxStep, Ceiling)
    <3>1. asked[p].max <= new /\ new <= Higher(asked[p].max, Ceiling)
      BY <1>4, <2>2, <2>3 DEF Lower, Higher
    <3> QED
      BY <2>1, <3>1
  <2> QED
    BY <1>2, <1>3, <2>1, <2>4 DEF TargetKept
<1>10. CASE ReadMin(r)
  <2>1. /\ then.at = "write min" /\ then.pool = p
        /\ then.target = Higher(minConns[p] - MinStep, Floor)
    BY <1>0, <1>10 DEF ReadMin
  <2>2. Floor < asked[p].min
    BY <1>10 DEF ReadMin, RebalancerAt, TargetsKept, TargetKept
  <2>3. rebalancer[r].at # "idle"
    BY <1>10 DEF ReadMin, RebalancerAt
  <2>4. Lower(asked[p].min, Floor) <= then.target /\ then.target <= asked[p].min
    <3> DEFINE new == Higher(minConns[p] - MinStep, Floor)
    <3>1. Lower(asked[p].min, Floor) <= new /\ new <= asked[p].min
      BY <1>4, <2>2, <2>3 DEF Lower, Higher
    <3> QED
      BY <2>1, <3>1
  <2> QED
    BY <1>2, <1>3, <2>1, <2>4 DEF TargetKept
<1> QED
  BY <1>6, <1>7, <1>8, <1>9, <1>10 DEF Thinks

(* It writes what it carries into the pool it is for.                      *)
LEMMA WriteLimits ==
  ASSUME PoolTypeOK, LimitsKept, TargetsKept, NEW r \in Rebalancers,
         WriteMax(r) \/ WriteMin(r)
  PROVE  LimitsKept' /\ TargetsKept'
<1> DEFINE p == rebalancer[r].pool
           target == rebalancer[r].target
<1>1. /\ UNCHANGED asked
      /\ rebalancer' = [rebalancer EXCEPT ![r] = Resting]
  BY DEF WriteMax, WriteMin
<1>2. TargetsKept'
  BY <1>1 DEF TargetsKept, TargetKept, Resting, PoolTypeOK, RebalancersOK
<1>3. p \in Pools /\ target \in Int
  <2>1. p # 0 /\ p \in 0..made /\ target \in Int
    BY DEF WriteMax, WriteMin, RebalancerAt, PoolTypeOK, RebalancersOK
  <2> QED
    BY <2>1, PoolNumbers
<1>4. ASSUME NEW q \in Pools
      PROVE  /\ asked[q].max <= maxConns'[q] /\ maxConns'[q] <= Higher(asked[q].max, Ceiling)
             /\ Lower(asked[q].min, Floor) <= minConns'[q] /\ minConns'[q] <= asked[q].min
             /\ minConns'[q] <= maxConns'[q]
  <2>1. /\ asked[q].min \in Nat /\ asked[q].max \in Nat /\ asked[q].min <= asked[q].max
        /\ minConns[q] \in Int /\ maxConns[q] \in Int
    BY PoolNumbers DEF PoolTypeOK, PoolsOK
  <2>2. /\ asked[q].max <= maxConns[q] /\ maxConns[q] <= Higher(asked[q].max, Ceiling)
        /\ Lower(asked[q].min, Floor) <= minConns[q] /\ minConns[q] <= asked[q].min
    BY DEF LimitsKept
  <2>3. CASE WriteMax(r)
    <3>1. asked[p].max <= target /\ target <= Higher(asked[p].max, Ceiling)
      BY <2>3 DEF WriteMax, RebalancerAt, TargetsKept, TargetKept
    <3>2. /\ maxConns'[q] = IF q = p THEN target ELSE maxConns[q]
          /\ minConns'[q] = minConns[q]
      BY <2>3 DEF WriteMax, PoolTypeOK, PoolsOK
    <3> QED
      BY <1>3, <2>1, <2>2, <3>1, <3>2
  <2>4. CASE WriteMin(r)
    <3>1. Lower(asked[p].min, Floor) <= target /\ target <= asked[p].min
      BY <2>4 DEF WriteMin, RebalancerAt, TargetsKept, TargetKept
    <3>2. /\ minConns'[q] = IF q = p THEN target ELSE minConns[q]
          /\ maxConns'[q] = maxConns[q]
      BY <2>4 DEF WriteMin, PoolTypeOK, PoolsOK
    <3> QED
      BY <1>3, <2>1, <2>2, <3>1, <3>2
  <2> QED
    BY <2>3, <2>4
<1>5. LimitsKept'
  BY <1>1, <1>4 DEF LimitsKept, Pools
<1> QED
  BY <1>2, <1>5

LEMMA PoolLimitsStep ==
  ASSUME PoolTypeOK, LimitsKept, TargetsKept, [PoolNext]_poolVars
  PROVE  LimitsKept' /\ TargetsKept'
<1>1. ASSUME UNCHANGED <<asked, minConns, maxConns, rebalancer>>
      PROVE  LimitsKept' /\ TargetsKept'
  BY <1>1 DEF LimitsKept, TargetsKept, TargetKept, Pools
<1>2. CASE RegisterPool \/ UnregisterPool \/ UNCHANGED poolVars
  BY <1>1, <1>2 DEF RegisterPool, UnregisterPool, poolVars
<1>3. ASSUME NEW b \in Borrowers, Borrow(b)
      PROVE  LimitsKept' /\ TargetsKept'
  BY <1>1, <1>3, BorrowChanges
<1>4. ASSUME NEW r \in Rebalancers, Rebalance(r)
      PROVE  LimitsKept' /\ TargetsKept'
  BY <1>4, ThinkTargets, WriteLimits DEF Rebalance, Thinks
<1> QED
  BY <1>2, <1>3, <1>4 DEF PoolNext

-----------------------------------------------------------------------------
(* How many use a pool's connections, when a borrower changes hands.       *)
LEMMA UsersChange ==
  ASSUME PoolTypeOK, NEW b \in Borrowers, NEW at, NEW pool, NEW lender,
         BorrowerTo(b, at, pool, lender), NEW q \in Pools
  PROVE  /\ Cardinality(UsersOf(q)) \in Nat
         /\ Cardinality(UsersOf(q))' = Cardinality(UsersOf(q))
              + (IF q = lender THEN 1 ELSE 0) - (IF q = borrower[b].lender THEN 1 ELSE 0)
<1>1. IsFiniteSet(UsersOf(q)) /\ Cardinality(UsersOf(q)) \in Nat
  <2>1. UsersOf(q) \in SUBSET Borrowers /\ IsFiniteSet(Borrowers)
    BY PoolAssumption DEF UsersOf, PoolAssumption
  <2>2. IsFiniteSet(UsersOf(q))
    BY <2>1, FS_Subset
  <2> QED
    BY <2>2, FS_CardinalityType
<1>2. \A c \in Borrowers : borrower'[c].lender = IF c = b THEN lender ELSE borrower[c].lender
  BY DEF BorrowerTo, PoolTypeOK, BorrowersOK
<1>3. b \in UsersOf(q) <=> q = borrower[b].lender
  BY DEF UsersOf
<1>4. CASE q = lender
  <2>1. UsersOf(q)' = UsersOf(q) \cup {b}
    BY <1>2, <1>4 DEF UsersOf
  <2>2. Cardinality(UsersOf(q) \cup {b}) =
          IF b \in UsersOf(q) THEN Cardinality(UsersOf(q)) ELSE Cardinality(UsersOf(q)) + 1
    BY <1>1, FS_AddElement
  <2> QED
    BY <1>1, <1>3, <1>4, <2>1, <2>2
<1>5. CASE q # lender
  <2>1. UsersOf(q)' = UsersOf(q) \ {b}
    BY <1>2, <1>5 DEF UsersOf
  <2>2. Cardinality(UsersOf(q) \ {b}) =
          IF b \in UsersOf(q) THEN Cardinality(UsersOf(q)) - 1 ELSE Cardinality(UsersOf(q))
    BY <1>1, FS_RemoveElement
  <2> QED
    BY <1>1, <1>3, <1>5, <2>1, <2>2
<1> QED
  BY <1>1, <1>4, <1>5

Balanced(p) ==
  /\ activeConns[p] + idleConns[p] = asked[p].min
  /\ activeConns[p] = Cardinality(UsersOf(p)) - strays[p]

LEMMA BorrowBalance ==
  ASSUME PoolTypeOK, CountsBalance, NEW b \in Borrowers, Borrow(b), NEW q \in Pools
  PROVE  Balanced(q)'
<1> DEFINE p == borrower[b].pool
           lender == borrower[b].lender
           users == Cardinality(UsersOf(q))
<1>1. /\ activeConns[q] \in Int /\ idleConns[q] \in Int /\ strays[q] \in Int
      /\ asked[q].min \in Nat /\ UNCHANGED asked
  BY PoolNumbers, BorrowChanges DEF PoolTypeOK, PoolsOK
<1>2. activeConns[q] + idleConns[q] = asked[q].min /\ activeConns[q] = users - strays[q]
  BY DEF CountsBalance
<1>3. CASE Seek(b) \/ SeekRelease(b) \/ ReleasedOnce(b)
  <2>1. \E at, pool : BorrowerTo(b, at, pool, lender)
    BY <1>3 DEF Seek, SeekRelease, ReleasedOnce, PoolTypeOK, BorrowersOK
  <2>2. users \in Nat /\ users' = users
    BY <2>1, UsersChange
  <2>3. UNCHANGED countVars
    BY <1>3 DEF Seek, SeekRelease, ReleasedOnce, countVars
  <2> QED
    BY <1>1, <1>2, <2>2, <2>3 DEF Balanced, countVars
<1>4. CASE Acquire(b)
  <2>1. lender = 0 /\ lender # q
    BY <1>4 DEF Acquire, PoolTypeOK, BorrowersOK, Pools
  <2>2. users \in Nat /\ users' = users + (IF q = p THEN 1 ELSE 0)
    BY <1>4, <2>1, UsersChange DEF Acquire
  <2>3. /\ activeConns'[q] = activeConns[q] + (IF q = p THEN 1 ELSE 0)
        /\ idleConns'[q] = idleConns[q] - (IF q = p THEN 1 ELSE 0)
        /\ strays' = strays
    BY <1>1, <1>4 DEF Acquire, PoolTypeOK, PoolsOK
  <2> QED
    BY <1>1, <1>2, <2>2, <2>3 DEF Balanced
<1>5. CASE ReleaseUnknown(b)
  <2>1. users \in Nat /\ users' = users - (IF q = lender THEN 1 ELSE 0)
    <3>1. q # 0
      BY DEF Pools
    <3> QED
      BY <1>5, <3>1, UsersChange DEF ReleaseUnknown
  <2>2. /\ strays'[q] = strays[q] - (IF q = lender THEN 1 ELSE 0)
        /\ UNCHANGED <<activeConns, idleConns>>
    BY <1>1, <1>5 DEF ReleaseUnknown, PoolTypeOK, PoolsOK
  <2> QED
    BY <1>1, <1>2, <2>1, <2>2 DEF Balanced
<1>6. CASE Release(b)
  <2>1. users \in Nat /\ users' = users - (IF q = lender THEN 1 ELSE 0)
    <3>1. q # 0
      BY DEF Pools
    <3> QED
      BY <1>6, <3>1, UsersChange DEF Release
  <2>2. /\ activeConns'[q] = activeConns[q] - (IF q = p THEN 1 ELSE 0)
        /\ idleConns'[q] = idleConns[q] + (IF q = p THEN 1 ELSE 0)
    BY <1>1, <1>6 DEF Release, PoolTypeOK, PoolsOK
  <2>3. strays'[q] = strays[q] + (IF q = p THEN 1 ELSE 0) - (IF q = lender THEN 1 ELSE 0)
    BY <1>6 DEF Release
  <2> QED
    BY <1>1, <1>2, <2>1, <2>2, <2>3 DEF Balanced
<1> QED
  BY <1>3, <1>4, <1>5, <1>6 DEF Borrow

LEMMA BalanceStep ==
  ASSUME PoolTypeOK, CountsBalance, [PoolNext]_poolVars
  PROVE  CountsBalance'
<1>1. ASSUME UNCHANGED <<asked, activeConns, idleConns, strays, borrower>>
      PROVE  CountsBalance'
  BY <1>1 DEF CountsBalance, UsersOf, Pools
<1>2. CASE RegisterPool \/ UnregisterPool \/ UNCHANGED poolVars
  BY <1>1, <1>2 DEF RegisterPool, UnregisterPool, poolVars
<1>3. ASSUME NEW b \in Borrowers, Borrow(b)
      PROVE  CountsBalance'
  BY <1>3, BorrowBalance DEF CountsBalance, Balanced, Pools
<1>4. ASSUME NEW r \in Rebalancers, Rebalance(r)
      PROVE  CountsBalance'
  BY <1>1, <1>4, ThinkChanges DEF Rebalance, Thinks, WriteMax, WriteMin
<1> QED
  BY <1>2, <1>3, <1>4 DEF PoolNext

-----------------------------------------------------------------------------
LEMMA PoolAlways == PoolSpec => []PoolInv
<1>1. PoolInv /\ [PoolNext]_poolVars => PoolInv'
  BY TypeStep, PoolLimitsStep, BalanceStep DEF PoolInv
<1> QED
  BY <1>1, PoolStarts, PTL DEF PoolSpec

(* The variables range over what their declarations say; who works on a    *)
(* pool works on one that was registered.                                  *)
THEOREM PoolTypeCorrect == PoolSpec => []PoolTypeOK
BY PoolAlways, PTL DEF PoolInv

(* However many rebalancers read the limits of a pool with no lock and     *)
(* write later what they made of them, the limits stay between what was    *)
(* asked for and what the configuration allows, and in order.              *)
THEOREM LimitsAlwaysKept == PoolSpec => []LimitsKept
BY PoolAlways, PTL DEF PoolInv

(* Counting makes and loses no connection, and the releases that are out   *)
(* of place are all that the active counter is off by.                     *)
THEOREM CountsAlwaysBalance == PoolSpec => []CountsBalance
BY PoolAlways, PTL DEF PoolInv

-----------------------------------------------------------------------------
Fresh == \A b \in Buckets : bucketsMade < b => tokens[b] = Burst

LimitsInv == LimitsTypeOK /\ AdmissionBound /\ Fresh

Within(b) == admitted[b] + tokens[b] <= Burst + refilled[b]

-----------------------------------------------------------------------------
(* What the types say of numbers, in one place.                            *)
LEMMA LimitsNumbers ==
  ASSUME LimitsTypeOK
  PROVE  /\ Burst \in Nat \ {0} /\ MaxBuckets \in Nat
         /\ bucketsMade \in Nat /\ bucket \in Nat /\ retired \in Nat
         /\ bucket <= bucketsMade /\ bucketsMade <= MaxBuckets
         /\ \A b \in Buckets : /\ tokens[b] \in 0..Burst
                               /\ admitted[b] \in Nat /\ refilled[b] \in Nat
BY LimitsAssumption DEF LimitsTypeOK, LimitsAssumption

LEMMA LimitsStart == LimitsInit => LimitsInv
<1> SUFFICES ASSUME LimitsInit PROVE LimitsInv
  OBVIOUS
<1> USE LimitsAssumption DEF LimitsAssumption
<1>1. /\ tokens \in [Buckets -> 0..Burst]
      /\ admitted \in [Buckets -> Nat] /\ refilled \in [Buckets -> Nat]
  BY DEF LimitsInit
<1>2. /\ asker \in [Askers -> [at : {"away", "missed", "found"}, bucket : 0..bucketsMade, n : Nat]]
      /\ \A a \in Askers : asker[a].at # "found"
  <2>1. \A a \in Askers : asker[a] = Away
    BY DEF LimitsInit
  <2>2. Away \in [at : {"away", "missed", "found"}, bucket : 0..bucketsMade, n : Nat]
        /\ Away.at = "away"
    BY DEF LimitsInit, Away
  <2>3. asker = [a \in Askers |-> Away]
    BY DEF LimitsInit
  <2> QED
    BY <2>1, <2>2, <2>3
<1>3. LimitsTypeOK
  <2>1. quiet \in BOOLEAN /\ cleaning \in BOOLEAN
    BY DEF LimitsInit
  <2>2. /\ limiter \in {"key", "ip"}
        /\ bucketsMade \in 0..MaxBuckets /\ bucket \in 0..bucketsMade /\ retired \in Nat
    BY DEF LimitsInit
  <2> QED
    BY <1>1, <1>2, <2>1, <2>2 DEF LimitsTypeOK
<1>4. AdmissionBound /\ Fresh
  BY DEF LimitsInit, AdmissionBound, Fresh
<1> QED
  BY <1>3, <1>4 DEF LimitsInv

-----------------------------------------------------------------------------
(* An asker moves, when the buckets are or become no fewer.                *)
LEMMA AskerMoves ==
  ASSUME LimitsTypeOK, NEW a \in Askers, bucketsMade' \in Nat, bucketsMade <= bucketsMade',
         NEW now \in [at : {"away", "missed", "found"}, bucket : 0..bucketsMade', n : Nat],
         now.at = "found" => now.bucket # 0,
         asker' = [asker EXCEPT ![a] = now]
  PROVE  /\ asker' \in [Askers -> [at : {"away", "missed", "found"},
                                   bucket : 0..bucketsMade', n : Nat]]
         /\ \A c \in Askers : asker'[c].at = "found" => asker'[c].bucket # 0
<1>1. 0..bucketsMade \subseteq 0..bucketsMade'
  BY LimitsNumbers
<1> QED
  BY <1>1 DEF LimitsTypeOK

LEMMA AskersStay ==
  ASSUME LimitsTypeOK, bucketsMade' \in Nat, bucketsMade <= bucketsMade', UNCHANGED asker
  PROVE  /\ asker' \in [Askers -> [at : {"away", "missed", "found"},
                                   bucket : 0..bucketsMade', n : Nat]]
         /\ \A c \in Askers : asker'[c].at = "found" => asker'[c].bucket # 0
<1>1. 0..bucketsMade \subseteq 0..bucketsMade'
  BY LimitsNumbers
<1> QED
  BY <1>1 DEF LimitsTypeOK

(* A step that touches no bucket's counts leaves all of them in bounds.    *)
LEMMA Untouched ==
  ASSUME LimitsInv, UNCHANGED <<tokens, admitted, refilled>>,
         bucketsMade' \in Nat, bucketsMade <= bucketsMade'
  PROVE  (\A b \in Buckets : Within(b)') /\ Fresh'
<1>1. \A b \in Buckets : Within(b)'
  BY DEF LimitsInv, AdmissionBound, Within, Buckets
<1>2. ASSUME NEW b \in Buckets, bucketsMade' < b
      PROVE  tokens'[b] = Burst
  BY <1>2, LimitsNumbers DEF LimitsInv, Fresh, Buckets
<1> QED
  BY <1>1, <1>2 DEF Fresh, Buckets

-----------------------------------------------------------------------------
LEMMA AllowStep ==
  ASSUME LimitsInv, NEW a \in Askers,
         (\E n \in 1..Burst : LookUp(a, n)) \/ FindOrMake(a) \/ TakeTokens(a)
  PROVE  LimitsInv'
<1> USE DEF LimitsInv
<1>1. ASSUME NEW n \in 1..Burst, LookUp(a, n)
      PROVE  LimitsInv'
  <2> DEFINE now == [at |-> IF bucket = 0 THEN "missed" ELSE "found",
                     bucket |-> bucket, n |-> n]
  <2>1. /\ UNCHANGED <<limiter, bucketsMade, bucket, tokens, admitted, refilled, retired,
                       quiet, cleaning>>
        /\ asker' = [asker EXCEPT ![a] = now]
    BY <1>1 DEF LookUp
  <2>2. /\ now \in [at : {"away", "missed", "found"}, bucket : 0..bucketsMade', n : Nat]
        /\ now.at = "found" => now.bucket # 0
    BY <2>1, LimitsNumbers
  <2>3. LimitsTypeOK'
    BY <2>1, <2>2, AskerMoves, LimitsNumbers DEF LimitsTypeOK
  <2> QED
    BY <2>1, <2>3, Untouched, LimitsNumbers DEF AdmissionBound, Within, Buckets
<1>2. CASE FindOrMake(a)
  <2> DEFINE now == [asker[a] EXCEPT !.at = "found", !.bucket = bucket']
  <2>1. /\ UNCHANGED <<limiter, tokens, admitted, refilled, retired, quiet, cleaning>>
        /\ asker' = [asker EXCEPT ![a] = now]
    BY <1>2 DEF FindOrMake, LimitsTypeOK
  <2>2. \/ bucket # 0 /\ UNCHANGED <<bucketsMade, bucket>>
        \/ /\ bucket = 0 /\ bucketsMade < MaxBuckets
           /\ bucketsMade' = bucketsMade + 1 /\ bucket' = bucketsMade + 1
    BY <1>2 DEF FindOrMake, MakeBucket
  <2>3. /\ bucketsMade' \in 0..MaxBuckets /\ bucketsMade <= bucketsMade'
        /\ bucket' \in 0..bucketsMade' /\ bucket' # 0
        /\ bucketsMade' = retired' + (IF bucket' = 0 THEN 0 ELSE 1)
    BY <2>1, <2>2, LimitsNumbers DEF AdmissionBound
  <2>4. /\ asker' \in [Askers -> [at : {"away", "missed", "found"},
                                  bucket : 0..bucketsMade', n : Nat]]
        /\ \A c \in Askers : asker'[c].at = "found" => asker'[c].bucket # 0
    <3>1. asker \in [Askers -> [at : {"away", "missed", "found"},
                                bucket : 0..bucketsMade', n : Nat]]
      BY <2>3, LimitsNumbers DEF LimitsTypeOK
    <3> QED
      BY <2>1, <2>3, <3>1 DEF LimitsTypeOK
  <2>5. LimitsTypeOK'
    BY <2>1, <2>3, <2>4 DEF LimitsTypeOK
  <2> QED
    BY <2>1, <2>3, <2>5, Untouched DEF AdmissionBound, Within, Buckets
<1>3. CASE TakeTokens(a)
  <2> DEFINE b == asker[a].bucket
             n == asker[a].n
  <2>1. b \in Buckets /\ n \in Nat
    <3>1. b # 0 /\ b \in 0..bucketsMade /\ n \in Nat
      BY <1>3 DEF TakeTokens, LimitsTypeOK
    <3> QED
      BY <3>1, LimitsNumbers DEF Buckets
  <2>2. /\ UNCHANGED <<limiter, bucketsMade, bucket, refilled, retired, quiet, cleaning>>
        /\ asker' = [asker EXCEPT ![a] = Away]
    BY <1>3 DEF TakeTokens
  <2>3. /\ asker' \in [Askers -> [at : {"away", "missed", "found"},
                                  bucket : 0..bucketsMade', n : Nat]]
        /\ \A c \in Askers : asker'[c].at = "found" => asker'[c].bucket # 0
    BY <2>2, LimitsNumbers DEF LimitsTypeOK, Away
  <2>4. \/ UNCHANGED <<tokens, admitted>>
        \/ /\ tokens[b] >= n
           /\ tokens' = [tokens EXCEPT ![b] = @ - n]
           /\ admitted' = [admitted EXCEPT ![b] = @ + n]
    BY <1>3 DEF TakeTokens
  <2>5. tokens' \in [Buckets -> 0..Burst] /\ admitted' \in [Buckets -> Nat]
    BY <2>1, <2>4, LimitsNumbers DEF LimitsTypeOK
  <2>6. LimitsTypeOK'
    BY <2>2, <2>3, <2>5 DEF LimitsTypeOK
  <2>7. ASSUME NEW c \in Buckets
        PROVE  Within(c)'
    BY <2>1, <2>2, <2>4, LimitsNumbers DEF AdmissionBound, Within, LimitsTypeOK
  <2>8. b <= bucketsMade
    BY <1>3 DEF TakeTokens, LimitsTypeOK
  <2>9. ASSUME NEW c \in Buckets, bucketsMade' < c
        PROVE  tokens'[c] = Burst
    <3>1. c # b /\ tokens[c] = Burst
      BY <2>2, <2>8, <2>9, LimitsNumbers DEF Fresh, Buckets
    <3> QED
      BY <2>4, <3>1 DEF LimitsTypeOK
  <2> QED
    BY <2>2, <2>6, <2>7, <2>9 DEF AdmissionBound, Within, Fresh, Buckets
<1> QED
  BY <1>1, <1>2, <1>3

LEMMA RefillStep ==
  ASSUME LimitsInv, NEW b \in Buckets, Refill(b)
  PROVE  LimitsInv'
<1> USE DEF LimitsInv
<1>1. UNCHANGED <<limiter, bucketsMade, bucket, admitted, retired, quiet, cleaning, asker>>
  BY DEF Refill
<1>2. tokens' \in [Buckets -> 0..Burst] /\ refilled' \in [Buckets -> Nat]
  BY LimitsNumbers DEF Refill, LimitsTypeOK
<1>3. LimitsTypeOK'
  BY <1>1, <1>2 DEF LimitsTypeOK
<1>4. ASSUME NEW c \in Buckets
      PROVE  Within(c)'
  BY LimitsNumbers DEF Refill, AdmissionBound, Within, LimitsTypeOK
<1>5. ASSUME NEW c \in Buckets, bucketsMade' < c
      PROVE  tokens'[c] = Burst
  <2>1. c # b /\ tokens[c] = Burst
    BY <1>1, <1>5, LimitsNumbers DEF Refill, Fresh, Buckets
  <2> QED
    BY <2>1 DEF Refill, LimitsTypeOK
<1> QED
  BY <1>1, <1>3, <1>4, <1>5 DEF AdmissionBound, Within, Fresh, Buckets

(* A step that only makes or drops the bucket of the map.                  *)
LEMMA MapStep ==
  ASSUME LimitsInv, RemoveLimiter \/ IPCleanUp
  PROVE  LimitsInv'
<1> USE DEF LimitsInv
<1>1. UNCHANGED <<limiter, bucketsMade, tokens, admitted, refilled, quiet, cleaning, asker>>
  BY DEF RemoveLimiter, IPCleanUp
<1>2. bucket # 0 /\ bucket' = 0 /\ retired' = retired + 1
  BY DEF RemoveLimiter, IPCleanUp
<1>3. bucketsMade = retired + 1
  BY <1>2 DEF AdmissionBound
<1>4. LimitsTypeOK'
  BY <1>1, <1>2, LimitsNumbers DEF LimitsTypeOK
<1> QED
  BY <1>1, <1>2, <1>3, <1>4, Untouched, LimitsNumbers DEF AdmissionBound, Within, Buckets

LEMMA SetStep ==
  ASSUME LimitsInv, NEW burst \in 1..Burst, SetLimit(burst)
  PROVE  LimitsInv'
<1> DEFINE new == bucketsMade + 1
<1> USE DEF LimitsInv
<1>1. /\ UNCHANGED <<limiter, admitted, refilled, quiet, cleaning, asker>>
      /\ bucketsMade < MaxBuckets /\ bucketsMade' = new /\ bucket' = new
      /\ tokens' = [tokens EXCEPT ![new] = burst]
      /\ retired' = IF bucket = 0 THEN retired ELSE retired + 1
  BY DEF SetLimit, MakeBucket
<1>2. /\ new \in Buckets /\ bucketsMade' \in 0..MaxBuckets /\ bucketsMade <= bucketsMade'
      /\ bucket' \in 0..bucketsMade' /\ retired' \in Nat
      /\ bucketsMade' = retired' + (IF bucket' = 0 THEN 0 ELSE 1)
  BY <1>1, LimitsNumbers DEF AdmissionBound, Buckets
<1>3. tokens' \in [Buckets -> 0..Burst]
  BY <1>1, <1>2, LimitsNumbers DEF LimitsTypeOK
<1>4. LimitsTypeOK'
  BY <1>1, <1>2, <1>3, AskersStay DEF LimitsTypeOK
<1>5. ASSUME NEW c \in Buckets
      PROVE  Within(c)' /\ (bucketsMade' < c => tokens'[c] = Burst)
  <2>1. /\ admitted[c] \in Nat /\ refilled[c] \in Nat /\ tokens[c] \in 0..Burst
        /\ admitted[c] + tokens[c] <= Burst + refilled[c]
        /\ bucketsMade < c => tokens[c] = Burst
    BY LimitsNumbers DEF AdmissionBound, Fresh
  <2>2. tokens'[c] = IF c = new THEN burst ELSE tokens[c]
    BY <1>1 DEF LimitsTypeOK
  <2> QED
    BY <1>1, <2>1, <2>2, LimitsNumbers DEF Within, Buckets
<1> QED
  BY <1>2, <1>4, <1>5 DEF AdmissionBound, Within, Fresh, Buckets

(* A clean-up of RateLimiter takes a token, or drops the bucket.           *)
LEMMA CleanUpStep ==
  ASSUME LimitsInv, CleanUp
  PROVE  LimitsInv'
<1> USE DEF LimitsInv
<1>1. /\ UNCHANGED <<limiter, bucketsMade, admitted, refilled, quiet, cleaning, asker>>
      /\ bucket # 0
  BY DEF CleanUp
<1>2. CASE tokens[bucket] > 0
  <2>1. /\ tokens' = [tokens EXCEPT ![bucket] = @ - 1]
        /\ UNCHANGED <<bucket, retired>> /\ bucket \in Buckets
    BY <1>1, <1>2, LimitsNumbers DEF CleanUp, Buckets
  <2>2. tokens' \in [Buckets -> 0..Burst]
    BY <1>2, <2>1, LimitsNumbers DEF LimitsTypeOK
  <2>3. LimitsTypeOK'
    BY <1>1, <2>1, <2>2 DEF LimitsTypeOK
  <2>4. ASSUME NEW c \in Buckets
        PROVE  Within(c)' /\ (bucketsMade' < c => tokens'[c] = Burst)
    <3>1. /\ admitted[c] \in Nat /\ refilled[c] \in Nat /\ tokens[c] \in 0..Burst
          /\ admitted[c] + tokens[c] <= Burst + refilled[c]
          /\ bucketsMade < c => tokens[c] = Burst
      BY LimitsNumbers DEF AdmissionBound, Fresh
    <3>2. tokens'[c] = IF c = bucket THEN tokens[c] - 1 ELSE tokens[c]
      BY <2>1 DEF LimitsTypeOK
    <3> QED
      BY <1>1, <3>1, <3>2, LimitsNumbers DEF Within, Buckets
  <2> QED
    BY <1>1, <2>1, <2>3, <2>4 DEF AdmissionBound, Within, Fresh, Buckets
<1>3. CASE ~(tokens[bucket] > 0)
  <2>1. bucket' = 0 /\ retired' = retired + 1 /\ UNCHANGED tokens
    BY <1>3 DEF CleanUp
  <2>2. bucketsMade = retired + 1
    BY <1>1 DEF AdmissionBound
  <2>3. LimitsTypeOK'
    BY <1>1, <2>1, LimitsNumbers DEF LimitsTypeOK
  <2> QED
    BY <1>1, <2>1, <2>2, <2>3, Untouched, LimitsNumbers DEF AdmissionBound, Within, Buckets
<1> QED
  BY <1>2, <1>3

(* IPRateLimiter.Allow makes a bucket where there is none, and takes.      *)
LEMMA IPStep ==
  ASSUME LimitsInv, IPAllow
  PROVE  LimitsInv'
<1> USE DEF LimitsInv
<1>1. UNCHANGED <<limiter, refilled, retired, cleaning, asker>> /\ quiet' = FALSE
  BY DEF IPAllow
<1>2. /\ bucketsMade' \in 0..MaxBuckets /\ bucketsMade <= bucketsMade'
      /\ bucket' \in 1..bucketsMade'
      /\ bucketsMade' = retired' + (IF bucket' = 0 THEN 0 ELSE 1)
  BY <1>1, LimitsNumbers DEF IPAllow, MakeBucket, AdmissionBound
<1>3. bucket' \in Buckets /\ bucket' \in Nat
  BY <1>2, LimitsNumbers DEF Buckets
<1>4. \/ UNCHANGED <<tokens, admitted>>
      \/ /\ tokens[bucket'] > 0
         /\ tokens' = [tokens EXCEPT ![bucket'] = @ - 1]
         /\ admitted' = [admitted EXCEPT ![bucket'] = @ + 1]
  BY DEF IPAllow
<1>5. tokens' \in [Buckets -> 0..Burst] /\ admitted' \in [Buckets -> Nat]
  BY <1>3, <1>4, LimitsNumbers DEF LimitsTypeOK
<1>6. quiet' \in BOOLEAN
  BY <1>1
<1>7. LimitsTypeOK'
  BY <1>1, <1>2, <1>5, <1>6, AskersStay DEF LimitsTypeOK
<1>8. ASSUME NEW c \in Buckets
      PROVE  Within(c)' /\ (bucketsMade' < c => tokens'[c] = Burst)
  <2>1. /\ admitted[c] \in Nat /\ refilled[c] \in Nat /\ tokens[c] \in 0..Burst
        /\ admitted[c] + tokens[c] <= Burst + refilled[c]
        /\ bucketsMade < c => tokens[c] = Burst
    BY LimitsNumbers DEF AdmissionBound, Fresh
  <2>2. \/ tokens'[c] = tokens[c] /\ admitted'[c] = admitted[c]
        \/ c = bucket' /\ tokens'[c] = tokens[c] - 1 /\ admitted'[c] = admitted[c] + 1
    BY <1>3, <1>4 DEF LimitsTypeOK
  <2> QED
    BY <1>1, <1>2, <2>1, <2>2, LimitsNumbers DEF Within, Buckets
<1> QED
  BY <1>2, <1>7, <1>8 DEF AdmissionBound, Within, Fresh, Buckets

LEMMA LimitsSteps ==
  ASSUME LimitsInv, [LimitsNext]_limitsVars
  PROVE  LimitsInv'
<1>1. ASSUME UNCHANGED <<limiter, bucketsMade, bucket, tokens, admitted, refilled, retired, asker>>,
             quiet' \in BOOLEAN, cleaning' \in BOOLEAN
      PROVE  LimitsInv'
  BY <1>1 DEF LimitsInv, LimitsTypeOK, AdmissionBound, Fresh, Buckets
<1>2. CASE StopCleaning \/ TenMinutes \/ UNCHANGED limitsVars
  <2>1. UNCHANGED <<limiter, bucketsMade, bucket, tokens, admitted, refilled, retired, asker>>
    BY <1>2 DEF StopCleaning, TenMinutes, limitsVars
  <2>2. quiet' \in BOOLEAN /\ cleaning' \in BOOLEAN
    BY <1>2 DEF StopCleaning, TenMinutes, limitsVars, LimitsInv, LimitsTypeOK
  <2> QED
    BY <1>1, <2>1, <2>2
<1> QED
  BY <1>2, AllowStep, RefillStep, SetStep, MapStep, CleanUpStep, IPStep DEF LimitsNext

LEMMA LimitsAlways == LimitsSpec => []LimitsInv
BY LimitsStart, LimitsSteps, PTL DEF LimitsSpec

(* The variables range over what their declarations say; the bucket in the *)
(* map, or in an asker's hands, was made.                                  *)
THEOREM LimitsTypeCorrect == LimitsSpec => []LimitsTypeOK
BY LimitsAlways, PTL DEF LimitsInv

(* A bucket admits its burst and what time gave back, and there are no     *)
(* more buckets than one and those that were deleted or replaced, for any  *)
(* number of first requests that race.                                     *)
THEOREM AdmissionsBounded == LimitsSpec => []AdmissionBound
BY LimitsAlways, PTL DEF LimitsInv

-----------------------------------------------------------------------------
(* The counters with the finiteness that counting needs.                   *)
OptimizerInv == OptimizerTypeOK /\ CountersExplained

(* Adding an element counts it if it is new, removing it if it was there.  *)
LEMMA CountedSets ==
  ASSUME NEW set, set \subseteq Conns, NEW c
  PROVE  /\ Cardinality(set) \in Nat
         /\ Cardinality(set \cup {c}) = IF c \in set THEN Cardinality(set) ELSE Cardinality(set) + 1
         /\ Cardinality(set \ {c}) = IF c \in set THEN Cardinality(set) - 1 ELSE Cardinality(set)
<1>1. IsFiniteSet(set)
  BY OptimizerAssumption, FS_Subset DEF OptimizerAssumption
<1>2. c \notin set => set \ {c} = set
  OBVIOUS
<1> QED
  BY <1>1, <1>2, FS_CardinalityType, FS_AddElement, FS_RemoveElement

(* Nothing is tracked, and nothing counted.                                *)
LEMMA OptimizerStarts == OptimizerInit => OptimizerInv
BY FS_EmptySet DEF OptimizerInit, OptimizerInv, OptimizerTypeOK, CountersExplained

(* A connection is tracked, for the first time or again.                   *)
LEMMA TrackStep ==
  ASSUME OptimizerInv, NEW c \in Conns, TrackConnection(c)
  PROVE  OptimizerInv'
<1>1. OptimizerTypeOK'
  BY DEF OptimizerInv, OptimizerTypeOK, TrackConnection, TrackerFree
<1>2. /\ Cardinality(tracked) \in Nat /\ Cardinality(lent) \in Nat
      /\ Cardinality(tracked') =
           IF c \in tracked THEN Cardinality(tracked) ELSE Cardinality(tracked) + 1
      /\ Cardinality(lent') = IF c \in lent THEN Cardinality(lent) ELSE Cardinality(lent) + 1
  BY CountedSets DEF OptimizerInv, OptimizerTypeOK, TrackConnection
<1>3. CountersExplained'
  BY <1>2 DEF OptimizerInv, OptimizerTypeOK, CountersExplained, TrackConnection
<1> QED
  BY <1>1, <1>3 DEF OptimizerInv

(* A connection is released, lent or not.                                  *)
LEMMA ReleasedStep ==
  ASSUME OptimizerInv, NEW c \in Conns, ReleaseConnection(c)
  PROVE  OptimizerInv'
<1>1. OptimizerTypeOK'
  BY DEF OptimizerInv, OptimizerTypeOK, ReleaseConnection, TrackerFree
<1>2. /\ Cardinality(lent) \in Nat /\ Cardinality(tracked) \in Nat
      /\ Cardinality(lent') = IF c \in lent THEN Cardinality(lent) - 1 ELSE Cardinality(lent)
  BY CountedSets DEF OptimizerInv, OptimizerTypeOK, ReleaseConnection
<1>3. CountersExplained'
  BY <1>2 DEF OptimizerInv, OptimizerTypeOK, CountersExplained, ReleaseConnection
<1> QED
  BY <1>1, <1>3 DEF OptimizerInv

(* A connection is closed by its owner, tracked or not.                    *)
LEMMA ClosedStep ==
  ASSUME OptimizerInv, NEW c \in Conns, CloseConnection(c)
  PROVE  OptimizerInv'
<1>1. OptimizerTypeOK'
  BY DEF OptimizerInv, OptimizerTypeOK, CloseConnection, TrackerFree
<1>2. /\ Cardinality(tracked) \in Nat /\ Cardinality(lent) \in Nat
      /\ Cardinality(tracked') =
           IF c \in tracked THEN Cardinality(tracked) - 1 ELSE Cardinality(tracked)
      /\ Cardinality(lent') = IF c \in lent THEN Cardinality(lent) - 1 ELSE Cardinality(lent)
  BY CountedSets DEF OptimizerInv, OptimizerTypeOK, CloseConnection
<1>3. CountersExplained'
  BY <1>2 DEF OptimizerInv, OptimizerTypeOK, CountersExplained, CloseConnection
<1> QED
  BY <1>1, <1>3 DEF OptimizerInv

(* The health check throws a connection out, in use or not.                *)
LEMMA ExpiredStep ==
  ASSUME OptimizerInv, NEW c \in Conns, ExpireConnection(c)
  PROVE  OptimizerInv'
<1>1. OptimizerTypeOK'
  BY DEF OptimizerInv, OptimizerTypeOK, ExpireConnection
<1>2. /\ Cardinality(tracked) \in Nat /\ Cardinality(lent) \in Nat /\ c \in tracked
      /\ Cardinality(tracked') =
           IF c \in tracked THEN Cardinality(tracked) - 1 ELSE Cardinality(tracked)
      /\ Cardinality(lent') = IF c \in lent THEN Cardinality(lent) - 1 ELSE Cardinality(lent)
  BY CountedSets DEF OptimizerInv, OptimizerTypeOK, ExpireConnection
<1>3. CountersExplained'
  BY <1>2 DEF OptimizerInv, OptimizerTypeOK, CountersExplained, ExpireConnection
<1> QED
  BY <1>1, <1>3 DEF OptimizerInv

(* Every step keeps the invariant.                                         *)
LEMMA OptimizerSteps ==
  ASSUME OptimizerInv, [OptimizerNext /\ InBound']_optimizerVars
  PROVE  OptimizerInv'
<1>1. CASE UNCHANGED optimizerVars
  BY <1>1 DEF optimizerVars, OptimizerInv, OptimizerTypeOK, CountersExplained
<1>2. CASE ChooseExpired
  BY <1>2 DEF ChooseExpired, OptimizerInv, OptimizerTypeOK, CountersExplained
<1>3. CASE ComputeTotal
  BY <1>3 DEF ComputeTotal, OptimizerInv, OptimizerTypeOK, CountersExplained
<1>4. CASE OptimizerNext
  BY <1>2, <1>3, <1>4, TrackStep, ReleasedStep, ClosedStep, ExpiredStep DEF OptimizerNext
<1> QED
  BY <1>1, <1>4

(* So it holds always.                                                     *)
LEMMA OptimizerAlways == OptimizerSpec => []OptimizerInv
BY OptimizerStarts, OptimizerSteps, PTL DEF OptimizerSpec

(* Type correctness: connections lent or to be expired are tracked ones.   *)
THEOREM OptimizerTypeCorrect == OptimizerSpec => []OptimizerTypeOK
BY OptimizerAlways, PTL DEF OptimizerInv

(* The four counters agree with each other and with the table of tracked   *)
(* connections, for any connections and any order of calls and health      *)
(* checks: what they are off by is the calls that named a connection in    *)
(* another state.                                                          *)
THEOREM CountersAlwaysExplained == OptimizerSpec => []CountersExplained
BY OptimizerAlways, PTL DEF OptimizerInv
=============================================================================
