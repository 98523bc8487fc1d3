---------------------------- MODULE PoolOptimizer ----------------------------
(***************************************************************************)
(* ConnectionPoolOptimizerEngine (engines/connection_pool_optimizer_       *)
(* engine.go): a table of tracked connections under one mutex and four     *)
(* counters under another. The calls of a connection's life hold the first *)
(* while they take the second, and so does the health check, which throws  *)
(* out one connection after the other; a query (Process) takes the second  *)
(* alone and may come between any two of them.                             *)
(*                                                                         *)
(* The counters move whatever the table says of the connection: early and  *)
(* extra say how often they moved for one that was not in that state. The  *)
(* loop's new size of the pool is computed and not used; it is left out.   *)
(***************************************************************************)
EXTENDS Integers, FiniteSets

CONSTANTS
  Conns,          \* the identifiers of connections
  MaxOff          \* bound of the model: what a counter is off by

ASSUME OptimizerAssumption == IsFiniteSet(Conns) /\ MaxOff \in Nat

VARIABLES
  tracked,        \* the keys of connectionTracker.connections
  lent,           \* history: those of them not released since they were tracked
  expiring,       \* runHealthChecks: those it has yet to throw out
  activeCount, idleCount, totalCount, poolSize,    \* the fields of poolStats
  early,          \* history: connections taken off activeCount that were not lent,
                  \* less those lent that were not taken off or were counted twice
  extra,          \* history: connections tracked twice, less those closed twice
  newer           \* history: connections tracked since totalCount was computed

optimizerVars == <<tracked, lent, expiring, activeCount, idleCount, totalCount, poolSize,
                   early, extra, newer>>

OptimizerInit ==
  /\ tracked = {} /\ lent = {} /\ expiring = {}
  /\ activeCount = 0 /\ idleCount = 0 /\ totalCount = 0 /\ poolSize = 0
  /\ early = 0 /\ extra = 0 /\ newer = 0

(* What the model lets the counters be off by.                             *)
InBound == early \in -MaxOff..MaxOff /\ extra \in -MaxOff..MaxOff /\ newer \in 0..MaxOff

-----------------------------------------------------------------------------
(* connectionTracker.mu is free.                                           *)
TrackerFree == expiring = {}

(* A connection that is tracked already is counted again.                  *)
TrackConnection(c) ==
  /\ TrackerFree
  /\ tracked' = tracked \cup {c} /\ lent' = lent \cup {c}
  /\ activeCount' = activeCount + 1 /\ poolSize' = poolSize + 1
  /\ early' = IF c \in lent THEN early - 1 ELSE early
  /\ extra' = IF c \in tracked THEN extra + 1 ELSE extra
  /\ newer' = newer + 1
  /\ UNCHANGED <<expiring, idleCount, totalCount>>

(* A released connection stays tracked. One that is not lent, or not       *)
(* tracked at all, is counted all the same.                                *)
ReleaseConnection(c) ==
  /\ TrackerFree
  /\ lent' = lent \ {c}
  /\ activeCount' = activeCount - 1 /\ idleCount' = idleCount + 1
  /\ early' = IF c \in lent THEN early ELSE early + 1
  /\ UNCHANGED <<tracked, expiring, totalCount, poolSize, extra, newer>>

(* Mutant: the size is left.                                               *)
CloseConnection_KeepSize(c) ==
  /\ TrackerFree
  /\ tracked' = tracked \ {c} /\ lent' = lent \ {c}
  /\ activeCount' = activeCount - 1 /\ totalCount' = totalCount - 1
  /\ early' = IF c \in lent THEN early ELSE early + 1
  /\ extra' = IF c \in tracked THEN extra ELSE extra - 1
  /\ UNCHANGED <<expiring, idleCount, poolSize, newer>>

(* Closing takes a connection off the active ones, released or not.        *)
CloseConnection(c) ==
  /\ TrackerFree
  /\ tracked' = tracked \ {c} /\ lent' = lent \ {c}
  /\ activeCount' = activeCount - 1
  /\ totalCount' = totalCount - 1 /\ poolSize' = poolSize - 1
  /\ early' = IF c \in lent THEN early ELSE early + 1
  /\ extra' = IF c \in tracked THEN extra ELSE extra - 1
  /\ UNCHANGED <<expiring, idleCount, newer>>

-----------------------------------------------------------------------------
(* runHealthChecks, with the table locked from beginning to end: those not *)
(* used for long, lent or not, are chosen, and then thrown out of the idle *)
(* ones one at a time.                                                     *)
ChooseExpired ==
  /\ TrackerFree
  /\ expiring' \in SUBSET tracked \ {{}}
  /\ UNCHANGED <<tracked, lent, activeCount, idleCount, totalCount, poolSize,
                 early, extra, newer>>

ExpireConnection(c) ==
  /\ c \in expiring
  /\ expiring' = expiring \ {c}
  /\ tracked' = tracked \ {c} /\ lent' = lent \ {c}
  /\ idleCount' = idleCount - 1
  /\ totalCount' = totalCount - 1 /\ poolSize' = poolSize - 1
  /\ early' = IF c \in lent THEN early - 1 ELSE early
  /\ UNCHANGED <<activeCount, extra, newer>>

(* Process computes the total; no other call adds to it.                   *)
ComputeTotal ==
  /\ totalCount' = activeCount + idleCount /\ newer' = 0
  /\ UNCHANGED <<tracked, lent, expiring, activeCount, idleCount, poolSize, early, extra>>

OptimizerNext ==
  \/ \E c \in Conns : TrackConnection(c) \/ ReleaseConnection(c) \/ CloseConnection(c)
                      \/ ExpireConnection(c)
  \/ ChooseExpired \/ ComputeTotal

OptimizerSpec == OptimizerInit /\ [][OptimizerNext /\ InBound']_optimizerVars

-----------------------------------------------------------------------------
(* The variables range over what their declarations say.                   *)
OptimizerTypeOK ==
  /\ tracked \subseteq Conns /\ lent \subseteq tracked /\ expiring \subseteq tracked
  /\ activeCount \in Int /\ idleCount \in Int /\ totalCount \in Int /\ poolSize \in Int
  /\ early \in Int /\ extra \in Int /\ newer \in Nat

(* The counters agree with each other and with the table: active and idle  *)
(* connections make up the size, the total is behind it by those that are  *)
(* newer, and size and active ones are those tracked and those lent but    *)
(* for calls that named a connection in another state. Of the calls the    *)
(* code itself makes, the health check is one: it takes those in use for   *)
(* idle, and the owner that closes its connection after it closes twice.   *)
CountersExplained ==
  /\ activeCount + idleCount = poolSize
  /\ totalCount + newer = poolSize
  /\ poolSize = Cardinality(tracked) + extra
  /\ activeCount = Cardinality(lent) - early
=============================================================================
