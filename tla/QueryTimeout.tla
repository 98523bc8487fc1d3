---------------------------- MODULE QueryTimeout ----------------------------
(***************************************************************************)
(* QueryTimeoutEngine (engines/query_timeout_engine.go) while it is        *)
(* enabled: a query that comes is put into a map and given a context with  *)
(* a deadline and a goroutine that waits for the first of two timers, of   *)
(* its timeout and of the threshold for slow queries; its response takes   *)
(* it out of the map and cancels the context. Nobody stops the goroutine,  *)
(* which may find the query answered, cancelled or still running. Timers   *)
(* that are both due may be seen in either order.                          *)
(***************************************************************************)
EXTENDS Integers

CONSTANTS
  TimedQueries,   \* queries, each with an identifier of its own
  TimeoutOf,      \* per query: what getTimeout says of it
  Thresholds,     \* the values config.SlowQueryThreshold may be given
  MaxTime         \* bound of the model: how long the clock runs

ASSUME TimeoutAssumption ==
  /\ TimeoutOf \in [TimedQueries -> Nat \ {0}]
  /\ Thresholds \subseteq Nat \ {0} /\ Thresholds # {} /\ MaxTime \in Nat

VARIABLES
  stage,          \* per query: how far the engine is with it
  activeQueries,  \* the map's keys
  deadline,       \* per query: its context, "none", "live" or "over"
  served,         \* history: per query, how long it has been in the map
  monitor,        \* per query: where its goroutine is
  waited,         \* per query: how long the two timers have run
  limit,          \* per query: the threshold its goroutine read
  wasSlow, killed,   \* per query: Metadata, slow_query_detected and timeout_killed
  slowThreshold, killing      \* config: SlowQueryThreshold and KillQueryOnTimeout

timeoutVars == <<stage, activeQueries, deadline, served, monitor, waited, limit,
                 wasSlow, killed, slowThreshold, killing>>

TimeoutInit ==
  /\ stage = [q \in TimedQueries |-> "new"]
  /\ activeQueries = {}
  /\ deadline = [q \in TimedQueries |-> "none"]
  /\ served = [q \in TimedQueries |-> 0]
  /\ monitor = [q \in TimedQueries |-> "none"]
  /\ waited = [q \in TimedQueries |-> 0] /\ limit = [q \in TimedQueries |-> 0]
  /\ wasSlow = [q \in TimedQueries |-> FALSE] /\ killed = [q \in TimedQueries |-> FALSE]
  /\ slowThreshold \in Thresholds /\ killing \in BOOLEAN

-----------------------------------------------------------------------------
(* Process. The goroutine reads the threshold when it runs.                *)
StartQuery(q) ==
  /\ stage[q] = "new" /\ stage' = [stage EXCEPT ![q] = "running"]
  /\ deadline' = [deadline EXCEPT ![q] = "live"]
  /\ activeQueries' = activeQueries \cup {q}
  /\ monitor' = [monitor EXCEPT ![q] = "started"]
  /\ UNCHANGED <<served, waited, limit, wasSlow, killed, slowThreshold, killing>>

(* ProcessResponse takes the query out of the map, then cancels.           *)
RemoveAnswered(q) ==
  /\ stage[q] = "running" /\ stage' = [stage EXCEPT ![q] = "answered"]
  /\ activeQueries' = activeQueries \ {q}
  /\ UNCHANGED <<deadline, served, monitor, waited, limit, wasSlow, killed,
                 slowThreshold, killing>>

ReleaseContext(q) ==
  /\ stage[q] = "answered" /\ stage' = [stage EXCEPT ![q] = "gone"]
  /\ deadline' = [deadline EXCEPT ![q] = "over"]
  /\ UNCHANGED <<activeQueries, served, monitor, waited, limit, wasSlow, killed,
                 slowThreshold, killing>>

(* Mutant: the context is not cancelled.                                   *)
CancelQuery_KeepContext(q) ==
  /\ q \in activeQueries /\ activeQueries' = activeQueries \ {q}
  /\ UNCHANGED <<stage, deadline, served, monitor, waited, limit, wasSlow, killed,
                 slowThreshold, killing>>

(* CancelQuery does both at once; the response may still come.             *)
CancelQuery(q) ==
  /\ q \in activeQueries /\ activeQueries' = activeQueries \ {q}
  /\ deadline' = [deadline EXCEPT ![q] = "over"]
  /\ UNCHANGED <<stage, served, monitor, waited, limit, wasSlow, killed,
                 slowThreshold, killing>>

SetTimeoutConfig(t, k) ==
  /\ slowThreshold' = t /\ killing' = k
  /\ UNCHANGED <<stage, activeQueries, deadline, served, monitor, waited, limit,
                 wasSlow, killed>>

-----------------------------------------------------------------------------
(* The clock: every timer that runs does so together. A context ends at    *)
(* its deadline, wherever the query is.                                    *)
TimePasses ==
  /\ \A q \in TimedQueries : served[q] < MaxTime /\ waited[q] < MaxTime
  /\ served' = [q \in TimedQueries |->
       IF q \in activeQueries THEN served[q] + 1 ELSE served[q]]
  /\ waited' = [q \in TimedQueries |->
       IF monitor[q] = "waiting" THEN waited[q] + 1 ELSE waited[q]]
  /\ UNCHANGED <<stage, activeQueries, deadline, monitor, limit, wasSlow, killed,
                 slowThreshold, killing>>

ExpireContext(q) ==
  /\ deadline[q] = "live" /\ served[q] >= TimeoutOf[q]
  /\ deadline' = [deadline EXCEPT ![q] = "over"]
  /\ UNCHANGED <<stage, activeQueries, served, monitor, waited, limit, wasSlow, killed,
                 slowThreshold, killing>>

(* monitorQuery: the select, and what it does for the timer it saw.        *)
StartMonitor(q) ==
  /\ monitor[q] = "started" /\ monitor' = [monitor EXCEPT ![q] = "waiting"]
  /\ limit' = [limit EXCEPT ![q] = slowThreshold]
  /\ UNCHANGED <<stage, activeQueries, deadline, served, waited, wasSlow, killed,
                 slowThreshold, killing>>

HandleSlowQuery(q) ==
  /\ monitor[q] = "waiting" /\ waited[q] >= limit[q]
  /\ monitor' = [monitor EXCEPT ![q] = "over"]
  /\ wasSlow' = [wasSlow EXCEPT ![q] = TRUE]
  /\ UNCHANGED <<stage, activeQueries, deadline, served, waited, limit, killed,
                 slowThreshold, killing>>

SeeTimeout(q) ==
  /\ monitor[q] = "waiting" /\ waited[q] >= TimeoutOf[q]
  /\ monitor' = [monitor EXCEPT ![q] = "late"]
  /\ UNCHANGED <<stage, activeQueries, deadline, served, waited, limit, wasSlow, killed,
                 slowThreshold, killing>>

(* Mutant: the map is not looked into.                                     *)
FindActive_Blind(q) ==
  /\ monitor[q] = "late" /\ monitor' = [monitor EXCEPT ![q] = "found"]
  /\ UNCHANGED <<stage, activeQueries, deadline, served, waited, limit, wasSlow, killed,
                 slowThreshold, killing>>

(* handleTimeout looks under the mutex and marks the query without it.     *)
FindActive(q) ==
  /\ monitor[q] = "late"
  /\ monitor' = [monitor EXCEPT ![q] = IF q \in activeQueries THEN "found" ELSE "over"]
  /\ UNCHANGED <<stage, activeQueries, deadline, served, waited, limit, wasSlow, killed,
                 slowThreshold, killing>>

MarkKilled(q) ==
  /\ monitor[q] = "found" /\ monitor' = [monitor EXCEPT ![q] = "over"]
  /\ killed' = [killed EXCEPT ![q] = killing]
  /\ UNCHANGED <<stage, activeQueries, deadline, served, waited, limit, wasSlow,
                 slowThreshold, killing>>

TimeoutNext ==
  \/ \E q \in TimedQueries :
       \/ StartQuery(q) \/ RemoveAnswered(q) \/ ReleaseContext(q) \/ CancelQuery(q)
       \/ ExpireContext(q) \/ StartMonitor(q) \/ HandleSlowQuery(q)
       \/ SeeTimeout(q) \/ FindActive(q) \/ MarkKilled(q)
  \/ TimePasses
  \/ \E t \in Thresholds, k \in BOOLEAN : SetTimeoutConfig(t, k)

TimeoutSpec == TimeoutInit /\ [][TimeoutNext]_timeoutVars

-----------------------------------------------------------------------------
(* The variables range over what their declarations say.                   *)
TimeoutTypeOK ==
  /\ stage \in [TimedQueries -> {"new", "running", "answered", "gone"}]
  /\ activeQueries \subseteq TimedQueries
  /\ deadline \in [TimedQueries -> {"none", "live", "over"}]
  /\ served \in [TimedQueries -> Nat] /\ waited \in [TimedQueries -> Nat]
  /\ monitor \in [TimedQueries -> {"none", "started", "waiting", "late", "found", "over"}]
  /\ limit \in [TimedQueries -> Thresholds \cup {0}]
  /\ wasSlow \in [TimedQueries -> BOOLEAN] /\ killed \in [TimedQueries -> BOOLEAN]
  /\ slowThreshold \in Thresholds /\ killing \in BOOLEAN

(* A query is marked killed only if it stayed in the map for its whole     *)
(* timeout, however late the goroutine looks and even if the answer comes  *)
(* between its look and its mark. One that was found slow is never killed: *)
(* its goroutine waits for one timer, and a threshold below the timeout,   *)
(* as in the defaults, leaves the other one unseen but for a late look.    *)
KilledOnTime ==
  \A q \in TimedQueries : killed[q] => served[q] >= TimeoutOf[q] /\ ~wasSlow[q]

(* No context outlives its query: one that is live belongs to a query in   *)
(* the map, or to a response about to cancel it, and what is in the map    *)
(* has been neither answered nor cancelled.                                *)
ContextsReleased ==
  \A q \in TimedQueries :
    /\ deadline[q] = "live" => q \in activeQueries \/ stage[q] = "answered"
    /\ q \in activeQueries => stage[q] = "running"

(* Neither timers nor contexts misjudge a query.                           *)
TimeoutsSound == KilledOnTime /\ ContextsReleased
=============================================================================
