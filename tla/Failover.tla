------------------------------- MODULE Failover -------------------------------
(***************************************************************************)
(* FailoverEngine (internal/engines/failover_engine.go): responses count   *)
(* the failures of the database nodes, and when the primary has failed     *)
(* often enough a healthy replica takes its place.                         *)
(*                                                                         *)
(* A worker is a goroutine with a query in the engine. The decision to     *)
(* fail over (shouldFailover, under the read lock) and the promotion       *)
(* (triggerFailover, under the write lock) are two critical sections. The  *)
(* second is split in two steps, for the statistics and the late reads of  *)
(* Process do not wait for its lock.                                       *)
(***************************************************************************)
EXTENDS Naturals

CONSTANTS
  Nodes,              \* names of the database nodes
  Workers,            \* goroutines that process queries
  Preferred,          \* the node configured as the primary
  FailureThreshold,
  MaxResponses        \* bound of the model: responses processed

(* The empty string names no node: it is what primary holds at first.      *)
ASSUME FailoverAssumption ==
  /\ "" \notin Nodes /\ Preferred \in Nodes
  /\ FailureThreshold \in Nat \ {0}
  /\ MaxResponses \in Nat

VARIABLES
  databases,     \* the nodes AddDatabase was called for
  primary,       \* the name of the primary, "" for none
  isPrimary,     \* per node: IsPrimary
  healthy,       \* per node: IsHealthy
  failCount,     \* per node: FailCount
  inProgress,    \* failoverCtx.FailoverInProgress
  triggered, successful, failed,    \* the counters of stats
  pc,            \* per worker: where ProcessResponse is
  faulted,       \* some Process unlocked the read lock twice, and panicked
  excused,       \* the nodes back in service since they were added again,
                 \* their failures still at the threshold (history)
  responses      \* how many responses were processed

nodeVars  == <<databases, isPrimary, healthy, failCount, excused>>
statsVars == <<triggered, successful, failed>>
vars == <<nodeVars, primary, inProgress, statsVars, pc, faulted, responses>>

Init ==
  /\ databases = {} /\ primary = ""
  /\ isPrimary = [n \in Nodes |-> FALSE]
  /\ healthy = [n \in Nodes |-> FALSE]
  /\ failCount = [n \in Nodes |-> 0]
  /\ excused = {}
  /\ inProgress = FALSE
  /\ triggered = 0 /\ successful = 0 /\ failed = 0
  /\ pc = [w \in Workers |-> "idle"]
  /\ faulted = FALSE
  /\ responses = 0

(* Nobody holds the write lock from one step to the next but a worker in   *)
(* the middle of triggerFailover.                                          *)
Free == \A w \in Workers : pc[w] # "promoting"

Goto(w, step) == pc' = [pc EXCEPT ![w] = step]

-----------------------------------------------------------------------------
(* The caller passes a new DatabaseNode, whose fields are those of the     *)
(* configuration; one of that name is replaced and its failures forgotten. *)
NewNode(n) ==
  /\ failCount' = [failCount EXCEPT ![n] = 0]
  /\ isPrimary' = [isPrimary EXCEPT ![n] = (n = Preferred)]
  /\ excused' = excused \ {n}

(* Or it passes the node it has passed before, which keeps its failures,   *)
(* and IsPrimary too, which a promotion may have set.                      *)
SameNode(n) ==
  /\ n \in databases
  /\ excused' = IF failCount[n] < FailureThreshold THEN excused ELSE excused \cup {n}
  /\ UNCHANGED <<failCount, isPrimary>>

AddDatabase(n) ==
  /\ Free
  /\ NewNode(n) \/ SameNode(n)
  /\ databases' = databases \cup {n}
  /\ healthy' = [healthy EXCEPT ![n] = TRUE]
  /\ primary' = IF isPrimary'[n] THEN n ELSE primary
  /\ UNCHANGED <<inProgress, statsVars, pc, faulted, responses>>

(* The metadata it leaves in the query is read by nobody. A Process that   *)
(* saw a failover in progress would release the read lock twice.           *)
Process(w) ==
  /\ Free /\ pc[w] = "idle"
  /\ faulted' = (faulted \/ inProgress)
  /\ UNCHANGED <<nodeVars, primary, inProgress, statsVars, pc, responses>>

-----------------------------------------------------------------------------
(* ProcessResponse, for a query to database n; the name may be of no node. *)
Responding(w) ==
  /\ Free /\ pc[w] = "idle" /\ responses < MaxResponses
  /\ responses' = responses + 1
  /\ Goto(w, "check")
  /\ UNCHANGED <<databases, primary, isPrimary, inProgress, statsVars, faulted>>

NoResponse(w) ==
  Responding(w) /\ UNCHANGED <<healthy, failCount, excused>>

(* Mutant: the node is healthy again but its failures still count.         *)
RecordSuccess_KeepCount(w, n) ==
  /\ Responding(w)
  /\ healthy' = [healthy EXCEPT ![n] = (n \in databases)]
  /\ UNCHANGED <<failCount, excused>>

RecordSuccess(w, n) ==
  /\ Responding(w)
  /\ IF n \in databases
       THEN /\ healthy' = [healthy EXCEPT ![n] = TRUE]
            /\ failCount' = [failCount EXCEPT ![n] = 0]
       ELSE UNCHANGED <<healthy, failCount>>
  /\ excused' = excused \ {n}

RecordFailure(w, n) ==
  /\ Responding(w)
  /\ IF n \in databases
       THEN /\ failCount' = [failCount EXCEPT ![n] = @ + 1]
            /\ healthy' = [healthy EXCEPT ![n] =
                             @ /\ failCount[n] + 1 < FailureThreshold]
       ELSE UNCHANGED <<healthy, failCount>>
  /\ excused' = excused \ {n}

-----------------------------------------------------------------------------
Sick(n) == n \notin databases
           \/ (~healthy[n] /\ failCount[n] >= FailureThreshold)

(* Mutant: no failover as long as there is no primary.                     *)
ShouldFailover_NeedsPrimary ==
  ~inProgress /\ primary \in databases /\ Sick(primary)

ShouldFailover == ~inProgress /\ Sick(primary)

Check(w) ==
  /\ Free /\ pc[w] = "check"
  /\ Goto(w, IF ShouldFailover THEN "trigger" ELSE "idle")
  /\ UNCHANGED <<nodeVars, primary, inProgress, statsVars, faulted, responses>>

(* Mutant: triggerFailover takes no lock.                                  *)
Trigger_Unlocked(w) ==
  /\ pc[w] = "trigger"
  /\ triggered' = triggered + 1
  /\ inProgress' = TRUE
  /\ Goto(w, "promoting")
  /\ UNCHANGED <<nodeVars, primary, successful, failed, faulted, responses>>

(* triggerFailover up to the search for a replica. *)
Trigger(w) ==
  /\ Free /\ pc[w] = "trigger"
  /\ triggered' = triggered + 1
  /\ inProgress' = TRUE
  /\ Goto(w, "promoting")
  /\ UNCHANGED <<nodeVars, primary, successful, failed, faulted, responses>>

Replicas == {n \in databases \ {primary} : healthy[n]}

(* Mutant: the search looks at every node but the primary.                 *)
Promote_Any(w, n) ==
  /\ pc[w] = "promoting" /\ n \in databases \ {primary}
  /\ primary' = n
  /\ isPrimary' = [isPrimary EXCEPT ![n] = TRUE]
  /\ successful' = successful + 1
  /\ inProgress' = FALSE
  /\ Goto(w, "idle")
  /\ UNCHANGED <<databases, healthy, failCount, excused, triggered, failed, faulted,
                 responses>>

(* The first one that Go's map iteration meets. *)
Promote(w, n) ==
  /\ pc[w] = "promoting" /\ n \in Replicas
  /\ primary' = n
  /\ isPrimary' = [isPrimary EXCEPT ![n] = TRUE]
  /\ successful' = successful + 1
  /\ inProgress' = FALSE
  /\ Goto(w, "idle")
  /\ UNCHANGED <<databases, healthy, failCount, excused, triggered, failed, faulted,
                 responses>>

(* Mutants: the flag is left set; the failure is not counted.              *)
NoReplica_FlagSet(w) ==
  /\ pc[w] = "promoting" /\ Replicas = {}
  /\ failed' = failed + 1
  /\ Goto(w, "idle")
  /\ UNCHANGED <<nodeVars, primary, inProgress, triggered, successful, faulted, responses>>

NoReplica_Uncounted(w) ==
  /\ pc[w] = "promoting" /\ Replicas = {}
  /\ inProgress' = FALSE
  /\ Goto(w, "idle")
  /\ UNCHANGED <<nodeVars, primary, statsVars, faulted, responses>>

NoReplica(w) ==
  /\ pc[w] = "promoting" /\ Replicas = {}
  /\ failed' = failed + 1
  /\ inProgress' = FALSE
  /\ Goto(w, "idle")
  /\ UNCHANGED <<nodeVars, primary, triggered, successful, faulted, responses>>

TriggerFailover(w) ==
  Trigger(w) \/ NoReplica(w) \/ \E n \in Nodes : Promote(w, n)

ProcessResponse(w) ==
  \/ NoResponse(w)
  \/ \E n \in Nodes : RecordSuccess(w, n) \/ RecordFailure(w, n)

Next ==
  \/ \E n \in Nodes : AddDatabase(n)
  \/ \E w \in Workers :
       Process(w) \/ ProcessResponse(w) \/ Check(w) \/ TriggerFailover(w)

Spec == Init /\ [][Next]_vars

(* A worker in ProcessResponse goes on, and Go's mutexes do not starve it. *)
FairSpec == Spec /\ \A w \in Workers : SF_vars(Check(w) \/ TriggerFailover(w))

-----------------------------------------------------------------------------
(* The variables range over what their declarations say; a promotion       *)
(* happens only inside triggerFailover's lock.                             *)
NodesOK ==
  /\ databases \subseteq Nodes /\ primary \in databases \cup {""}
  /\ isPrimary \in [Nodes -> BOOLEAN] /\ healthy \in [Nodes -> BOOLEAN]
  /\ failCount \in [Nodes -> Nat] /\ excused \subseteq databases
CountsOK ==
  triggered \in Nat /\ successful \in Nat /\ failed \in Nat /\ responses \in Nat
WorkersOK ==
  /\ pc \in [Workers -> {"idle", "check", "trigger", "promoting"}]
  /\ \A v, w \in Workers : pc[v] = "promoting" /\ pc[w] = "promoting" => v = w
TypeOK ==
  NodesOK /\ CountsOK /\ WorkersOK /\ inProgress \in BOOLEAN /\ faulted \in BOOLEAN

(* Process releases its read lock twice if it ever sees a failover in      *)
(* progress, which panics: no Process does, for the flag is set and reset  *)
(* on every path under one hold of the write lock.                         *)
NoDoubleUnlock == ~faulted

(* However decisions and promotions of several workers interleave, every   *)
(* failover that was triggered ended as a success or a failure, save the   *)
(* one whose worker holds the lock.                                        *)
StatsAddUp ==
  triggered = successful + failed + (IF Free THEN 0 ELSE 1)

(* A node is out of service exactly while its failures have reached the    *)
(* threshold, in whatever order responses come, but for one that was added *)
(* again as it is: AddDatabase sets IsHealthy and leaves FailCount, so it  *)
(* is in service until its next response, and one more failure, not a      *)
(* threshold of them, takes it out.                                        *)
SickExactly ==
  \A n \in databases :
    healthy[n] <=> failCount[n] < FailureThreshold \/ n \in excused

(* What workers that fail over together keep of flag, counts and health.   *)
FailoverSound == NoDoubleUnlock /\ StatsAddUp /\ SickExactly

(* Nobody becomes primary while it is out of service: not by a promotion   *)
(* decided on an earlier state, nor by a second one after the first.       *)
PromotesHealthy ==
  [][primary' # primary => primary' \in databases' /\ healthy'[primary']
                           /\ ~Sick(primary)']_vars

(* A worker that is about to look at an unhealthy primary brings about a   *)
(* healthy one, unless no replica is healthy.                              *)
FailoverHappens ==
  Sick(primary) /\ (\E w \in Workers : pc[w] = "check")
    ~> ~Sick(primary) \/ Replicas = {}
=============================================================================
