-------------------------- MODULE ResilienceProofs --------------------------
(***************************************************************************)
(* Proofs about Failover, for any nodes, workers and threshold, and about  *)
(* Breakers, for any requests, threshold and bound.                        *)
(*                                                                         *)
(* Failover: TypeOK already says that at most one worker is between        *)
(* Trigger and the end of triggerFailover. What is missing for an          *)
(* inductive invariant is that the flag of the failover context stands for *)
(* that worker: the flag is up exactly while somebody holds the write      *)
(* lock. Then a Process, which needs the lock free, never sees it up, and  *)
(* Promote and NoReplica, which end the one promotion there is, leave the  *)
(* lock free.                                                              *)
(*                                                                         *)
(* Breakers: CircuitTypeOK and CountDecides are inductive together.        *)
(* CountDecides is also what the refinement rests on: Breaker promises     *)
(* that a failure of the trial phase opens the breaker again, the retry    *)
(* engine, the policy and the router look at the count alone when a        *)
(* request fails, and it is CountDecides that says the count is still high *)
(* enough.                                                                 *)
(***************************************************************************)
EXTENDS Failover, Breakers, TLAPS

FlagIsLock == inProgress <=> ~Free

FailoverInv == TypeOK /\ FlagIsLock /\ NoDoubleUnlock /\ StatsAddUp /\ SickExactly

(* The steps that end a failover.                                          *)
Ends(w) == NoReplica(w) \/ \E n \in Nodes : Promote(w, n)

-----------------------------------------------------------------------------
(* A worker that is not promoting, and does not start to, leaves the lock  *)
(* free.                                                                   *)
LEMMA StaysFree ==
  ASSUME WorkersOK, Free, NEW w \in Workers, NEW s \in {"idle", "check", "trigger"},
         Goto(w, s)
  PROVE  Free' /\ WorkersOK'
BY DEF WorkersOK, Free, Goto

(* triggerFailover returns: nobody else was promoting.                     *)
LEMMA EndFrees ==
  ASSUME WorkersOK, NEW w \in Workers, pc[w] = "promoting", Goto(w, "idle")
  PROVE  ~Free /\ Free' /\ WorkersOK'
BY DEF WorkersOK, Free, Goto

(* triggerFailover is entered.                                             *)
LEMMA TriggerLocks ==
  ASSUME WorkersOK, Free, NEW w \in Workers, Goto(w, "promoting")
  PROVE  ~Free' /\ WorkersOK'
BY DEF WorkersOK, Free, Goto

-----------------------------------------------------------------------------
(* What the steps do to the nodes ...                                      *)
LEMMA NodesStep ==
  ASSUME NodesOK, [Next]_vars
  PROVE  NodesOK'
<1>1. ASSUME NEW n \in Nodes, AddDatabase(n)
      PROVE  NodesOK'
  <2>1. CASE NewNode(n)
    <3>1. failCount \in [Nodes -> Nat] /\ failCount' = [failCount EXCEPT ![n] = 0]
      BY <2>1 DEF NewNode, NodesOK
    <3>2. failCount' \in [Nodes -> Nat]
      BY <3>1
    <3>3. isPrimary' \in [Nodes -> BOOLEAN] /\ healthy' \in [Nodes -> BOOLEAN]
      BY <1>1, <2>1, Zenon DEF AddDatabase, NewNode, NodesOK
    <3> QED
      BY <1>1, <2>1, <3>2, <3>3 DEF AddDatabase, NewNode, NodesOK
  <2>2. CASE SameNode(n)
    <3>1. healthy' \in [Nodes -> BOOLEAN]
      BY <1>1, Zenon DEF AddDatabase, NodesOK
    <3> QED
      BY <1>1, <2>2, <3>1 DEF AddDatabase, SameNode, NodesOK
  <2> QED
    BY <1>1, <2>1, <2>2 DEF AddDatabase
<1>2. ASSUME NEW w \in Workers, NEW n \in Nodes, RecordSuccess(w, n) \/ RecordFailure(w, n)
      PROVE  NodesOK'
  <2>1. UNCHANGED <<databases, primary, isPrimary>> /\ excused' = excused \ {n}
    BY <1>2 DEF RecordSuccess, RecordFailure, Responding
  <2>2. healthy' \in [Nodes -> BOOLEAN]
    BY <1>2, Zenon DEF RecordSuccess, RecordFailure, NodesOK
  <2>3. \/ failCount' = failCount
        \/ failCount' = [failCount EXCEPT ![n] = 0]
        \/ failCount' = [failCount EXCEPT ![n] = @ + 1]
    BY <1>2, Zenon DEF RecordSuccess, RecordFailure
  <2>4. failCount \in [Nodes -> Nat]
    BY DEF NodesOK
  <2>5. failCount' \in [Nodes -> Nat]
    BY <2>3, <2>4
  <2> QED
    BY <2>1, <2>2, <2>5 DEF NodesOK
<1>3. ASSUME NEW w \in Workers, NEW n \in Nodes, Promote(w, n)
      PROVE  NodesOK'
  BY <1>3 DEF Promote, Replicas, NodesOK
<1>4. CASE UNCHANGED <<nodeVars, primary>>
  BY <1>4 DEF nodeVars, NodesOK
<1> QED
  BY <1>1, <1>2, <1>3, <1>4
     DEF Next, ProcessResponse, TriggerFailover, NoResponse, Responding, Process,
         Check, Trigger, NoReplica, vars, nodeVars

(* ... and to the counters and flags.                                      *)
LEMMA CountsStep ==
  ASSUME CountsOK, inProgress \in BOOLEAN, faulted \in BOOLEAN, [Next]_vars
  PROVE  CountsOK' /\ inProgress' \in BOOLEAN /\ faulted' \in BOOLEAN
<1> USE DEF CountsOK, statsVars
<1>1. ASSUME NEW w \in Workers, Responding(w)
      PROVE  CountsOK' /\ UNCHANGED <<inProgress, faulted>>
  BY <1>1 DEF Responding
<1>2. ASSUME NEW w \in Workers, Trigger(w)
      PROVE  CountsOK' /\ inProgress' = TRUE /\ UNCHANGED faulted
  BY <1>2 DEF Trigger
<1>3. ASSUME NEW w \in Workers, Ends(w)
      PROVE  CountsOK' /\ inProgress' = FALSE /\ UNCHANGED faulted
  BY <1>3 DEF Ends, NoReplica, Promote
<1>4. ASSUME NEW w \in Workers, Process(w)
      PROVE  CountsOK' /\ UNCHANGED inProgress /\ faulted' \in BOOLEAN
  BY <1>4 DEF Process
<1>5. CASE UNCHANGED <<inProgress, statsVars, faulted, responses>>
  BY <1>5
<1> QED
  BY <1>1, <1>2, <1>3, <1>4, <1>5
     DEF Next, ProcessResponse, TriggerFailover, NoResponse, RecordSuccess,
         RecordFailure, AddDatabase, Check, Ends, vars

-----------------------------------------------------------------------------
(* The mutual exclusion, the flag, the counters and the panic of Process   *)
(* go together.                                                            *)
LEMMA LockStep ==
  ASSUME WorkersOK, CountsOK, FlagIsLock, NoDoubleUnlock, StatsAddUp, [Next]_vars
  PROVE  WorkersOK' /\ FlagIsLock' /\ NoDoubleUnlock' /\ StatsAddUp'
<1> DEFINE Goal == WorkersOK' /\ FlagIsLock' /\ NoDoubleUnlock' /\ StatsAddUp'
<1>1. ASSUME Free, Free', UNCHANGED <<inProgress, statsVars>>
      PROVE  FlagIsLock' /\ StatsAddUp'
  BY <1>1 DEF FlagIsLock, StatsAddUp, statsVars
<1>2. ASSUME Free, UNCHANGED <<pc, inProgress, statsVars, faulted>>
      PROVE  Goal
  BY <1>2 DEF WorkersOK, FlagIsLock, NoDoubleUnlock, StatsAddUp, Free, statsVars
<1>3. ASSUME NEW w \in Workers, Process(w)
      PROVE  Goal
  <2>1. ~faulted'
    BY <1>3 DEF Process, FlagIsLock, NoDoubleUnlock
  <2>2. WorkersOK' /\ Free'
    BY <1>3 DEF Process, WorkersOK, Free
  <2> QED
    BY <1>1, <1>3, <2>1, <2>2 DEF Process, NoDoubleUnlock
<1>4. ASSUME NEW w \in Workers, Responding(w) \/ Check(w)
      PROVE  Goal
  <2>1. Free /\ UNCHANGED <<inProgress, statsVars, faulted>>
    BY <1>4 DEF Responding, Check
  <2>2. \E s \in {"idle", "check", "trigger"} : Goto(w, s)
    BY <1>4 DEF Responding, Check
  <2>3. Free' /\ WorkersOK'
    BY <2>1, <2>2, StaysFree
  <2> QED
    BY <1>1, <2>1, <2>3 DEF NoDoubleUnlock
<1>5. ASSUME NEW w \in Workers, Trigger(w)
      PROVE  Goal
  <2>1. Free /\ ~Free' /\ WorkersOK'
    BY <1>5, TriggerLocks DEF Trigger
  <2>2. triggered = successful + failed + 0
    BY <2>1 DEF StatsAddUp
  <2>3. triggered' = successful' + failed' + 1
    BY <1>5, <2>2 DEF Trigger, CountsOK
  <2> QED
    BY <1>5, <2>1, <2>3 DEF Trigger, FlagIsLock, NoDoubleUnlock, StatsAddUp
<1>6. ASSUME NEW w \in Workers, Ends(w)
      PROVE  Goal
  <2>1. pc[w] = "promoting" /\ Goto(w, "idle") /\ inProgress' = FALSE /\ UNCHANGED faulted
    BY <1>6 DEF Ends, NoReplica, Promote
  <2>2. ~Free /\ Free' /\ WorkersOK'
    BY <2>1, EndFrees
  <2>3. triggered = successful + failed + 1
    BY <2>2 DEF StatsAddUp
  <2>4. triggered' = triggered
    BY <1>6 DEF Ends, NoReplica, Promote
  <2>5. successful' + failed' = successful + failed + 1
    BY <1>6 DEF Ends, NoReplica, Promote, CountsOK
  <2>6. triggered' = successful' + failed' + 0
    BY <2>3, <2>4, <2>5 DEF CountsOK
  <2>7. StatsAddUp'
    BY <2>2, <2>6 DEF StatsAddUp
  <2> QED
    BY <2>1, <2>2, <2>7 DEF FlagIsLock, NoDoubleUnlock
<1>7. CASE UNCHANGED vars
  BY <1>7 DEF vars, WorkersOK, FlagIsLock, NoDoubleUnlock, StatsAddUp, Free, statsVars
<1> QED
  BY <1>2, <1>3, <1>4, <1>5, <1>6, <1>7
     DEF Next, ProcessResponse, TriggerFailover, NoResponse, RecordSuccess,
         RecordFailure, AddDatabase, Ends

(* Only AddDatabase and the recording of a response touch a node's health. *)
LEMMA SickStep ==
  ASSUME NodesOK, SickExactly, [Next]_vars
  PROVE  SickExactly'
<1>0. FailureThreshold \in Nat \ {0}
  BY FailoverAssumption DEF FailoverAssumption
<1>1. ASSUME NEW n \in Nodes, AddDatabase(n), NEW m \in databases'
      PROVE  healthy'[m] <=> failCount'[m] < FailureThreshold \/ m \in excused'
  <2>1. CASE m = n
    <3>1. healthy'[n]
      BY <1>1, Zenon DEF AddDatabase, NodesOK
    <3>2. CASE NewNode(n)
      <4>1. failCount'[n] = 0
        BY <3>2 DEF NewNode, NodesOK
      <4> QED
        BY <1>0, <2>1, <3>1, <4>1
    <3>3. CASE SameNode(n)
      <4>1. failCount' = failCount /\ (failCount[n] < FailureThreshold \/ n \in excused')
        BY <3>3 DEF SameNode
      <4> QED
        BY <2>1, <3>1, <4>1
    <3> QED
      BY <1>1, <3>2, <3>3 DEF AddDatabase
  <2>2. CASE m # n
    <3>1. m \in databases /\ m \in Nodes
      BY <1>1, <2>2 DEF AddDatabase, NodesOK
    <3>2. healthy'[m] = healthy[m] /\ failCount'[m] = failCount[m]
      BY <1>1, <2>2, <3>1 DEF AddDatabase, NewNode, SameNode, NodesOK
    <3>3. m \in excused' <=> m \in excused
      BY <1>1, <2>2 DEF AddDatabase, NewNode, SameNode
    <3> QED
      BY <3>1, <3>2, <3>3 DEF SickExactly
  <2> QED
    BY <2>1, <2>2
<1>2. ASSUME NEW w \in Workers, NEW n \in Nodes, RecordSuccess(w, n) \/ RecordFailure(w, n),
             NEW m \in databases'
      PROVE  healthy'[m] <=> failCount'[m] < FailureThreshold \/ m \in excused'
  <2>0. excused' = excused \ {n} /\ excused \subseteq databases
    BY <1>2 DEF RecordSuccess, RecordFailure, NodesOK
  <2>1. m \in databases /\ m \in Nodes /\ failCount[m] \in Nat
    BY <1>2 DEF RecordSuccess, RecordFailure, Responding, NodesOK
  <2>2. healthy[m] <=> failCount[m] < FailureThreshold \/ m \in excused
    BY <2>1 DEF SickExactly
  <2>3. CASE m # n \/ n \notin databases
    <3>1. healthy'[m] = healthy[m] /\ failCount'[m] = failCount[m]
      BY <1>2, <2>1, <2>3, Zenon DEF RecordSuccess, RecordFailure, NodesOK
    <3>2. m \in excused' <=> m \in excused
      BY <2>0, <2>1, <2>3
    <3> QED
      BY <2>2, <3>1, <3>2
  <2>4. CASE m = n /\ RecordSuccess(w, n)
    <3>1. healthy'[m] /\ failCount'[m] = 0
      BY <2>1, <2>4, Zenon DEF RecordSuccess, NodesOK
    <3> QED
      BY <1>0, <3>1
  <2>5. CASE m = n /\ RecordFailure(w, n)
    <3>1. healthy'[m] <=> healthy[m] /\ failCount[m] + 1 < FailureThreshold
      BY <2>1, <2>5, Zenon DEF RecordFailure, NodesOK
    <3>2. failCount'[m] = failCount[m] + 1
      BY <2>1, <2>5, Zenon DEF RecordFailure, NodesOK
    <3>3. failCount[m] + 1 < FailureThreshold => failCount[m] < FailureThreshold
      BY <1>0, <2>1
    <3>4. m \notin excused'
      BY <2>0, <2>5
    <3> QED
      BY <2>2, <3>1, <3>2, <3>3, <3>4
  <2> QED
    BY <1>2, <2>1, <2>3, <2>4, <2>5
<1>3. CASE UNCHANGED <<databases, healthy, failCount, excused>>
  BY <1>3 DEF SickExactly
<1>4. SickExactly' \/ UNCHANGED <<databases, healthy, failCount, excused>>
  BY <1>1, <1>2
     DEF SickExactly, Next, ProcessResponse, TriggerFailover, NoResponse, Responding,
         Process, Check, Trigger, NoReplica, Promote, vars, nodeVars
<1> QED
  BY <1>3, <1>4

-----------------------------------------------------------------------------
(* Whatever nodes are added and in whatever order the workers' responses,  *)
(* checks and promotions come: the types and the mutual exclusion hold, no *)
(* Process unlocks twice, every failover is accounted for, and a node is   *)
(* out of service exactly while its failures have reached the threshold,   *)
(* but for one that was added again as it is and had no response since.    *)
THEOREM FailoverInductive == Spec => []FailoverInv
<1>1. ASSUME Init
      PROVE  FailoverInv
  <2>1. NodesOK
    BY <1>1 DEF Init, NodesOK
  <2>2. SickExactly
    BY <1>1, Zenon DEF Init, SickExactly
  <2>3. triggered = 0 /\ successful = 0 /\ failed = 0 /\ responses = 0
    BY <1>1, Zenon DEF Init
  <2>4. inProgress = FALSE /\ faulted = FALSE
    BY <1>1, Zenon DEF Init
  <2>5. WorkersOK /\ Free
    BY <1>1 DEF Init, WorkersOK, Free
  <2>6. CountsOK /\ StatsAddUp
    BY <2>3, <2>5 DEF CountsOK, StatsAddUp
  <2> QED
    BY <2>1, <2>2, <2>4, <2>5, <2>6 DEF FailoverInv, TypeOK, FlagIsLock, NoDoubleUnlock
<1>2. FailoverInv /\ [Next]_vars => FailoverInv'
  BY NodesStep, CountsStep, LockStep, SickStep DEF FailoverInv, TypeOK
<1> QED
  BY <1>1, <1>2, PTL DEF Spec

(* ... as the run states it: for any nodes, workers and threshold no       *)
(* Process unlocks twice, a failover that was triggered is counted once,   *)
(* or is the one in progress, and a node is out of service exactly while   *)
(* its failures have reached the threshold, unless it was added again as   *)
(* it is and had no response since.                                        *)
THEOREM FailoverSafe == Spec => [](TypeOK /\ FailoverSound)
<1>1. FailoverInv => TypeOK /\ FailoverSound
  BY DEF FailoverInv, FailoverSound
<1> QED
  BY <1>1, FailoverInductive, PTL

(* A promotion picks a node that is not out of service, and a node that is *)
(* added starts healthy: nobody becomes primary while it is sick.          *)
THEOREM FailoverPromotes == Spec => PromotesHealthy
<1> DEFINE Good == primary' # primary => /\ primary' \in databases'
                                         /\ healthy'[primary']
                                         /\ ~Sick(primary)'
<1>1. ASSUME TypeOK, [Next]_vars
      PROVE  [Good]_vars
  <2>1. ASSUME NEW n \in Nodes, AddDatabase(n)
        PROVE  Good
    <3>1. n \in databases' /\ healthy'[n] /\ (primary' = n \/ primary' = primary)
      BY <2>1, <1>1 DEF AddDatabase, TypeOK, NodesOK
    <3> QED
      BY <3>1 DEF Sick
  <2>2. ASSUME NEW w \in Workers, NEW n \in Nodes, Promote(w, n)
        PROVE  Good
    <3>1. primary' = n /\ n \in databases' /\ healthy'[n]
      BY <2>2 DEF Promote, Replicas
    <3> QED
      BY <3>1 DEF Sick
  <2>3. CASE UNCHANGED primary
    BY <2>3
  <2> QED
    BY <1>1, <2>1, <2>2, <2>3
       DEF Next, ProcessResponse, TriggerFailover, NoResponse, RecordSuccess,
           RecordFailure, Responding, Process, Check, Trigger, NoReplica, vars
<1>2. TypeOK /\ [Next]_vars => [Good]_vars
  BY <1>1
<1> QED
  BY <1>2, FailoverSafe, PTL DEF Spec, PromotesHealthy

-----------------------------------------------------------------------------
BreakersInv == CircuitTypeOK /\ CountDecides

-----------------------------------------------------------------------------
LEMMA BreakersStart == CircuitInit => BreakersInv
BY BreakersAssumption
   DEF CircuitInit, BreakersInv, CircuitTypeOK, CountDecides, BreakersAssumption

(* Moving a request keeps the places in order.                             *)
LEMMA MoveKeeps ==
  ASSUME CircuitTypeOK, NEW r \in Requests, UNCHANGED flavour,
         NEW to \in {"away", "looked", "decided", "inside"}, Move(r, to),
         flavour = "limits" \/ to \in {"away", "inside"}
  PROVE  /\ place' \in [Requests -> {"away", "looked", "decided", "inside"}]
         /\ flavour' # "limits" => \A q \in Requests : place'[q] \in {"away", "inside"}
BY DEF CircuitTypeOK, Move

(* A request passes, or tries to.                                          *)
LEMMA PassStep ==
  ASSUME BreakersInv, NEW r \in Requests, Pass(r)
  PROVE  BreakersInv'
<1> USE BreakersAssumption DEF BreakersInv, BreakersAssumption
<1>1. CASE RetryAdmit(r)
  <2>1. CircuitTypeOK'
    BY <1>1, MoveKeeps DEF RetryAdmit, CircuitTypeOK
  <2> QED
    BY <1>1, <2>1 DEF RetryAdmit, CountDecides
<1>2. CASE PolicyAdmit(r)
  <2>1. CircuitTypeOK'
    BY <1>2, MoveKeeps DEF PolicyAdmit, CircuitTypeOK
  <2> QED
    BY <1>2, <2>1 DEF PolicyAdmit, CountDecides
<1>3. CASE RouterAdmit(r)
  <2>1. CircuitTypeOK'
    BY <1>3, MoveKeeps DEF RouterAdmit, CircuitTypeOK
  <2> QED
    BY <1>3, <2>1 DEF RouterAdmit, CountDecides
<1>4. CASE LimitsLook(r) \/ LimitsTime(r)
  <2>1. flavour = "limits" /\ UNCHANGED <<flavour, circuit, failures, successes, cooled>>
    BY <1>4 DEF LimitsLook, LimitsTime, CircuitTypeOK
  <2>2. \E to \in {"away", "looked", "decided", "inside"} : Move(r, to)
    BY <1>4 DEF LimitsLook, LimitsTime
  <2>3. CircuitTypeOK'
    BY <2>1, <2>2, MoveKeeps DEF CircuitTypeOK
  <2> QED
    BY <2>1, <2>3 DEF CountDecides
<1>5. CASE LimitsTry(r)
  <2>1. flavour = "limits"
    BY <1>5 DEF LimitsTry, CircuitTypeOK
  <2>2. CircuitTypeOK'
    BY <1>5, MoveKeeps DEF LimitsTry, CircuitTypeOK
  <2> QED
    BY <1>5, <2>1, <2>2 DEF LimitsTry, CountDecides
<1> QED
  BY <1>1, <1>2, <1>3, <1>4, <1>5 DEF Pass

(* A request has an outcome, or is lost.                                   *)
LEMMA OutcomeStep ==
  ASSUME BreakersInv, NEW r \in Requests, Outcome(r)
  PROVE  BreakersInv'
<1> USE BreakersAssumption DEF BreakersInv, BreakersAssumption
<1>1. RecordOutcome(r)
  BY DEF Outcome, LimitsFailure, OtherFailure, CountFailure, RetrySuccess,
         PolicySuccess, RouterSuccess, LimitsSuccess, NoOutcome
<1>2. /\ place' \in [Requests -> {"away", "looked", "decided", "inside"}]
      /\ flavour' # "limits" => \A q \in Requests : place'[q] \in {"away", "inside"}
  BY <1>1, MoveKeeps DEF RecordOutcome
<1>3. CASE LimitsFailure(r) \/ OtherFailure(r)
  <2>1. CircuitTypeOK'
    <3>1. /\ circuit' \in {"open", circuit}
          /\ failures' = failures + 1 /\ successes' = successes
          /\ cooled' = FALSE /\ flavour' = flavour
      BY <1>1, <1>3 DEF LimitsFailure, OtherFailure, CountFailure, RecordOutcome
    <3>2. /\ circuit' \in {"closed", "open", "half-open"}
          /\ failures' \in Nat /\ successes' \in Nat
          /\ flavour' \in {"retry", "policy", "router", "limits"}
      BY <3>1 DEF CircuitTypeOK
    <3>3. cooled' \in BOOLEAN
      BY <3>1
    <3> QED
      BY <1>2, <3>2, <3>3, Zenon DEF CircuitTypeOK
  <2>2. CountDecides'
    BY <1>1, <1>3
       DEF LimitsFailure, OtherFailure, CountFailure, RecordOutcome, CountDecides,
           CircuitTypeOK
  <2> QED
    BY <2>1, <2>2
<1>4. CASE RetrySuccess(r) \/ PolicySuccess(r)
  <2>1. CircuitTypeOK'
    BY <1>1, <1>2, <1>4 DEF RetrySuccess, PolicySuccess, RecordOutcome, CircuitTypeOK
  <2>2. CountDecides'
    BY <1>1, <1>4
       DEF RetrySuccess, PolicySuccess, RecordOutcome, CountDecides, CircuitTypeOK
  <2> QED
    BY <2>1, <2>2
<1>5. CASE RouterSuccess(r) \/ LimitsSuccess(r)
  <2>1. CircuitTypeOK'
    BY <1>1, <1>2, <1>5 DEF RouterSuccess, LimitsSuccess, RecordOutcome, CircuitTypeOK
  <2>2. CountDecides'
    BY <1>1, <1>5
       DEF RouterSuccess, LimitsSuccess, RecordOutcome, CountDecides, CircuitTypeOK
  <2> QED
    BY <2>1, <2>2
<1>6. CASE NoOutcome(r)
  BY <1>1, <1>2, <1>6 DEF NoOutcome, RecordOutcome, CircuitTypeOK, CountDecides
<1> QED
  BY <1>3, <1>4, <1>5, <1>6 DEF Outcome

LEMMA BreakersSteps ==
  ASSUME BreakersInv, [CircuitNext]_circuitVars
  PROVE  BreakersInv'
<1>1. CASE CoolDown
  BY <1>1 DEF CoolDown, BreakersInv, CircuitTypeOK, CountDecides
<1>2. CASE LimitsTick
  BY <1>2 DEF LimitsTick, BreakersInv, CircuitTypeOK, CountDecides
<1>3. CASE PolicyReset
  BY <1>3, BreakersAssumption
     DEF PolicyReset, BreakersInv, CircuitTypeOK, CountDecides, BreakersAssumption
<1>4. ASSUME NEW r \in Requests, Pass(r) \/ Outcome(r)
      PROVE  BreakersInv'
  BY <1>4, PassStep, OutcomeStep
<1>5. CASE UNCHANGED circuitVars
  BY <1>5 DEF circuitVars, BreakersInv, CircuitTypeOK, CountDecides
<1> QED
  BY <1>1, <1>2, <1>3, <1>4, <1>5 DEF CircuitNext

LEMMA BreakersAlways == CircuitSpec => []BreakersInv
BY BreakersStart, BreakersSteps, PTL DEF CircuitSpec

(* The variables range over what their declarations say, and only the rate *)
(* limiter's requests take more than one step to pass the breaker.         *)
THEOREM BreakersTypeCorrect == CircuitSpec => []CircuitTypeOK
BY BreakersAlways, PTL DEF BreakersInv

(* Whatever requests are in flight when a breaker opens, tries or closes,  *)
(* the failure count and the state of the breaker stay together.           *)
THEOREM CountAlwaysDecides == CircuitSpec => []CountDecides
BY BreakersAlways, PTL DEF BreakersInv

-----------------------------------------------------------------------------
LEMMA BreakersInitMaps == CircuitInit => B!BreakerInit
BY DEF CircuitInit, B!BreakerInit, Stragglers

(* Nobody but the requests can be a straggler, and the owner's right to    *)
(* reset does not change.                                                  *)
LEMMA OnlyStraggling ==
  ASSUME UNCHANGED flavour
  PROVE  B!Straggling
BY DEF B!Straggling, Stragglers

(* What moving a request does to those inside.                             *)
LEMMA MovesInside ==
  ASSUME CircuitTypeOK, NEW r \in Requests, NEW to, Move(r, to)
  PROVE  {q \in Requests : place'[q] = "inside"} =
           IF to = "inside" THEN {q \in Requests : place[q] = "inside"} \cup {r}
                            ELSE {q \in Requests : place[q] = "inside"} \ {r}
BY DEF CircuitTypeOK, Move

(* Passing the breaker, or dealing with it, is what the abstract one calls *)
(* so.                                                                     *)
LEMMA PassMaps ==
  ASSUME BreakersInv, NEW r \in Requests, Pass(r)
  PROVE  B!LetThrough(r) \/ B!Attend(r)
<1> USE DEF BreakersInv
<1>1. CASE RetryAdmit(r) \/ PolicyAdmit(r) \/ RouterAdmit(r)
  <2>1. UNCHANGED <<flavour, cooled>> /\ Move(r, "inside") /\ place[r] = "away"
    BY <1>1 DEF RetryAdmit, PolicyAdmit, RouterAdmit
  <2>2. \/ circuit # "open" /\ circuit' \in {circuit, "closed"}
        \/ circuit = "open" /\ cooled /\ circuit' = "half-open"
    BY <1>1 DEF RetryAdmit, PolicyAdmit, RouterAdmit
  <2>3. B!Straggling
    BY <2>1, OnlyStraggling
  <2>4. {q \in Requests : place'[q] = "inside"} =
          {q \in Requests : place[q] = "inside"} \cup {r}
    BY <2>1, MovesInside
  <2> QED
    BY <2>1, <2>2, <2>3, <2>4 DEF B!LetThrough
<1>2. CASE LimitsLook(r)
  <2>1. B!Straggling
    BY <1>2, OnlyStraggling DEF LimitsLook
  <2>2. CASE circuit = "open"
    <3>1. Move(r, "looked") /\ place[r] = "away" /\ UNCHANGED <<circuit, cooled>>
      BY <1>2, <2>2 DEF LimitsLook
    <3>2. {q \in Requests : place'[q] = "inside"} =
            {q \in Requests : place[q] = "inside"} \ {r}
      BY <3>1, MovesInside
    <3> QED
      BY <2>1, <3>1, <3>2 DEF B!Attend
  <2>3. CASE circuit # "open"
    <3>1. Move(r, "inside") /\ place[r] = "away" /\ UNCHANGED <<circuit, cooled>>
      BY <1>2, <2>3 DEF LimitsLook
    <3>2. {q \in Requests : place'[q] = "inside"} =
            {q \in Requests : place[q] = "inside"} \cup {r}
      BY <3>1, MovesInside
    <3> QED
      BY <2>1, <2>3, <3>1, <3>2 DEF B!LetThrough
  <2> QED
    BY <2>2, <2>3
<1>3. CASE LimitsTime(r)
  <2>1. B!Straggling
    BY <1>3, OnlyStraggling DEF LimitsTime
  <2>2. \E to \in {"decided", "away"} : Move(r, to)
    BY <1>3 DEF LimitsTime
  <2>3. {q \in Requests : place'[q] = "inside"} =
          {q \in Requests : place[q] = "inside"} \ {r}
    BY <2>2, MovesInside
  <2> QED
    BY <1>3, <2>1, <2>3 DEF LimitsTime, B!Attend
<1>4. CASE LimitsTry(r)
  <2>1. r \in Stragglers /\ place[r] = "decided"
    BY <1>4 DEF LimitsTry, Stragglers, CircuitTypeOK
  <2>2. B!Straggling
    BY <1>4, OnlyStraggling DEF LimitsTry
  <2>3. {q \in Requests : place'[q] = "inside"} =
          {q \in Requests : place[q] = "inside"} \cup {r}
    BY <1>4, MovesInside DEF LimitsTry
  <2> QED
    BY <1>4, <2>1, <2>2, <2>3 DEF LimitsTry, B!LetThrough
<1> QED
  BY <1>1, <1>2, <1>3, <1>4 DEF Pass

(* So is the outcome. That a failure outside the closed phase opens the    *)
(* breaker is CountDecides, and the rate limiter's own rule.               *)
LEMMA OutcomeMaps ==
  ASSUME BreakersInv, NEW r \in Requests, Outcome(r)
  PROVE  B!Fail(r) \/ B!Succeed(r) \/ B!Attend(r)
<1> USE DEF BreakersInv
<1>1. RecordOutcome(r)
  BY DEF Outcome, LimitsFailure, OtherFailure, CountFailure, RetrySuccess,
         PolicySuccess, RouterSuccess, LimitsSuccess, NoOutcome
<1>2. B!Straggling
  BY <1>1, OnlyStraggling DEF RecordOutcome
<1>3. {q \in Requests : place'[q] = "inside"} =
        {q \in Requests : place[q] = "inside"} \ {r}
  BY <1>1, MovesInside DEF RecordOutcome
<1>4. place[r] = "inside"
  BY <1>1 DEF RecordOutcome
<1>5. CASE LimitsFailure(r) \/ OtherFailure(r)
  <2>1. cooled' = FALSE
    BY <1>5 DEF LimitsFailure, OtherFailure, CountFailure
  <2>2. circuit' \in (IF circuit = "closed" THEN {"closed", "open"} ELSE {"open"})
    <3>1. CASE LimitsFailure(r)
      BY <3>1 DEF LimitsFailure, CircuitTypeOK
    <3>2. CASE OtherFailure(r)
      <4>1. circuit # "closed" => failures + 1 >= Threshold
        BY <3>2, BreakersAssumption
           DEF OtherFailure, CountDecides, CircuitTypeOK, BreakersAssumption
      <4> QED
        BY <3>2, <4>1 DEF OtherFailure, CircuitTypeOK
    <3> QED
      BY <1>5, <3>1, <3>2
  <2> QED
    BY <1>2, <1>3, <1>4, <2>1, <2>2 DEF B!Fail
<1>6. CASE RetrySuccess(r) \/ PolicySuccess(r) \/ LimitsSuccess(r)
  <2>1. /\ circuit' \in {circuit, "closed"}
        /\ circuit = "open" => circuit' = "open"
        /\ cooled' = cooled
    BY <1>6 DEF RetrySuccess, PolicySuccess, LimitsSuccess
  <2> QED
    BY <1>2, <1>3, <1>4, <2>1 DEF B!Succeed
<1>7. CASE RouterSuccess(r)
  <2>1. r \in Stragglers /\ circuit' = "closed" /\ cooled' = cooled
    BY <1>4, <1>7 DEF RouterSuccess, Stragglers
  <2> QED
    BY <1>2, <1>3, <1>4, <2>1 DEF B!Succeed
<1>8. CASE NoOutcome(r)
  BY <1>2, <1>3, <1>8 DEF NoOutcome, B!Attend
<1> QED
  BY <1>5, <1>6, <1>7, <1>8 DEF Outcome

LEMMA BreakersStepMaps ==
  ASSUME BreakersInv, [CircuitNext]_circuitVars
  PROVE  [B!BreakerNext]_B!breakerVars
<1>1. CASE CoolDown \/ LimitsTick
  BY <1>1 DEF CoolDown, LimitsTick, Stragglers, B!BreakerNext, B!Cool
<1>2. CASE PolicyReset
  BY <1>2 DEF PolicyReset, Stragglers, B!BreakerNext, B!Reset
<1>3. ASSUME NEW r \in Requests, Pass(r) \/ Outcome(r)
      PROVE  B!BreakerNext
  BY <1>3, PassMaps, OutcomeMaps DEF B!BreakerNext
<1>4. CASE UNCHANGED circuitVars
  BY <1>4 DEF circuitVars, Stragglers, B!breakerVars
<1> QED
  BY <1>1, <1>2, <1>3, <1>4 DEF CircuitNext

(* Each of the four breakers implements Breaker: while it is open and      *)
(* cooling only a request that dealt with it before gets through or lifts  *)
(* it, and the first failure of the trial phase opens it again.            *)
THEOREM BreakersImplement == CircuitSpec => ImplementsBreaker
BY BreakersAlways, BreakersInitMaps, BreakersStepMaps, PTL
   DEF CircuitSpec, ImplementsBreaker, B!BreakerSpec
=============================================================================
