------------------------------ MODULE Breakers ------------------------------
(***************************************************************************)
(* The four circuit breakers: the retry intelligence engine's ("retry"),   *)
(* the one in internal/retry ("policy"), the router's ("router") and the   *)
(* rate limit intelligence engine's ("limits"). They differ in what lets   *)
(* them leave the open state and in what forgets the failures.             *)
(*                                                                         *)
(* A request is a goroutine between the question whether it may pass and   *)
(* its outcome. The policy's breaker has no mutex (its races are listed    *)
(* with those of ServiceMethods) and nothing in the source calls it: it is *)
(* taken here as used by one goroutine at a time.                          *)
(***************************************************************************)
EXTENDS Naturals

CONSTANTS
  Requests,
  Threshold,        \* failures that open a breaker
  MaxOutcomes       \* bound of the model: failures, and successes, counted

SuccessThreshold == 3

ASSUME BreakersAssumption == Threshold \in Nat \ {0} /\ MaxOutcomes \in Nat

VARIABLES
  flavour,      \* which of the four breakers it is
  circuit,      \* "closed", "open" or "half-open"
  failures,     \* the failure count
  successes,    \* the success count
  cooled,       \* more than the timeout has passed since the last failure
  place         \* per request: "away", "looked", "decided" or "inside"

circuitVars == <<flavour, circuit, failures, successes, cooled, place>>

CircuitInit ==
  /\ flavour \in {"retry", "policy", "router", "limits"}
  /\ circuit = "closed"
  /\ failures = 0 /\ successes = 0
  /\ cooled = TRUE
  /\ place = [r \in Requests |-> "away"]

Move(r, to) == place' = [place EXCEPT ![r] = to]

CoolDown ==
  /\ ~cooled /\ cooled' = TRUE
  /\ UNCHANGED <<flavour, circuit, failures, successes, place>>

-----------------------------------------------------------------------------
(* Passing. The retry engine changes the state while it only reads-locks;  *)
(* a half-open breaker lets everybody through.                             *)
RetryAdmit(r) ==
  /\ flavour = "retry" /\ place[r] = "away"
  /\ circuit = "open" => cooled
  /\ circuit' = IF circuit = "open" THEN "half-open" ELSE circuit
  /\ Move(r, "inside")
  /\ UNCHANGED <<flavour, failures, successes, cooled>>

(* Mutant: the trial starts without waiting for the timeout.               *)
PolicyAdmit_Hot(r) ==
  /\ flavour = "policy" /\ \A q \in Requests : place[q] = "away"
  /\ \/ /\ circuit = "open"
        /\ circuit' = "half-open" /\ successes' = 0 /\ UNCHANGED failures
     \/ circuit # "open" /\ UNCHANGED <<circuit, successes, failures>>
  /\ Move(r, "inside")
  /\ UNCHANGED <<flavour, cooled>>

PolicyAdmit(r) ==
  /\ flavour = "policy" /\ \A q \in Requests : place[q] = "away"
  /\ \/ /\ circuit = "open" /\ cooled
        /\ circuit' = "half-open" /\ successes' = 0 /\ UNCHANGED failures
     \/ /\ circuit # "open"
        /\ LET close == circuit = "half-open" /\ successes >= SuccessThreshold
           IN  /\ circuit' = IF close THEN "closed" ELSE circuit
               /\ failures' = IF close THEN 0 ELSE failures
        /\ UNCHANGED successes
  /\ Move(r, "inside")
  /\ UNCHANGED <<flavour, cooled>>

(* An open router breaker wants lastFailure > 0, and that is always 0.     *)
RouterAdmit(r) ==
  /\ flavour = "router" /\ place[r] = "away"
  /\ circuit # "open"
  /\ Move(r, "inside")
  /\ UNCHANGED <<flavour, circuit, failures, successes, cooled>>

(* The rate limiter looks at the state, then at the time, without a lock,  *)
(* and then locks to write the state it has decided on.                    *)
LimitsLook(r) ==
  /\ flavour = "limits" /\ place[r] = "away"
  /\ Move(r, IF circuit = "open" THEN "looked" ELSE "inside")
  /\ UNCHANGED <<flavour, circuit, failures, successes, cooled>>

LimitsTime(r) ==
  /\ place[r] = "looked"
  /\ Move(r, IF cooled THEN "decided" ELSE "away")
  /\ UNCHANGED <<flavour, circuit, failures, successes, cooled>>

LimitsTry(r) ==
  /\ place[r] = "decided"
  /\ circuit' = "half-open"
  /\ Move(r, "inside")
  /\ UNCHANGED <<flavour, failures, successes, cooled>>

(* cleanupRoutine, every few minutes. *)
LimitsTick ==
  /\ flavour = "limits" /\ circuit = "open" /\ cooled
  /\ circuit' = "half-open"
  /\ UNCHANGED <<flavour, failures, successes, cooled, place>>

-----------------------------------------------------------------------------
(* Outcomes. Only the rate limiter looks at the phase when a request fails,*)
(* the others at the count alone.                                          *)
RecordOutcome(r) ==
  /\ place[r] = "inside" /\ Move(r, "away")
  /\ UNCHANGED flavour

CountFailure(r) ==
  /\ RecordOutcome(r)
  /\ failures < MaxOutcomes
  /\ failures' = failures + 1
  /\ cooled' = FALSE
  /\ UNCHANGED successes

LimitsFailure(r) ==
  /\ flavour = "limits" /\ CountFailure(r)
  /\ circuit' = IF circuit = "half-open" \/ failures + 1 >= Threshold
                  THEN "open" ELSE circuit

OtherFailure(r) ==
  /\ flavour # "limits" /\ CountFailure(r)
  /\ circuit' = IF failures + 1 >= Threshold THEN "open" ELSE circuit

(* Mutant: closing forgets the successes and not the failures.             *)
RetrySuccess_KeepFailures(r) ==
  /\ flavour = "retry" /\ RecordOutcome(r)
  /\ successes < MaxOutcomes
  /\ LET close == circuit = "half-open" /\ successes + 1 >= SuccessThreshold
     IN  /\ circuit' = IF close THEN "closed" ELSE circuit
         /\ successes' = IF close THEN 0 ELSE successes + 1
  /\ UNCHANGED <<cooled, failures>>

(* Successes count while the breaker is closed too, so that one may be     *)
(* enough to close it.                                                     *)
RetrySuccess(r) ==
  /\ flavour = "retry" /\ RecordOutcome(r)
  /\ successes < MaxOutcomes
  /\ LET close == circuit = "half-open" /\ successes + 1 >= SuccessThreshold
     IN  /\ circuit' = IF close THEN "closed" ELSE circuit
         /\ failures' = IF close THEN 0 ELSE failures
         /\ successes' = IF close THEN 0 ELSE successes + 1
  /\ UNCHANGED cooled

PolicySuccess(r) ==
  /\ flavour = "policy" /\ RecordOutcome(r)
  /\ successes < MaxOutcomes
  /\ successes' = successes + 1
  /\ LET close == circuit = "half-open" /\ successes + 1 >= SuccessThreshold
     IN  /\ circuit' = IF close THEN "closed" ELSE circuit
         /\ failures' = IF close THEN 0 ELSE failures
  /\ UNCHANGED cooled

(* Any success closes it, that of a request from before it opened too.     *)
RouterSuccess(r) ==
  /\ flavour = "router" /\ RecordOutcome(r)
  /\ circuit' = "closed" /\ failures' = 0
  /\ UNCHANGED <<successes, cooled>>

LimitsSuccess(r) ==
  /\ flavour = "limits" /\ RecordOutcome(r)
  /\ circuit' = IF circuit = "half-open" THEN "closed" ELSE circuit
  /\ failures' = IF circuit = "half-open" THEN 0 ELSE failures
  /\ UNCHANGED <<successes, cooled>>

(* A later engine refuses the query, or its response carries an error,     *)
(* which the retry engine passes over: the breaker hears of no outcome.    *)
NoOutcome(r) ==
  /\ flavour \in {"retry", "router", "limits"} /\ RecordOutcome(r)
  /\ UNCHANGED <<circuit, failures, successes, cooled>>

PolicyReset ==
  /\ flavour = "policy" /\ \A q \in Requests : place[q] = "away"
  /\ circuit' = "closed" /\ failures' = 0 /\ successes' = 0
  /\ UNCHANGED <<flavour, cooled, place>>

Pass(r) ==
  \/ RetryAdmit(r) \/ PolicyAdmit(r) \/ RouterAdmit(r)
  \/ LimitsLook(r) \/ LimitsTime(r) \/ LimitsTry(r)

Outcome(r) ==
  \/ LimitsFailure(r) \/ OtherFailure(r)
  \/ RetrySuccess(r) \/ PolicySuccess(r) \/ RouterSuccess(r) \/ LimitsSuccess(r)
  \/ NoOutcome(r)

CircuitNext ==
  \/ CoolDown \/ LimitsTick \/ PolicyReset
  \/ \E r \in Requests : Pass(r) \/ Outcome(r)

CircuitSpec == CircuitInit /\ [][CircuitNext]_circuitVars

-----------------------------------------------------------------------------
(* The variables range over what their declarations say; only the rate     *)
(* limiter's requests take more than one step to pass.                     *)
CircuitTypeOK ==
  /\ flavour \in {"retry", "policy", "router", "limits"}
  /\ circuit \in {"closed", "open", "half-open"}
  /\ failures \in Nat /\ successes \in Nat
  /\ cooled \in BOOLEAN
  /\ place \in [Requests -> {"away", "looked", "decided", "inside"}]
  /\ flavour # "limits" => \A r \in Requests : place[r] \in {"away", "inside"}

(* The failure count and the state never drift apart: a closed breaker has *)
(* counted fewer failures than open it, and one that is not closed has     *)
(* kept them, so that the first failure of the trial opens it again. The   *)
(* rate limiter's breaker does so by another rule and forgets. This is so  *)
(* whatever requests are in flight when a breaker with a mutex opens,      *)
(* tries or closes; the policy's has none in flight but its caller's.      *)
CountDecides ==
  /\ circuit = "closed" => failures < Threshold
  /\ circuit # "closed" /\ flavour # "limits" => failures >= Threshold

(* Who may still lift an opening that came after it passed or looked.      *)
Stragglers ==
  {r \in Requests :
     \/ flavour = "router" /\ place[r] = "inside"
     \/ flavour = "limits" /\ place[r] \in {"looked", "decided"}}

B == INSTANCE Breaker WITH
       mode <- circuit,
       cool <- cooled,
       inside <- {r \in Requests : place[r] = "inside"},
       stragglers <- Stragglers,
       resettable <- flavour = "policy"

(* Each of the four implements Breaker: while it is open and cooling only  *)
(* a straggler gets through or lifts it, and the retry engine's and the    *)
(* policy's breakers have no stragglers; only the policy's can be reset.   *)
(* Breaker promises neither that the trial is one request's nor that it    *)
(* ever comes.                                                             *)
ImplementsBreaker == B!BreakerSpec
=============================================================================
