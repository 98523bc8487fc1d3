------------------------------- MODULE Breaker -------------------------------
(***************************************************************************)
(* What a circuit breaker promises: while it is open and still cooling it  *)
(* lets nobody through; the first failure of its trial phase opens it      *)
(* again; and it leaves the open state only when it has cooled, or by the  *)
(* hand of a straggler: somebody who dealt with it before it opened. It    *)
(* says nothing of how many the trial phase lets through, nor that there   *)
(* ever is one: of the breakers here one tries everybody and one nobody.   *)
(***************************************************************************)
CONSTANT Requests

VARIABLES
  mode,         \* "closed", "open" or "half-open" (the trial phase)
  cool,         \* the timeout has passed since the last failure
  inside,       \* the requests that were let through and have no outcome yet
  stragglers,   \* the requests that may still lift an opening after theirs
  resettable    \* its owner may close it by hand

breakerVars == <<mode, cool, inside, stragglers, resettable>>

BreakerInit ==
  /\ mode = "closed" /\ cool = TRUE
  /\ inside = {} /\ stragglers = {}
  /\ resettable \in BOOLEAN

(* Who may become a straggler, and when, is the implementation's affair.   *)
Straggling == stragglers' \subseteq Requests /\ UNCHANGED resettable

LetThrough(r) ==
  /\ r \notin inside
  /\ \/ mode # "open" /\ mode' \in {mode, "closed"}
     \/ mode = "open" /\ cool /\ mode' = "half-open"
     \/ r \in stragglers /\ mode' = "half-open"
  /\ inside' = inside \cup {r}
  /\ UNCHANGED cool /\ Straggling

Fail(r) ==
  /\ r \in inside
  /\ mode' \in (IF mode = "closed" THEN {"closed", "open"} ELSE {"open"})
  /\ inside' = inside \ {r}
  /\ cool' = FALSE /\ Straggling

Succeed(r) ==
  /\ r \in inside
  /\ mode' \in {mode, "closed"}
  /\ mode = "open" /\ r \notin stragglers => mode' = "open"
  /\ inside' = inside \ {r}
  /\ UNCHANGED cool /\ Straggling

(* The time of the timeout passes, or the breaker acts on it by itself.    *)
Cool ==
  /\ \/ cool' = TRUE /\ UNCHANGED mode
     \/ cool /\ mode = "open" /\ mode' = "half-open" /\ UNCHANGED cool
  /\ UNCHANGED <<inside, stragglers, resettable>>

(* A request deals with the breaker without passing it or telling it.      *)
Attend(r) ==
  /\ inside' \in {inside, inside \ {r}}
  /\ UNCHANGED <<mode, cool>> /\ Straggling

Reset ==
  /\ resettable
  /\ mode' = "closed"
  /\ UNCHANGED <<cool, inside, stragglers, resettable>>

BreakerNext ==
  Cool \/ Reset \/ \E r \in Requests : LetThrough(r) \/ Fail(r) \/ Succeed(r) \/ Attend(r)

BreakerSpec == BreakerInit /\ [][BreakerNext]_breakerVars
=============================================================================
