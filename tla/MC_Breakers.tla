----------------------------- MODULE MC_Breakers -----------------------------
(***************************************************************************)
(* The instance of Breakers in which a comment of the retry intelligence   *)
(* engine is put to it. A history variable tells the requests that the     *)
(* trial phase let through from those that were inside before it.          *)
(***************************************************************************)
EXTENDS Breakers, FiniteSets

VARIABLE trying   \* let through in the present trial phase, with no outcome yet

trialVars == <<circuitVars, trying>>

TrialInit == CircuitInit /\ flavour = "retry" /\ trying = {}

Enters(r) == place[r] # "inside" /\ place'[r] = "inside"
Stays(r) == r \in trying /\ place'[r] = "inside"

TrialNext ==
  /\ CircuitNext
  /\ trying' = IF circuit' = "half-open"
                 THEN {r \in Requests : Enters(r) \/ Stays(r)}
                 ELSE {}

TrialSpec == TrialInit /\ [][TrialNext]_trialVars

(* "half-open - allow one request" (retry_intelligence_engine.go:162): the *)
(* trial phase has one request at most that was let through and has no     *)
(* outcome yet.                                                            *)
OneTrial == Cardinality(trying) <= 1
=============================================================================
