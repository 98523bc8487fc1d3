------------------------------ MODULE MC_Running ------------------------------
(***************************************************************************)
(* The running core as it goes on: the server with one client, the         *)
(* handlers with two that race, and the hub. A behaviour is of one of the  *)
(* three, chosen by part, and the others rest in their initial states: the *)
(* server with two clients is more than TLC can take, and the hub shares   *)
(* no variable with either. The instance is in MC_Running.cfg; it asks for *)
(* liveness and so uses no symmetry.                                       *)
(***************************************************************************)
EXTENDS Server, Sequences

CONSTANTS
  Served,         \* a bound: the connections that are made to the server
  RacingChunks,   \* a bound: the chunks that clients of "handlers" send
  Clients, Broadcasters, SendCap, BroadcastCap, MaxMessages     \* see Hub

VARIABLES
  published, bcast, caller, clients, hubPc, cur, msg, todo, send, chan, faults,
  conn, ws, rd, wr, left, batch, delivered, joinedAt,
  part            \* whose behaviour it is: "server", "handlers" or "hub"

W == INSTANCE Hub

hubVars == <<published, bcast, caller, clients, hubPc, cur, msg, todo, send, chan,
             faults, conn, ws, rd, wr, left, batch, delivered, joinedAt>>
runningVars == <<vars, hubVars, part>>

ServedBound ==
  /\ part = "server" => \A p \in Conns \ Served : cpc[p] = "none"
  /\ part = "handlers" => \A p \in Conns : sent[p] <= RacingChunks

(* Whom a connection is for matters only where it is made; and to the      *)
(* handlers the databases are alike, so that some may have the first one.  *)
RunningInit ==
  /\ Init /\ W!Init
  /\ part \in {"server", "handlers", "hub"}
  /\ \A p \in Conns :
       \/ part = "server" /\ p \in Served
       \/ part = "handlers" /\ p \notin Served
       \/ target[p] = CHOOSE n \in Names : TRUE

RunningNext ==
  /\ \/ part = "server" /\ Next /\ UNCHANGED hubVars
     \/ part = "handlers" /\ HandlerNext /\ UNCHANGED <<lifeVars, hubVars>>
     \/ part = "hub" /\ W!Next /\ UNCHANGED vars
  /\ UNCHANGED part
  /\ ServedBound'

HandlerGoesOn(p) == part = "handlers" /\ Unaided(p) /\ UNCHANGED lifeVars

(* The fairness of each part, which asks nothing of one that rests.        *)
RunningSpec ==
  /\ RunningInit /\ [][RunningNext]_runningVars
  /\ Fairness /\ W!Fairness
  /\ \A p \in Conns : WF_vars(HandlerGoesOn(p))

-----------------------------------------------------------------------------
(* What the hub states of itself, by the names it has there. Of the        *)
(* handlers is asked what they state under the server too.                 *)

(* A lost or evicted client of the hub is released with both its pumps.    *)
PumpsReleased == W!PumpsReleased

(* Nobody who broadcasts to the hub or joins it stays blocked.             *)
NobodyStuck == W!NobodyStuck
=============================================================================
