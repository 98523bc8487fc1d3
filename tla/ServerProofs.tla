---------------------------- MODULE ServerProofs ----------------------------
(***************************************************************************)
(* Stop leaves nothing behind, for every number of connections: the        *)
(* WaitGroup counts exactly the accept loop, the metrics server and the    *)
(* connections' goroutines, so that Wait returns only when all are gone.   *)
(* The server runs the handlers, so what is proved of those holds in it.   *)
(***************************************************************************)
EXTENDS Server, ProtocolHandlerProofs, FiniteSetTheorems

One(b) == IF b THEN 1 ELSE 0

Loops == One(serve \in {"accept", "spawn", "check"})
         + One(metrics \in {"starting", "hub", "binding", "serving"})

(* The part of the type invariant the argument needs.                      *)
LifeType ==
  /\ serve \in {"off", "accept", "spawn", "check", "done"}
  /\ cpc \in [Conns -> ConnSteps]
  /\ metrics \in {"off", "starting", "hub", "binding", "serving", "done"}
  /\ wg \in Int
  /\ hpc \in [Conns -> Steps]

(* The counter of the WaitGroup is right. *)
WgExact == wg = Cardinality(LiveConns) + Loops

(* Where main is tells which of the other goroutines can exist. *)
Phases ==
  /\ main \in {"new", "failed"} => /\ serve = "off" /\ metrics = "off"
                                   /\ listener = "none"
  /\ main \notin {"new", "failed"} => serve # "off"
  /\ main \in {"checking", "shutdown", "waiting", "stopped"} <=> listener = "closed"
  /\ main \in {"closing", "checking", "shutdown", "waiting", "stopped"} => cancelled
  /\ main = "stopped" => wg = 0

(* A connection without a goroutine is with the accept loop or still in    *)
(* the backlog of an open listener, and only ServeConn runs a handler.     *)
Places ==
  \A p \in Conns :
    /\ cpc[p] = "accepted" =>
         serve = "spawn" /\ \A q \in Conns \ {p} : cpc[q] # "accepted"
    /\ cpc[p] = "backlog" => listener # "closed"
    /\ hpc[p] \notin {"idle", "done"} => cpc[p] = "serving"

ServerInv == LifeType /\ WgExact /\ Phases /\ Places

USE DEF handlerVars, lifeVars, vars

-----------------------------------------------------------------------------
(* The connections that have a goroutine, and their number. *)

LEMMA LiveFinite ==
  /\ IsFiniteSet(LiveConns)
  /\ Cardinality(LiveConns) \in Nat
<1>1. LiveConns \subseteq Conns
  BY DEF LiveConns
<1>2. IsFiniteSet(LiveConns)
  BY <1>1, FS_Subset, ServerAssumption
<1>3. QED  BY <1>2, FS_CardinalityType

LEMMA LiveEnters ==
  ASSUME LifeType, NEW p \in Conns, cpc[p] \in {"none", "backlog", "accepted"},
         cpc' = [cpc EXCEPT ![p] = "detect"]
  PROVE  Cardinality(LiveConns)' = Cardinality(LiveConns) + 1
<1>1. LiveConns' = LiveConns \cup {p} /\ p \notin LiveConns
  BY DEF LiveConns, LifeType
<1>2. QED  BY <1>1, LiveFinite, FS_AddElement

LEMMA LiveLeaves ==
  ASSUME LifeType, NEW p \in Conns, cpc[p] = "closing",
         cpc' = [cpc EXCEPT ![p] = "done"]
  PROVE  Cardinality(LiveConns)' = Cardinality(LiveConns) - 1
<1>1. LiveConns' = LiveConns \ {p} /\ p \in LiveConns
  BY DEF LiveConns, LifeType
<1>2. QED  BY <1>1, LiveFinite, FS_RemoveElement

Live == {"detect", "route", "serving", "closing"}

LEMMA LiveStays ==
  ASSUME LifeType, NEW p \in Conns, NEW step \in ConnSteps,
         cpc[p] \in Live <=> step \in Live, cpc' = [cpc EXCEPT ![p] = step]
  PROVE  LiveConns' = LiveConns
BY DEF LiveConns, LifeType, Live

(* A step of ServeConn that moves its connection on without ending it.     *)
LEMMA ConnMoves ==
  ASSUME ServerInv, NEW p \in Conns, NEW step \in ConnSteps \ {"accepted"},
         cpc[p] \in Live <=> step \in Live, ConnGoto(p, step),
         step = "backlog" => listener # "closed",
         hpc' \in [Conns -> Steps], cancelled' = cancelled,
         \A q \in Conns : hpc'[q] = hpc[q] \/ (q = p /\ step = "serving"),
         hpc[p] \notin {"idle", "done"} => step = "serving"
  PROVE  ServerInv'
<1>1. cpc' = [cpc EXCEPT ![p] = step] /\ LiveConns' = LiveConns
  BY LiveStays DEF ServerInv, ConnGoto
<1>2. LifeType'
  BY <1>1 DEF ServerInv, LifeType, ConnGoto
<1>3. WgExact'
  BY <1>1 DEF ServerInv, WgExact, Loops, ConnGoto
<1>4. Phases'
  BY DEF ServerInv, Phases, ConnGoto
<1>5. Places'
  BY <1>1 DEF ServerInv, LifeType, Places, ConnGoto
<1>6. QED  BY <1>2, <1>3, <1>4, <1>5 DEF ServerInv

(* The steps of a handler, and what of it they show to the server.         *)
LEMMA HandleShows ==
  ASSUME hpc \in [Conns -> Steps], NEW p \in Conns, Handle(p)
  PROVE  /\ hpc' \in [Conns -> Steps]
         /\ \A q \in Conns \ {p} : hpc'[q] = hpc[q]
         /\ cancelled' = cancelled
<1>1. /\ cancelled' = cancelled
      /\ \E step \in Steps : hpc' = [hpc EXCEPT ![p] = step]
  <2>1. CASE ReadHandshake(p) \/ ReadTimeout(p)
    BY <2>1 DEF ReadHandshake, ReadTimeout, Goto, Return, Steps
  <2>2. CASE GetConnectionPool(p)
    BY <2>2 DEF GetConnectionPool, Lookup, Open, OpenError, Ping,
       PingError, Store, Goto, Return, Steps
  <2>3. CASE ProxyQuery(p)
    BY <2>3 DEF ProxyQuery, ReadQuery, Acquire, AcquireError, Exec,
       ExecCancelled, Goto, Return, Steps
  <2>4. QED  BY <2>1, <2>2, <2>3 DEF Handle
<1>2. QED  BY <1>1

-----------------------------------------------------------------------------
LEMMA ServerInit == Init => ServerInv
<1> SUFFICES ASSUME Init PROVE ServerInv
  OBVIOUS
<1>1. LiveConns = {} /\ Cardinality(LiveConns) = 0
  BY FS_EmptySet DEF Init, LiveConns
<1>2. LifeType
  BY DEF Init, HandlerInit, LifeType, Steps, ConnSteps
<1>3. WgExact
  BY <1>1 DEF Init, WgExact, Loops, One
<1>4. Phases /\ Places
  BY DEF Init, HandlerInit, Phases, Places
<1>5. QED  BY <1>2, <1>3, <1>4 DEF ServerInv

(* Start and the interrupt, and Stop up to its Wait.                       *)
LEMMA MainStep ==
  ASSUME ServerInv, Start \/ StartFails \/ Interrupt
  PROVE  ServerInv'
<1>1. LiveConns' = LiveConns
  BY DEF LiveConns, Start, StartFails, Interrupt
<1>2. LifeType'
  BY DEF ServerInv, LifeType, Start, StartFails, Interrupt
<1>3. WgExact'
  <2>1. Cardinality(LiveConns) \in Nat
    BY LiveFinite
  <2>2. CASE Start
    <3>1. serve = "off" /\ metrics = "off"
      BY <2>2 DEF ServerInv, Phases, Start
    <3>2. wg = Cardinality(LiveConns)
      BY <2>1, <3>1 DEF ServerInv, WgExact, Loops, One
    <3>3. Loops' = IF MetricsEnabled THEN 2 ELSE 1
      BY <2>2 DEF Start, Loops, One
    <3>4. QED  BY <1>1, <2>1, <2>2, <3>2, <3>3 DEF Start, WgExact
  <2>3. CASE StartFails \/ Interrupt
    BY <1>1, <2>3 DEF ServerInv, WgExact, Loops, StartFails, Interrupt
  <2>4. QED  BY <2>2, <2>3
<1>4. Phases'
  BY DEF ServerInv, Phases, Start, StartFails, Interrupt
<1>5. Places'
  BY DEF ServerInv, Phases, Places, Start, StartFails, Interrupt
<1>6. QED  BY <1>2, <1>3, <1>4, <1>5 DEF ServerInv

LEMMA StopStep ==
  ASSUME ServerInv, Stop
  PROVE  ServerInv'
<1> USE DEF Stop, StopCancel, StopClose, StopCheckMetrics, StopShutdown, StopWait,
        CancelContext, CloseListener
<1>1. UNCHANGED <<serve, metrics, wg, hpc>>
  BY DEF Cancel, handlingVars, clientVars, poolVars
<1>2. cpc' \in [Conns -> ConnSteps] /\ LiveConns' = LiveConns
  BY DEF ServerInv, LifeType, ConnSteps, LiveConns
<1>3. LifeType'
  BY <1>1, <1>2 DEF ServerInv, LifeType
<1>4. WgExact'
  BY <1>1, <1>2 DEF ServerInv, WgExact, Loops
<1>5. Phases'
  BY <1>1 DEF ServerInv, Phases, Cancel
<1>6. Places'
  BY <1>1 DEF ServerInv, LifeType, Places
<1>7. QED  BY <1>3, <1>4, <1>5, <1>6 DEF ServerInv

LEMMA AcceptLoopStep ==
  ASSUME ServerInv, ServeLoop \/ \E p \in Conns : Accept(p)
  PROVE  ServerInv'
<1>1. CASE AcceptError \/ AcceptAgain
  <2>1. LiveConns' = LiveConns
    BY <1>1 DEF LiveConns, AcceptError, AcceptAgain
  <2>2. QED
    BY <1>1, <2>1 DEF ServerInv, LifeType, WgExact, Loops, One, Phases, Places,
       AcceptError, AcceptAgain
<1>2. CASE ServeReturn
  <2>1. LiveConns' = LiveConns /\ Cardinality(LiveConns) \in Nat
    BY <1>2, LiveFinite DEF LiveConns, ServeReturn
  <2>2. WgExact' /\ wg > 0
    BY <1>2, <2>1 DEF ServerInv, WgExact, LifeType, Loops, One, ServeReturn
  <2>3. QED
    BY <1>2, <2>2 DEF ServerInv, LifeType, Phases, Places, ServeReturn
<1>3. ASSUME NEW p \in Conns, Accept(p) PROVE ServerInv'
  <2>1. LiveConns' = LiveConns
    BY <1>3, LiveStays DEF ServerInv, LifeType, Live, ConnSteps, Accept
  <2>2. LifeType' /\ WgExact'
    BY <1>3, <2>1 DEF ServerInv, LifeType, ConnSteps, WgExact, Loops, One, Accept
  <2>3. Phases' /\ Places'
    BY <1>3 DEF ServerInv, LifeType, Phases, Places, Accept
  <2>4. QED  BY <2>2, <2>3 DEF ServerInv
<1>4. ASSUME NEW p \in Conns, Spawn(p) PROVE ServerInv'
  <2>1. Cardinality(LiveConns)' = Cardinality(LiveConns) + 1
    BY <1>4, LiveEnters DEF ServerInv, Spawn
  <2>2. Cardinality(LiveConns) \in Nat
    BY LiveFinite
  <2>3. WgExact' /\ wg > 0
    BY <1>4, <2>1, <2>2 DEF ServerInv, WgExact, LifeType, Loops, One, Spawn
  <2>4. LifeType' /\ Phases'
    BY <1>4, <2>3 DEF ServerInv, LifeType, ConnSteps, Phases, Spawn
  <2>5. Places'
    BY <1>4 DEF ServerInv, LifeType, Places, Spawn
  <2>6. QED  BY <2>3, <2>4, <2>5 DEF ServerInv
<1>5. QED  BY <1>1, <1>2, <1>3, <1>4 DEF ServeLoop

LEMMA ConnStep ==
  ASSUME ServerInv, NEW p \in Conns,
         ServeConn(p) \/ HandlerStep(p) \/ Connect(p) \/ Send(p)
  PROVE  ServerInv'
<1>1. CASE Detect(p)
  <2>1. ReadBefore(p) /\ \E step \in {"route", "closing"} : ConnGoto(p, step)
    BY <1>1 DEF Detect
  <2>2. hpc' = hpc /\ cancelled' = cancelled /\ hpc[p] = "idle"
    BY <2>1 DEF ReadBefore, handlingVars, clientVars, poolVars
  <2>3. QED
    BY <1>1, <2>1, <2>2, ConnMoves DEF ServerInv, LifeType, Detect, Live, ConnSteps
<1>2. CASE DetectTimeout(p) \/ NoDatabase(p)
  BY <1>2, ConnMoves
  DEF DetectTimeout, NoDatabase, ServerInv, LifeType, Places, Live, ConnSteps
<1>3. CASE Route(p)
  <2>1. hpc' = [hpc EXCEPT ![p] = "handshake"] /\ cancelled' = cancelled
    BY <1>3 DEF Route, HandleConnection, Goto
  <2>2. QED
    BY <1>3, <2>1, ConnMoves DEF Route, ServerInv, LifeType, Live, ConnSteps, Steps
<1>4. CASE HandlerReturned(p)
  BY <1>4, ConnMoves
  DEF HandlerReturned, ServerInv, LifeType, Live, ConnSteps
<1>5. CASE ConnDone(p)
  <2>1. Cardinality(LiveConns)' = Cardinality(LiveConns) - 1
    BY <1>5, LiveLeaves DEF ServerInv, ConnDone
  <2>2. Cardinality(LiveConns) \in Nat /\ Cardinality(LiveConns)' \in Nat
    <3>1. IsFiniteSet(LiveConns \ {p}) /\ p \in LiveConns
      BY <1>5, LiveFinite, FS_RemoveElement DEF LiveConns, ConnDone
    <3>2. Cardinality(LiveConns) # 0
      BY <3>1, LiveFinite, FS_EmptySet
    <3>3. QED  BY <2>1, <3>2, LiveFinite
  <2>3. WgExact' /\ wg > 0
    BY <1>5, <2>1, <2>2 DEF ServerInv, WgExact, LifeType, Loops, One, ConnDone
  <2>4. LifeType' /\ Phases'
    BY <1>5, <2>3 DEF ServerInv, LifeType, ConnSteps, Phases, ConnDone
  <2>5. Places'
    BY <1>5 DEF ServerInv, LifeType, Places, ConnDone
  <2>6. QED  BY <2>3, <2>4, <2>5 DEF ServerInv
<1>6. CASE HandlerStep(p)
  <2>1. LiveConns' = LiveConns
    BY <1>6 DEF HandlerStep, LiveConns
  <2>2. /\ hpc' \in [Conns -> Steps] /\ cancelled' = cancelled
        /\ \A q \in Conns \ {p} : hpc'[q] = hpc[q]
    BY <1>6, HandleShows DEF HandlerStep, ServerInv, LifeType
  <2>3. QED
    BY <1>6, <2>1, <2>2 DEF HandlerStep, ServerInv, LifeType, WgExact, Loops,
       Phases, Places
<1>7. CASE Connect(p)
  <2>1. listener # "closed"
    BY <1>7 DEF Connect
  <2>2. QED
    BY <1>7, <2>1, ConnMoves DEF Connect, ServerInv, LifeType, Places, Live, ConnSteps
<1>8. CASE Send(p)
  <2>1. hpc' = hpc /\ cancelled' = cancelled /\ LiveConns' = LiveConns
    BY <1>8 DEF Send, ClientSend, handlingVars, clientVars, poolVars, LiveConns
  <2>2. QED
    BY <1>8, <2>1 DEF Send, ServerInv, LifeType, WgExact, Loops, Phases, Places
<1>9. QED
  BY <1>1, <1>2, <1>3, <1>4, <1>5, <1>6, <1>7, <1>8 DEF ServeConn

LEMMA MetricsStep ==
  ASSUME ServerInv, MetricsServer \/ StatsReturn
  PROVE  ServerInv'
<1> USE DEF MetricsServer, MetricsHub, MetricsSet, MetricsListen, MetricsReturn,
        StatsReturn
<1>1. LiveConns' = LiveConns /\ Cardinality(LiveConns) \in Nat
  BY LiveFinite DEF LiveConns
<1>2. WgExact'
  BY <1>1 DEF ServerInv, LifeType, WgExact, Loops, One
<1>3. MetricsReturn => wg > 0
  BY <1>1 DEF ServerInv, LifeType, WgExact, Loops, One
<1>4. LifeType' /\ Phases' /\ Places'
  BY <1>3 DEF ServerInv, LifeType, Phases, Places
<1>5. QED  BY <1>2, <1>4 DEF ServerInv

(* The invariant the argument rests on: the counter is exact, and the      *)
(* phases of Stop and the places of connections agree (server.go:160-304). *)
THEOREM ServerInductive == Spec => []ServerInv
<1>1. ServerInv /\ [Next]_vars => ServerInv'
  <2> SUFFICES ASSUME ServerInv, [Next]_vars PROVE ServerInv'
    OBVIOUS
  <2>1. CASE Next
    BY <2>1, MainStep, StopStep, AcceptLoopStep, ConnStep, MetricsStep DEF Next
  <2>2. CASE UNCHANGED vars
    BY <2>2 DEF ServerInv, LifeType, WgExact, LiveConns, Loops, Phases, Places
  <2>3. QED  BY <2>1, <2>2
<1>2. QED  BY <1>1, ServerInit, PTL DEF Spec

(* When Stop returns, the accept loop, the metrics server, every           *)
(* connection's goroutine and every query have ended (server.go:298).      *)
THEOREM StopLeavesNothing == Spec => []StoppedQuiet
<1>1. ServerInv => StoppedQuiet
  <2> SUFFICES ASSUME ServerInv, main = "stopped" PROVE StoppedQuiet
    BY DEF StoppedQuiet
  <2>1. Cardinality(LiveConns) = 0 /\ serve \in {"off", "done"}
        /\ metrics \in {"off", "done"}
    BY LiveFinite DEF ServerInv, LifeType, WgExact, Loops, One, Phases
  <2>2. LiveConns = {}
    BY <2>1, LiveFinite, FS_EmptySet
  <2>3. \A p \in Conns : cpc[p] \notin {"detect", "route", "serving", "closing"}
    BY <2>2 DEF LiveConns
  <2>4. \A p \in Conns : cpc[p] \notin {"accepted", "backlog"}
    BY <2>1 DEF ServerInv, Phases, Places
  <2>5. \A p \in Conns : cpc[p] \in {"none", "reset", "done"}
    BY <2>3, <2>4 DEF ServerInv, LifeType, ConnSteps
  <2>6. QED  BY <2>1, <2>3, <2>5 DEF ServerInv, Phases, Places, StoppedQuiet
<1>2. QED  BY <1>1, ServerInductive, PTL

(* The accept loop never retries a listener that Stop has closed: the      *)
(* context is cancelled first (server.go:286-290).                         *)
THEOREM AcceptNeverSpins == Spec => []NoSpin
<1>1. ServerInv => NoSpin
  BY DEF ServerInv, Phases, NoSpin
<1>2. QED  BY <1>1, ServerInductive, PTL

-----------------------------------------------------------------------------
(* The handlers as ServeConn runs them. Whatever the server does, they see *)
(* as a connection that arrives, chunks of its client, a cancelled context *)
(* or nothing at all: what is proved of ProtocolHandler holds here.        *)
THEOREM RunsHandlers == Spec => HandlerSpec
<1>1. Init => HandlerInit
  BY DEF Init
<1>2. [Next]_vars => [HandlerNext]_handlerVars
  <2> USE DEF clientVars, handlingVars, poolVars
  <2> SUFFICES ASSUME [Next]_vars PROVE HandlerNext \/ UNCHANGED handlerVars
    OBVIOUS
  <2>1. CASE Start \/ StartFails \/ Interrupt \/ StatsReturn \/ UNCHANGED vars
    BY <2>1 DEF Start, StartFails, Interrupt, StatsReturn
  <2>2. CASE Stop
    BY <2>2 DEF Stop, StopCancel, StopClose, StopCheckMetrics, StopShutdown,
       StopWait, CancelContext, CloseListener, HandlerNext
  <2>3. CASE MetricsServer
    BY <2>3 DEF MetricsServer, MetricsHub, MetricsSet, MetricsListen, MetricsReturn
  <2>4. CASE ServeLoop \/ \E p \in Conns : Accept(p)
    BY <2>4 DEF ServeLoop, AcceptError, AcceptAgain, ServeReturn, Spawn, Accept
  <2>5. ASSUME NEW p \in Conns, ServeConn(p)
        PROVE  HandlerNext \/ UNCHANGED handlerVars
    BY <2>5 DEF ServeConn, Detect, DetectTimeout, Route, NoDatabase,
       HandlerReturned, ConnDone, HandlerNext
  <2>6. ASSUME NEW p \in Conns, HandlerStep(p) \/ Connect(p) \/ Send(p)
        PROVE  HandlerNext \/ UNCHANGED handlerVars
    BY <2>6 DEF HandlerStep, Connect, Send, ConnGoto, HandlerNext
  <2>7. QED  BY <2>1, <2>2, <2>3, <2>4, <2>5, <2>6 DEF Next
<1>3. QED  BY <1>1, <1>2, PTL DEF Spec, HandlerSpec

-----------------------------------------------------------------------------
(* The handlers' invariant holds in the server. *)
LEMMA HandlersInductive == Spec => []HandlerInv
BY HandlersStart, HandlersStep, RunsHandlers, PTL DEF HandlerSpec

(* Whatever the accept loop, the shutdown and the other connections do,    *)
(* the handlers' map holds open handles, each under its own database, and  *)
(* a query runs over one of its own database (server.go:358-426,           *)
(* mysql_handler.go:65-130).                                               *)
THEOREM ServerServesSound == Spec => [](MapSound /\ ServedSound)
BY HandlersInductive, PTL DEF HandlerInv

-----------------------------------------------------------------------------
(* The rest of the server's variables. *)
SetupType ==
  /\ main \in {"new", "failed", "running", "stopping", "closing", "checking",
              "shutdown", "waiting", "stopped"}
  /\ listener \in {"none", "open", "closed"}
  /\ metricsSrv \in {"nil", "set", "down"}
  /\ stats \in {"off", "running", "done"}

LEMMA SetupNext == SetupType /\ [Next]_vars => SetupType'
<1> SUFFICES ASSUME SetupType, [Next]_vars PROVE SetupType'
  OBVIOUS
<1> USE DEF SetupType
<1>1. CASE Start \/ StartFails \/ Interrupt \/ StatsReturn \/ UNCHANGED vars
  BY <1>1 DEF Start, StartFails, Interrupt, StatsReturn
<1>2. CASE Stop
  BY <1>2 DEF Stop, StopCancel, StopClose, StopCheckMetrics, StopShutdown, StopWait,
     CancelContext, CloseListener
<1>3. CASE MetricsServer
  BY <1>3 DEF MetricsServer, MetricsHub, MetricsSet, MetricsListen, MetricsReturn
<1>4. CASE ServeLoop \/ \E p \in Conns : Accept(p)
  BY <1>4 DEF ServeLoop, AcceptError, AcceptAgain, ServeReturn, Spawn, Accept
<1>5. ASSUME NEW p \in Conns,
             Connect(p) \/ Send(p) \/ ServeConn(p) \/ HandlerStep(p)
      PROVE  SetupType'
  BY <1>5 DEF Connect, Send, ServeConn, HandlerStep, Detect, DetectTimeout, Route,
     NoDatabase, HandlerReturned, ConnDone, ConnGoto
<1> QED
  BY <1>1, <1>2, <1>3, <1>4, <1>5 DEF Next

(* The server's variables and the handlers' keep their types; the counter  *)
(* of the WaitGroup is never negative, which would panic (server.go:171,   *)
(* 183, 203).                                                              *)
THEOREM ServerTypeCorrect == Spec => []TypeOK
<1>1. Init => SetupType
  BY DEF Init, SetupType
<1>2. ServerInv => wg \in Nat
  BY LiveFinite DEF ServerInv, WgExact, Loops, One
<1>3. ServerInv /\ SetupType /\ HandlerTypeOK /\ wg \in Nat => TypeOK
  BY DEF ServerInv, LifeType, SetupType, TypeOK
<1> QED
  BY <1>1, <1>2, <1>3, SetupNext, ServerInductive, HandlersInductive, PTL
  DEF Spec, HandlerInv
=============================================================================
