-------------------------------- MODULE Server --------------------------------
(***************************************************************************)
(* ProxyServer (internal/server/server.go) with the protocol handlers its  *)
(* connections run: Start, the accept loop, ServeConn, the metrics server, *)
(* the stats broadcaster and Stop, as cmd/udbproxy and Run use them.       *)
(*                                                                         *)
(* One sync.WaitGroup counts the accept loop, the metrics server and one   *)
(* goroutine per connection. One context ends them.                        *)
(*                                                                         *)
(* External: the clients, net.Listener, net/http's Server.                 *)
(***************************************************************************)
EXTENDS ProtocolHandler, Integers

(* Names are here the protocols a client may speak, one database for each. *)
CONSTANTS
  Configured,       \* the protocols with a configured database
  MetricsEnabled    \* Metrics.Enabled of the configuration

ASSUME ServerAssumption ==
  /\ Configured \subseteq Names
  /\ MetricsEnabled \in BOOLEAN
  /\ IsFiniteSet(Conns)

VARIABLES
  main,         \* where main is: Start, WaitForInterrupt, Stop
  listener,     \* "none", "open" or "closed"
  serve,        \* the accept loop: "off", "accept", "spawn", "check" or "done"
  cpc,          \* per connection: where handleConnection and ServeConn are
  metrics,      \* where startMetricsServer is
  metricsSrv,   \* s.metricsServer: "nil", "set", or "down" after Shutdown
  stats,        \* the stats broadcaster: "off", "running" or "done"
  wg            \* the counter of the WaitGroup

lifeVars == <<main, listener, serve, cpc, metrics, metricsSrv, stats, wg>>
vars == <<handlerVars, lifeVars>>

Init ==
  /\ HandlerInit
  /\ main = "new"
  /\ listener = "none"
  /\ serve = "off"
  /\ cpc = [p \in Conns |-> "none"]
  /\ metrics = "off"
  /\ metricsSrv = "nil"
  /\ stats = "off"
  /\ wg = 0

-----------------------------------------------------------------------------
(* main: Start, WaitForInterrupt, Stop *)

Start ==
  /\ main = "new" /\ main' = "running"
  /\ listener' = "open"
  /\ serve' = "accept"
  /\ metrics' = IF MetricsEnabled THEN "starting" ELSE "off"
  /\ wg' = wg + (IF MetricsEnabled THEN 2 ELSE 1)
  /\ UNCHANGED <<handlerVars, cpc, metricsSrv, stats>>

StartFails ==
  /\ main = "new" /\ main' = "failed"
  /\ UNCHANGED <<handlerVars, listener, serve, cpc, metrics, metricsSrv, stats, wg>>

Interrupt ==
  /\ main = "running" /\ main' = "stopping"
  /\ UNCHANGED <<handlerVars, listener, serve, cpc, metrics, metricsSrv, stats, wg>>

CancelContext ==
  /\ Cancel
  /\ UNCHANGED <<listener, serve, cpc, metrics, metricsSrv, stats, wg>>

(* Closing the listener resets the connections nobody accepted. *)
CloseListener ==
  /\ listener' = "closed"
  /\ cpc' = [p \in Conns |-> IF cpc[p] = "backlog" THEN "reset" ELSE cpc[p]]
  /\ UNCHANGED <<handlerVars, serve, metrics, metricsSrv, stats, wg>>

StopCancel == main = "stopping" /\ main' = "closing" /\ CancelContext

StopClose == main = "closing" /\ main' = "checking" /\ CloseListener

StopCheckMetrics ==
  /\ main = "checking"
  /\ main' = IF metricsSrv = "nil" THEN "waiting" ELSE "shutdown"
  /\ UNCHANGED <<handlerVars, listener, serve, cpc, metrics, metricsSrv, stats, wg>>

(* Shutdown closes the listeners of the metrics server and returns when    *)
(* its requests are served or after five seconds.                          *)
StopShutdown ==
  /\ main = "shutdown" /\ main' = "waiting"
  /\ metricsSrv' = "down"
  /\ UNCHANGED <<handlerVars, listener, serve, cpc, metrics, stats, wg>>

StopWait ==
  /\ main = "waiting" /\ wg = 0 /\ main' = "stopped"
  /\ UNCHANGED <<handlerVars, listener, serve, cpc, metrics, metricsSrv, stats, wg>>

-----------------------------------------------------------------------------
(* serve: the accept loop *)

Accept(p) ==
  /\ serve = "accept" /\ serve' = "spawn"
  /\ listener = "open" /\ cpc[p] = "backlog"
  /\ cpc' = [cpc EXCEPT ![p] = "accepted"]
  /\ UNCHANGED <<handlerVars, main, listener, metrics, metricsSrv, stats, wg>>

(* Mutant: the goroutine is not counted. *)
Spawn_Uncounted(p) ==
  /\ serve = "spawn" /\ serve' = "accept"
  /\ cpc[p] = "accepted"
  /\ cpc' = [cpc EXCEPT ![p] = "detect"]
  /\ UNCHANGED <<handlerVars, main, listener, metrics, metricsSrv, stats, wg>>

Spawn(p) ==
  /\ serve = "spawn" /\ serve' = "accept"
  /\ cpc[p] = "accepted"
  /\ wg' = wg + 1
  /\ cpc' = [cpc EXCEPT ![p] = "detect"]
  /\ UNCHANGED <<handlerVars, main, listener, metrics, metricsSrv, stats>>

(* Accept fails: always once the listener is closed, and before that when  *)
(* the process runs out of file descriptors.                               *)
AcceptError ==
  /\ serve = "accept" /\ serve' = "check"
  /\ UNCHANGED <<handlerVars, main, listener, cpc, metrics, metricsSrv, stats, wg>>

AcceptAgain ==
  /\ serve = "check" /\ ~cancelled /\ serve' = "accept"
  /\ UNCHANGED <<handlerVars, main, listener, cpc, metrics, metricsSrv, stats, wg>>

ServeReturn ==
  /\ serve = "check" /\ cancelled /\ serve' = "done"
  /\ wg' = wg - 1
  /\ UNCHANGED <<handlerVars, main, listener, cpc, metrics, metricsSrv, stats>>

-----------------------------------------------------------------------------
(* handleConnection and ServeConn *)

ConnGoto(p, step) ==
  /\ cpc' = [cpc EXCEPT ![p] = step]
  /\ UNCHANGED <<main, listener, serve, metrics, metricsSrv, stats, wg>>

(* The first read, and detectProtocol on what it returned: "GET /", TLS    *)
(* and anything shorter than five bytes are answered with a status page.   *)
Detect(p) ==
  /\ cpc[p] = "detect"
  /\ ReadBefore(p)
  /\ \E content \in Contents :
       \/ content \in {"http", "tls", "blank"} /\ ConnGoto(p, "closing")
       \/ content \in {"blank", "data"} /\ ConnGoto(p, "route")

(* Mutant: ServeConn sets no deadline. *)
DetectTimeout_Never(p) == FALSE

DetectTimeout(p) ==
  /\ cpc[p] = "detect" /\ inbox[p] = 0
  /\ ConnGoto(p, "closing")
  /\ UNCHANGED handlerVars

(* The first configured database of the protocol's type, if there is one.  *)
Route(p) ==
  /\ cpc[p] = "route" /\ target[p] \in Configured
  /\ HandleConnection(p)
  /\ ConnGoto(p, "serving")

NoDatabase(p) ==
  /\ cpc[p] = "route" /\ target[p] \notin Configured
  /\ ConnGoto(p, "closing")
  /\ UNCHANGED handlerVars

HandlerStep(p) ==
  /\ cpc[p] = "serving" /\ Handle(p)
  /\ UNCHANGED lifeVars

HandlerReturned(p) ==
  /\ cpc[p] = "serving" /\ hpc[p] = "done"
  /\ ConnGoto(p, "closing")
  /\ UNCHANGED handlerVars

(* Mutant: ServeConn and handleConnection both defer a Done. *)
ConnDone_Twice(p) ==
  /\ cpc[p] = "closing"
  /\ cpc' = [cpc EXCEPT ![p] = "done"]
  /\ wg' = wg - 2
  /\ UNCHANGED <<handlerVars, main, listener, serve, metrics, metricsSrv, stats>>

ConnDone(p) ==
  /\ cpc[p] = "closing"
  /\ cpc' = [cpc EXCEPT ![p] = "done"]
  /\ wg' = wg - 1
  /\ UNCHANGED <<handlerVars, main, listener, serve, metrics, metricsSrv, stats>>

-----------------------------------------------------------------------------
(* startMetricsServer and broadcastStats *)

MetricsHub ==
  /\ metrics = "starting" /\ metrics' = "hub"
  /\ stats' = "running"
  /\ UNCHANGED <<handlerVars, main, listener, serve, cpc, metricsSrv, wg>>

MetricsSet ==
  /\ metrics = "hub" /\ metrics' = "binding"
  /\ metricsSrv' = "set"
  /\ UNCHANGED <<handlerVars, main, listener, serve, cpc, stats, wg>>

MetricsListen ==
  /\ metrics = "binding" /\ metricsSrv = "set" /\ metrics' = "serving"
  /\ UNCHANGED <<handlerVars, main, listener, serve, cpc, metricsSrv, stats, wg>>

(* ListenAndServe returns after a Shutdown, even one that came before it,  *)
(* and when it cannot bind its port.                                       *)
MetricsReturn ==
  /\ metrics = "binding" \/ (metrics = "serving" /\ metricsSrv = "down")
  /\ metrics' = "done"
  /\ wg' = wg - 1
  /\ UNCHANGED <<handlerVars, main, listener, serve, cpc, metricsSrv, stats>>

StatsReturn ==
  /\ stats = "running" /\ cancelled /\ stats' = "done"
  /\ UNCHANGED <<handlerVars, main, listener, serve, cpc, metrics, metricsSrv, wg>>

-----------------------------------------------------------------------------
(* The clients *)

Connect(p) ==
  /\ cpc[p] = "none" /\ listener = "open"
  /\ ConnGoto(p, "backlog")
  /\ UNCHANGED handlerVars

Send(p) ==
  /\ cpc[p] \notin {"none", "done", "reset"}
  /\ ClientSend(p)
  /\ UNCHANGED lifeVars

(* Mutant: the listener is closed before the context is cancelled. *)
Stop_CloseFirst ==
  \/ main = "stopping" /\ main' = "closing" /\ CloseListener
  \/ main = "closing" /\ main' = "checking" /\ CancelContext
  \/ StopCheckMetrics \/ StopShutdown \/ StopWait

Stop == StopCancel \/ StopClose \/ StopCheckMetrics \/ StopShutdown \/ StopWait

ServeLoop ==
  AcceptError \/ AcceptAgain \/ ServeReturn \/ \E p \in Conns : Spawn(p)

ServeConn(p) ==
  \/ Detect(p) \/ DetectTimeout(p) \/ Route(p) \/ NoDatabase(p)
  \/ HandlerReturned(p) \/ ConnDone(p)

MetricsServer == MetricsHub \/ MetricsSet \/ MetricsListen \/ MetricsReturn

Next ==
  \/ Start \/ StartFails \/ Interrupt \/ Stop
  \/ ServeLoop \/ MetricsServer \/ StatsReturn
  \/ \E p \in Conns :
       \/ Connect(p) \/ Send(p) \/ Accept(p) \/ ServeConn(p) \/ HandlerStep(p)

Spec == Init /\ [][Next]_vars

(* Every goroutine is scheduled. The interrupt, the clients and the end of *)
(* a Ping or a query that runs are not assumed; Accept need not succeed.   *)
Fairness ==
  /\ WF_vars(Stop) /\ WF_vars(ServeLoop)
  /\ WF_vars(MetricsServer) /\ WF_vars(StatsReturn)
  /\ \A p \in Conns :
       /\ WF_vars(ServeConn(p))
       /\ WF_vars(cpc[p] = "serving" /\ Unaided(p) /\ UNCHANGED lifeVars)

FairSpec == Spec /\ Fairness

-----------------------------------------------------------------------------
ConnSteps == {"none", "backlog", "accepted", "reset", "detect", "route",
              "serving", "closing", "done"}

(* The variables of the server range over what they are declared to hold;  *)
(* the WaitGroup panics when its counter becomes negative.                 *)
TypeOK ==
  /\ HandlerTypeOK
  /\ main \in {"new", "failed", "running", "stopping", "closing", "checking",
              "shutdown", "waiting", "stopped"}
  /\ listener \in {"none", "open", "closed"}
  /\ serve \in {"off", "accept", "spawn", "check", "done"}
  /\ cpc \in [Conns -> ConnSteps]
  /\ metrics \in {"off", "starting", "hub", "binding", "serving", "done"}
  /\ metricsSrv \in {"nil", "set", "down"}
  /\ stats \in {"off", "running", "done"}
  /\ wg \in Nat

LiveConns == {p \in Conns : cpc[p] \in {"detect", "route", "serving", "closing"}}

(* When Stop returns, the accept loop and the goroutine of the metrics     *)
(* server have ended, no accepted connection is without its goroutine, no  *)
(* goroutine of a connection is left and none of their queries runs on a   *)
(* database, although connections are accepted and counted while Stop      *)
(* already waits. Of what no WaitGroup counts it says nothing: Hub.Run,    *)
(* the pumps of WebSocket clients (Shutdown does not wait for a hijacked   *)
(* connection) and requests that outlast its five seconds outlive Stop.    *)
StoppedQuiet ==
  main = "stopped" =>
    /\ serve = "done"
    /\ metrics \in {"off", "done"}
    /\ \A p \in Conns : /\ cpc[p] \in {"none", "reset", "done"}
                        /\ hpc[p] \in {"idle", "done"}

(* The accept loop finds the context cancelled whenever Stop's Close has   *)
(* failed its Accept: it never retries a listener that is gone.            *)
NoSpin == listener = "closed" /\ serve = "check" => cancelled

(* No connection's Ping lasts for ever.                                    *)
PingsEnd == \A p \in Conns : PingEnds(p)

(* Once Stop has shut the metrics server down, or there is none, it        *)
(* returns, if no Ping lasts for ever: silent clients and queries that     *)
(* never end cannot hold it. A database that accepts a connection and      *)
(* answers no Ping can, for neither the context nor a deadline bounds it.  *)
(* The stats broadcaster, which no WaitGroup counts, ends too.             *)
StopReturns ==
  PingsEnd =>
    (main = "shutdown" \/ (main = "waiting" /\ metrics \in {"off", "done"})
       ~> main = "stopped" /\ stats # "running")

-----------------------------------------------------------------------------
(* END-to-END-FLOW.md:675: "The server will gracefully shutdown". A Stop   *)
(* that was called returns. It is asked where no client gets as far as a   *)
(* Ping, so that no database is to blame.                                  *)
GracefulShutdown == main = "stopping" ~> main = "stopped"

(* Database_proxy.md:872: "finish in-flight queries". A query that runs on  *)
(* the database is not aborted by the shutdown.                            *)
InFlightFinish ==
  [][\A p \in Conns : hpc[p] = "exec" => result'[p] # "cancelled"]_vars

(* END-to-END-FLOW.md:103: "The protocol handler detects the database type *)
(* by examining the initial handshake packets". When the handler waits for *)
(* the handshake, what the client has sent is still there to be read.      *)
HandshakeReachesHandler ==
  \A p \in Conns : hpc[p] = "handshake" => inbox[p] = sent[p]
=============================================================================
