--------------------------- MODULE ProtocolHandler ---------------------------
(***************************************************************************)
(* MySQLHandler and PostgresHandler (internal/protocols): one goroutine    *)
(* per client connection runs HandleConnection, which reads a handshake,   *)
(* takes the *sql.DB of the target database from the handler's map or      *)
(* opens one (getConnectionPool), and proxies one query.                   *)
(*                                                                         *)
(* The two handlers run the same code over maps of their own; here they    *)
(* are one map over the names of the databases.                            *)
(*                                                                         *)
(* External: the client, whose chunks of bytes arrive, and database/sql.   *)
(* A *sql.DB is a handle, numbered in the order of sql.Open; it lends at   *)
(* most MaxConnections backend connections at a time.                      *)
(***************************************************************************)
EXTENDS Naturals, Sequences, FiniteSets

CONSTANTS
  Conns,            \* client connections, each handled once
  Names,            \* names of the configured databases
  MaxConnections,   \* what SetMaxOpenConns allows one handle
  MaxChunks         \* bound of the model: chunks a client sends

ASSUME HandlerAssumption ==
  /\ MaxConnections \in Nat \ {0}
  /\ MaxChunks \in Nat

(* What the bytes of a read are to the code: they begin "GET /", they are  *)
(* TLS or fewer than five, they are white space, or anything else.         *)
Contents == {"http", "tls", "blank", "data"}

VARIABLES
  inbox,      \* per connection: how many chunks have arrived unread
  sent,       \* per connection: how many chunks the client has sent
  hpc,        \* per connection: where HandleConnection is
  target,     \* per connection: the database it is for
  mine,       \* per connection: the handle it holds, 0 for none
  result,     \* per connection: how its handling ended
  pools,      \* the handler's map: the handle of each database, 0 for none
  owner,      \* the database each opened handle connects to
  failed,     \* the handles closed because their Ping failed
  closed,     \* the handles closed by Close
  cancelled   \* the server's context has been cancelled

clientVars  == <<inbox, sent>>
poolVars    == <<pools, owner, failed, closed>>
handlingVars == <<hpc, target, mine, result, poolVars>>
handlerVars ==
  <<inbox, sent, hpc, target, mine, result, pools, owner, failed, closed, cancelled>>

Handles == 1..Len(owner)

Results == {"none", "http", "ok", "rows", "timeout", "error", "cancelled"}

HandlerInit ==
  /\ inbox = [p \in Conns |-> 0]
  /\ sent = [p \in Conns |-> 0]
  /\ hpc = [p \in Conns |-> "idle"]
  /\ target \in [Conns -> Names]
  /\ mine = [p \in Conns |-> 0]
  /\ result = [p \in Conns |-> "none"]
  /\ pools = [n \in Names |-> 0]
  /\ owner = <<>>
  /\ failed = {}
  /\ closed = {}
  /\ cancelled = FALSE

-----------------------------------------------------------------------------
(* The client *)

ClientSend(p) ==
  /\ sent[p] < MaxChunks
  /\ sent' = [sent EXCEPT ![p] = @ + 1]
  /\ inbox' = [inbox EXCEPT ![p] = @ + 1]
  /\ UNCHANGED <<handlingVars, cancelled>>

(* A read returns what has arrived, whole chunks, at least one. What they  *)
(* contain is chosen when they are read, for nothing depends on it before. *)
Read(p) ==
  /\ inbox[p] > 0
  /\ \E n \in 1..inbox[p] : inbox' = [inbox EXCEPT ![p] = @ - n]
  /\ UNCHANGED sent

(* Whoever accepted the connection has read from it before.                *)
ReadBefore(p) ==
  /\ hpc[p] = "idle" /\ Read(p)
  /\ UNCHANGED <<handlingVars, cancelled>>

Goto(p, step) == hpc' = [hpc EXCEPT ![p] = step]

Return(p, how) ==
  /\ hpc' = [hpc EXCEPT ![p] = "done"]
  /\ result' = [result EXCEPT ![p] = how]

-----------------------------------------------------------------------------
(* HandleConnection: the handshake *)

HandleConnection(p) ==
  /\ hpc[p] = "idle"
  /\ Goto(p, "handshake")
  /\ UNCHANGED <<clientVars, target, mine, result, poolVars, cancelled>>

ReadHandshake(p) ==
  /\ hpc[p] = "handshake"
  /\ Read(p)
  /\ \E content \in Contents :
       IF content = "http" THEN Return(p, "http")
                           ELSE Goto(p, "lookup") /\ UNCHANGED result
  /\ UNCHANGED <<target, mine, poolVars, cancelled>>

(* Mutant: no deadline is set. *)
ReadTimeout_Never(p) == FALSE

(* The deadline passes, or the client hangs up, with nothing to read. *)
ReadTimeout(p) ==
  /\ hpc[p] \in {"handshake", "query"} /\ inbox[p] = 0
  /\ Return(p, "timeout")
  /\ UNCHANGED <<clientVars, target, mine, poolVars, cancelled>>

-----------------------------------------------------------------------------
(* getConnectionPool *)

Lookup(p) ==
  /\ hpc[p] = "lookup"
  /\ mine' = [mine EXCEPT ![p] = pools[target[p]]]
  /\ Goto(p, IF pools[target[p]] = 0 THEN "open" ELSE "query")
  /\ UNCHANGED <<clientVars, target, result, poolVars, cancelled>>

Open(p) ==
  /\ hpc[p] = "open"
  /\ owner' = Append(owner, target[p])
  /\ mine' = [mine EXCEPT ![p] = Len(owner) + 1]
  /\ Goto(p, "ping")
  /\ UNCHANGED <<clientVars, target, result, pools, failed, closed, cancelled>>

(* Mutant: the error of sql.Open is not looked at. *)
OpenError_Ignored(p) ==
  /\ hpc[p] = "open"
  /\ Goto(p, "ping")
  /\ UNCHANGED <<clientVars, target, mine, result, poolVars, cancelled>>

OpenError(p) ==
  /\ hpc[p] = "open"
  /\ Return(p, "error")
  /\ UNCHANGED <<clientVars, target, mine, poolVars, cancelled>>

Ping(p) ==
  /\ hpc[p] = "ping"
  /\ Goto(p, "store")
  /\ UNCHANGED <<clientVars, target, mine, result, poolVars, cancelled>>

(* Mutant: the handle is closed but the function does not return. *)
PingError_FallsThrough(p) ==
  /\ hpc[p] = "ping"
  /\ failed' = failed \cup {mine[p]}
  /\ Goto(p, "store")
  /\ UNCHANGED <<clientVars, target, mine, result, pools, owner, closed,
                 cancelled>>

PingError(p) ==
  /\ hpc[p] = "ping"
  /\ failed' = failed \cup {mine[p]}
  /\ Return(p, "error")
  /\ UNCHANGED <<clientVars, target, mine, pools, owner, closed, cancelled>>

Store(p) ==
  /\ hpc[p] = "store"
  /\ pools' = [pools EXCEPT ![target[p]] = mine[p]]
  /\ Goto(p, "query")
  /\ UNCHANGED <<clientVars, target, mine, result, owner, failed, closed,
                 cancelled>>

-----------------------------------------------------------------------------
(* proxyQuery *)

ReadQuery(p) ==
  /\ hpc[p] = "query"
  /\ Read(p)
  /\ \E content \in Contents :
       IF content = "blank" THEN Return(p, "ok")
                            ELSE Goto(p, "acquire") /\ UNCHANGED result
  /\ UNCHANGED <<target, mine, poolVars, cancelled>>

Lent(h) == {q \in Conns : hpc[q] = "exec" /\ mine[q] = h}

(* QueryContext waits for one of the handle's connections... *)
Acquire(p) ==
  /\ hpc[p] = "acquire" /\ mine[p] \notin closed /\ ~cancelled
  /\ Cardinality(Lent(mine[p])) < MaxConnections
  /\ Goto(p, "exec")
  /\ UNCHANGED <<clientVars, target, mine, result, poolVars, cancelled>>

(* ... and gives up when the context is cancelled or the handle closed.    *)
AcquireError(p) ==
  /\ hpc[p] = "acquire" /\ (mine[p] \in closed \/ cancelled)
  /\ Return(p, IF cancelled THEN "cancelled" ELSE "error")
  /\ UNCHANGED <<clientVars, target, mine, poolVars, cancelled>>

(* The query runs to its end, or the database reports an error. *)
Exec(p) ==
  /\ hpc[p] = "exec"
  /\ \E how \in {"rows", "error"} : Return(p, how)
  /\ UNCHANGED <<clientVars, target, mine, poolVars, cancelled>>

(* The cancelled context ends the query. *)
ExecCancelled(p) ==
  /\ hpc[p] = "exec" /\ cancelled
  /\ Return(p, "cancelled")
  /\ UNCHANGED <<clientVars, target, mine, poolVars, cancelled>>

-----------------------------------------------------------------------------
(* Mutant: the closed handles stay in the map. *)
Close_KeepMap ==
  /\ closed' = closed \cup {pools[n] : n \in {m \in Names : pools[m] # 0}}
  /\ UNCHANGED <<clientVars, hpc, target, mine, result, pools, owner, failed,
                 cancelled>>

Close ==
  /\ closed' = closed \cup {pools[n] : n \in {m \in Names : pools[m] # 0}}
  /\ pools' = [n \in Names |-> 0]
  /\ UNCHANGED <<clientVars, hpc, target, mine, result, owner, failed, cancelled>>

Cancel ==
  /\ ~cancelled /\ cancelled' = TRUE
  /\ UNCHANGED <<clientVars, handlingVars>>

GetConnectionPool(p) ==
  Lookup(p) \/ Open(p) \/ OpenError(p) \/ Ping(p) \/ PingError(p) \/ Store(p)

ProxyQuery(p) ==
  ReadQuery(p) \/ Acquire(p) \/ AcquireError(p) \/ Exec(p) \/ ExecCancelled(p)

(* What the goroutine of a connection does inside HandleConnection. *)
Handle(p) ==
  ReadHandshake(p) \/ ReadTimeout(p) \/ GetConnectionPool(p) \/ ProxyQuery(p)

HandlerNext ==
  \/ \E p \in Conns :
       ClientSend(p) \/ ReadBefore(p) \/ HandleConnection(p) \/ Handle(p)
  \/ Close
  \/ Cancel

HandlerSpec == HandlerInit /\ [][HandlerNext]_handlerVars

(* What a goroutine does without waiting for a database: reads from the    *)
(* client have deadlines, and a cancelled context ends a query and the     *)
(* wait for one. Ping is not among it: it is called without a context, and *)
(* the timeouts of the connection strings bound the dialling alone, so a   *)
(* database that accepts and does not answer holds it for ever.            *)
Unaided(p) ==
  \/ ReadHandshake(p) \/ ReadTimeout(p)
  \/ Lookup(p) \/ Open(p) \/ OpenError(p) \/ Store(p)
  \/ ReadQuery(p) \/ AcquireError(p) \/ ExecCancelled(p)

(* Goroutines are scheduled. Nothing in the code bounds a Ping or a query  *)
(* that runs, so neither Ping, PingError nor Exec is assumed to happen.    *)
HandlerFairSpec == HandlerSpec /\ \A p \in Conns : WF_handlerVars(Unaided(p))

-----------------------------------------------------------------------------
Steps == {"idle", "handshake", "lookup", "open", "ping", "store", "query",
          "acquire", "exec", "done"}

(* The variables range over what their declarations say.                   *)
HandlerTypeOK ==
  /\ inbox \in [Conns -> Nat]
  /\ sent \in [Conns -> Nat]
  /\ hpc \in [Conns -> Steps]
  /\ target \in [Conns -> Names]
  /\ owner \in Seq(Names)
  /\ mine \in [Conns -> {0} \cup Handles]
  /\ result \in [Conns -> Results]
  /\ pools \in [Names -> {0} \cup Handles]
  /\ failed \subseteq Handles
  /\ closed \subseteq Handles
  /\ cancelled \in BOOLEAN

Serving == {"store", "query", "acquire", "exec"}

(* However lookups, opens, failing pings, stores and Close interleave, the *)
(* map holds only open handles to the database they are filed under: Close *)
(* clears what it closes, and a handle closed because its Ping failed has  *)
(* never been seen by another connection.                                  *)
MapSound ==
  \A n \in Names :
    pools[n] # 0 => /\ owner[pools[n]] = n
                    /\ pools[n] \notin failed \cup closed

(* A connection proxies its query over a handle to its own database whose  *)
(* Ping succeeded; only Close can have closed it in the meantime.          *)
ServedSound ==
  \A p \in Conns :
    hpc[p] \in Serving => /\ mine[p] # 0
                          /\ owner[mine[p]] = target[p]
                          /\ mine[p] \notin failed

(* The Ping of a connection does not last for ever.                        *)
PingEnds(p) == []<>(hpc[p] # "ping")

(* A query is before the database, and the context is not cancelled.       *)
InQuery(p) == hpc[p] \in {"acquire", "exec"} /\ ~cancelled

(* If no Ping of its own holds it for ever, a connection's goroutine gets  *)
(* to its query or to its end, however little its client sends; and, as no *)
(* query goes on once the context is cancelled, from then on to its end,   *)
(* whatever databases do with queries. That the Ping ends is a premise:    *)
(* neither the deadlines nor the context of HandleConnection bound it.     *)
HandlerReturns ==
  \A p \in Conns :
    PingEnds(p) => (hpc[p] # "idle" ~> hpc[p] = "done" \/ InQuery(p))

(* END-to-END-FLOW.md:843: "max_connections: Maximum number of connections *)
(* in the pool". Never more backend connections at work for one database   *)
(* than that.                                                              *)
WithinMaxConnections ==
  \A n \in Names :
    Cardinality({p \in Conns : hpc[p] = "exec" /\ target[p] = n}) <= MaxConnections
=============================================================================
