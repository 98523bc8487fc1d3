# Universal Database Proxy: a TLA+ verification project

The proxy (Go, `src/backend`) accepts MySQL and PostgreSQL clients on one port,
detects the protocol, and proxies each client's query over a pool of backend
connections. Beside it, one admin port serves metrics, a management API and a
WebSocket feed of statistics. Around this core lies a library of *engines*
(caching, failover, rate limiting and some thirty more) with routing, retry,
secrets, plugins and access control.

This project models the running core: the server's life cycle, its connections,
the handlers' pools and the WebSocket hub. Of the libraries it models, in full
control flow, failover, the four circuit breakers, the pool rebalancer, rate
limiting, the priority queues, the query cache, the engine pipeline with its
security, transformation and load balancing engines, the plugin manager and the
sharding engine; of the web frontend the part that talks to the hub; and of every
other library that keeps state what it does with the mutexes and the variables its
callers share.

## 1. Inventory

Paths are under `src/backend/internal` unless they start with `src/`.

### The running core

| Part | State | Operations | Talks to |
|---|---|---|---|
| `server/server.go` `ProxyServer` | listener, context, WaitGroup, `metricsServer`, `wsHub` | Start, serve, handleConnection, startMetricsServer, broadcastStats, Stop | handlers (call), hub (channel), net/http |
| `server/server.go` `RequestHandler` | registry, configured databases | ServeConn, detectProtocol, handleHTTP | client connection, handler registry |
| `protocols/{mysql,postgres}_handler.go` | `pools` map under a RWMutex | HandleConnection, getConnectionPool, proxyQuery, Close | `database/sql`, client connection |
| `websocket/hub.go` `Hub` | `clients` map, three channels, a channel per client | Run, Broadcast*, ClientCount, ServeWs, readPump, writePump | WebSocket clients, server's stats broadcaster |

Goroutines: one per TCP connection, the accept loop, the metrics server, the
stats broadcaster, `Hub.Run`, and two pumps per WebSocket client. They meet in
channels (the hub), in a mutex-guarded map (the pools), and in the WaitGroup and
the context (the server).

What is hard: a channel closed twice or sent on after closing; a fan-out that
evicts a slow client while that client unregisters itself; the look-then-store
of `getConnectionPool`; shutdown, which cancels, closes, shuts down and waits
while connections still arrive.

What makes each part correct:

* hub: no channel is closed twice or sent on when closed; a client receives,
  in order and without a gap, a prefix of what was broadcast after it joined; a
  lost or evicted client is released with both its goroutines; nobody who
  broadcasts stays blocked;
* handlers: a query runs only over an open handle to the client's own database;
  every connection ends once its client is silent or the server stops, unless its
  database accepts a connection and never answers the Ping (nothing bounds that);
* server: when Stop returns, the accept loop, the metrics server and every
  connection's goroutine have ended; Stop returns, with the same exception. Not
  everything ends with it: `Hub.Run`, the pumps of WebSockets that were hijacked from
  the metrics server, and requests that outlast Shutdown's five seconds (:295) are in
  no WaitGroup (:214) and go on until the process exits.

### The libraries

Called by tests or by nobody: `ServeConn` calls neither the engine pipeline nor
the router, so their callers are, as yet, whoever embeds them. They are written
for concurrent callers (all but the retry policies have their mutexes), and that
is how they are modelled.

| Part | State | Hard behaviour |
|---|---|---|
| `engines/base.go` pipeline | list of engines | refusal half-way: later engines see neither query nor response |
| `engines/failover_engine.go` | nodes, primary, counters | decision and promotion in two critical sections |
| `routing/router.go` | pools, rules, round-robin counters, breaker | writes under a read lock; breaker that never closes |
| `retry/policy.go`, `engines/retry_intelligence_engine.go` | breaker state and counters | half-open with requests in flight |
| `engines/ratelimit_intelligence_engine.go` | four mutexes, breaker, baselines | a mutex taken twice by one goroutine |
| `engines/multitenant_isolation_engine.go` | tenants, quotas, usage | lock upgrade; a quota counter nobody increments |
| `engines/connection_pool_optimizer_engine.go`, `pool_rebalancer_engine.go` | pool counters, limits | counters against tracked connections, resize on stale data |
| `engines/load_balancer_engine.go` | node connection counts | select, then count; a count not taken back |
| `engines/cache_engine.go` | entries with expiry | fill racing an invalidation |
| `engines/query_priority_engine.go` | four bounded queues | a query between two queues |
| `engines/query_timeout_engine.go` | active queries, a context and a monitor each | a timeout racing completion; a monitor that waits for one timer only |
| `engines/cdc_engine.go` | bounded change log, subscribers | order of publication |
| `engines/sharding_engine.go` | shards, rules | integer arithmetic of ranges |
| `engines/query_history`, `query_versioning`, `hotspot_detection`, `data_lineage` | lists and maps, two mutexes each | lock order |
| `secrets/manager.go` | cached secrets, watcher | cached for ever, or never, under another name; delete racing a fetch |
| `plugin/manager.go`, `admin/plugin_api.go` | two maps of plugins | maps that disagree, the closing of one of them above all; reload racing disable |
| `middleware/ratelimit.go` | token buckets | cleanup that forgives |
| `src/frontend/.../WebSocketContext.tsx` | a socket, a timer, a flag | a reconnection racing the page's end |
| `admin/config_api.go`, `admin/policy.go` | configuration lists, policies | append under a read lock |
| `security/rbac.go` | users, sessions, roles | sessions that outlive users |

`PROJECT.json` lists every part with its status, and every hazard with its line.
`src/backend/udbproxy` is an older copy of the backend that nothing imports and
`src/internal/engines` holds drafts that do not build; both are left aside, and
so are the engines that only compute on a query's text. Of the frontend
(`src/frontend`) one file keeps state that outlives a page,
`contexts/WebSocketContext.tsx`, which connects to the hub and reconnects.

## 2. Modules

| Module | Models | Kind |
|---|---|---|
| `Feed` | what a subscriber of the statistics is promised | abstract specification |
| `Hub` | `websocket/hub.go`, `broadcastStats` | component, implements `Feed` |
| `HubProofs` | | theorems about `Hub` |
| `ProtocolHandler` | `protocols/mysql_handler.go`, `postgres_handler.go` | component |
| `ProtocolHandlerProofs` | | theorems about `ProtocolHandler` |
| `Server` | `server/server.go`, `cmd/udbproxy/main.go` | composition with `ProtocolHandler` |
| `ServerProofs` | | theorems about `Server` |
| `Failover` | `engines/failover_engine.go` | component |
| `Breaker` | what a circuit breaker promises | abstract specification |
| `Breakers` | the breakers of `retry/policy.go`, `routing/router.go`, `engines/retry_intelligence_engine.go`, `engines/ratelimit_intelligence_engine.go` | component, implements `Breaker` |
| `ResilienceProofs` | | theorems about `Failover` and `Breakers`, the refinement among them |
| `PoolRebalancer` | `engines/pool_rebalancer_engine.go` | component |
| `RateLimits` | `middleware/ratelimit.go` | component |
| `PoolOptimizer` | `engines/connection_pool_optimizer_engine.go` | component |
| `LimitsProofs` | | theorems about `PoolRebalancer`, `RateLimits` and `PoolOptimizer` |
| `QueryPriority` | `engines/query_priority_engine.go` | component |
| `QueryCache` | `engines/cache_engine.go` | component |
| `ChangeLog` | `engines/cdc_engine.go` | component |
| `QueryTimeout` | `engines/query_timeout_engine.go` | component |
| `QueryProofs` | | theorems about `QueryPriority`, `QueryCache`, `ChangeLog` and `QueryTimeout` |
| `Pipeline` | `engines/base.go`, `security_engine.go`, `transformation_engine.go`, `load_balancer_engine.go` | composition |
| `Plugins` | `plugin/manager.go`, `admin/plugin_api.go` | component |
| `Shards` | `engines/sharding_engine.go` | component |
| `Dashboard` | `src/frontend/src/contexts/WebSocketContext.tsx` | component |
| `Secrets` | `secrets/manager.go` | component |
| `Paths` | | how a method's locks and accesses are written |
| `SharedState` | goroutines that meet at `sync.RWMutex`es | component |
| `EngineMethods` | ten engines with several mutexes each, as paths | data of `SharedState` |
| `QueryEngineMethods` | 21 more engines, as paths | data of `SharedState` |
| `ServiceMethods` | routing, retry, limiters, secrets, plugins, security, administration, two handlers, as paths | data of `SharedState` |
| `SharedStateProofs` | | theorems about `SharedState` |
| `MC_Running` | `Server`, `ProtocolHandler` and `Hub`, a behaviour of one of them at a time | instance |
| `MC_Libraries` | the fourteen libraries, a behaviour of one of them at a time | instance |
| `MC_Breakers` | `Breakers` with a history of who is in the trial phase | instance |
| `MC_Hub`, `MC_ProtocolHandler`, `MC_Server`, `MC_Pipeline`, `MC_ChangeLog`, `MC_SharedState` | symmetry sets and small instances for TLC | instances |
| `LibrariesProofs` | | theorems about `Pipeline`, `Plugins`, `Shards`, `Dashboard`, `Secrets` and the fourteen of `MC_Libraries` together |

Definitions named `X_Something` and marked *Mutant* are plausible bugs of
definition `X`. No specification uses them: each replaces its `X` to show that
a property notices.

### Hub and Feed

`Hub` has one variable per piece of state a goroutine can see: the map of
clients, the three channels, each client's channel with its open or closed
state, and the places of the goroutines. `Hub.Run` is a loop over a `select`:
receiving is one action, what it does with the client or the message another,
and the fan-out sends to one client at a time (`HubSend`, `HubEvict`), so a
`ClientCount`, a draining `writePump` or a lost connection may come between any
two sends. An unbuffered send is a rendezvous: the receiving step of Run takes
the sender with it. `writePump` is modelled down to its drain loop, which reads
`len(c.send)` once and receives that many messages.

The contents of messages are numbers in the order of broadcasting. `Feed`
knows nothing of channels: members receive, in order, what is published after
they joined, and may leave at any time. `ImplementsFeed` is the refinement.

### ProtocolHandler

One goroutine per connection walks through HandleConnection, and every point
where another goroutine may come between is a step: the read, the look-up under
the read lock, `sql.Open`, `Ping`, the store under the write lock, the read of
the query, waiting for a backend connection, the query. Both handlers run the
same code over maps of their own; the model is one map over all database names.
A `*sql.DB` is a number, in the order of opening. How the client's bytes are
understood (a status request, TLS, white space, anything else) is chosen when
they are read; only their number is kept before. `Ping` has no context, and the
`timeout=10s` of the MySQL DSN (`connect_timeout=10` of the PostgreSQL one) bounds
dialling only: it may stay at its step for ever.

External: the client, and `database/sql`, used as the source uses it: a handle
lends at most MaxConnections connections, QueryContext gives up when the context
is cancelled or the handle closed.

### Server

`Server` extends `ProtocolHandler` by the life cycle: each
connection goes from the backlog to the accept loop, to its goroutine, through
ServeConn to its handler, whose steps are the handler's own actions. `main`,
the accept loop, the metrics server and the stats broadcaster are the other
goroutines. `s.metricsServer` is written by one goroutine and read by another
without synchronisation; the model lets Stop read the value before or after.
Accept may fail while the listener is open (no file descriptors left), and then
the loop retries.

### Failover

A worker is a goroutine that has a query in the engine. A response is recorded,
the need for a failover is checked, and the failover is carried out in three
critical sections of one mutex; the model has a step for each, and splits the
last in two (`Trigger`, then `Promote` or `NoReplica`), since the statistics have
a mutex of their own. `Promote` may pick any healthy replica: Go iterates over a
map in no particular order. The names in responses are those of nodes, added or
not. `AddDatabase` marks what it is passed as healthy and touches nothing else: a new
node (`NewNode`) comes without failures, the one passed before (`SameNode`) with those
it has, and `excused` is the history of the nodes that came back so with as many as
the threshold. Two workers that both saw the primary sick fail over twice, the second
time away from the fresh primary; the code does that and no property forbids it. Left out: the target and the times kept in the failover context, which
nothing acts on, and `EnableAutoFailover = false`, which switches all of it off.

### Breaker and Breakers

`Breaker` is the promise, in terms of three phases, of the time since the last
failure, and of who was let through: while the breaker is open and cooling nobody
gets through, and the first failure of the trial phase opens it again. The four
breakers of the code differ in what they look at and when; `Breakers` has a
variable `flavour` and, for each, an action per critical section. A request is
a goroutine between the question and its outcome, so that outcomes come late and
out of order. The rate limiter asks in three steps, of which only the last holds
its mutex.

The promise has one exception, which the abstract specification names: a
*straggler*, who dealt with the breaker before it opened, may lift the opening.
The refinement mapping says who they are: of the router's breaker every request
under way (any success closes it), of the rate limiter's those between its looks.
The retry engine's and the policy's breakers have none.

The policy's breaker has no mutex at all. Nothing in the source calls it, and it is
modelled as used by one goroutine at a time; what happens to its fields when more do
is in the list of races below.

`Breaker` does not promise that the trial phase is one request's, nor that it ever
comes. A half-open breaker lets everybody through, although the retry engine's comment
speaks of one request: `MC_Breakers` puts that to it and finds it violated. Two more
things no property calls an error: the router's open breaker never lets anybody through
again (`RouterAdmit` has no way from "open": `lastFailure` is always 0), and the retry
engine counts successes while it is closed, so that one may close a half-open breaker.

### PoolRebalancer

Every call looks a pool up under one mutex and works on it under another, so a
pool may be unregistered or replaced in between; the rebalancer reads the limits
with no mutex and writes later. `strays` is a history variable: the releases a
pool counted that were not of its own connections, less its own that it missed.
Pools are numbered in the order of registration.

### RateLimits

A token bucket is `golang.org/x/time/rate`'s, external: it holds Burst tokens at
most and time gives them back, one at a time. `RateLimiter.Allow` looks the bucket
up under the read lock, makes it under the write lock, and takes with neither;
`IPRateLimiter.Allow` does all in one. The clean-up of `RateLimiter` judges a
bucket by taking a token of it, and so deletes the exhausted ones: the model keeps
that, and `retired` counts what was deleted or replaced.

### QueryPriority, QueryCache, Plugins, Shards

`QueryPriority`: each queue has its own mutex, and Dequeue, SetPriority and
ClearQueues visit them one by one, a step each; `fate` is a history variable.
`QueryCache`: a query misses, the database answers, the answer is stored: three
steps, with writes and invalidations between; an answer is known by the number
of writes its table had seen. `Plugins`: LoadPlugin and UnloadPlugin change the
context's map and the registry's, one after the other; `Close` closes the modules,
empties the context's map and shuts the runtime, so that nothing is compiled any more,
and the registry keeps what it has. `Shards`: what a query's
shard is computed from (`Count`) against what the shards are when it is used.

### Secrets, PoolOptimizer, ChangeLog, QueryTimeout

`Secrets`: GetSecret looks into the map under the read lock, asks a provider or
the Vault with none, and remembers the answer later; SetSecret and DeleteSecret
come between. A secret's values are numbered as they change outside. The watcher
is a client of GetSecret like any other. What the Vault holds under a path is
remembered under a field's name (`FieldsOf`), so that asking for the path again
asks again, each time: of a path that only the Vault has, no answer is ever found in
the map (`VaultUnremembered`), and only a caller's SetSecret puts one there. The
history variables say what the map should be (`lastCall`,
`deletedAt`), who was under way (`late`), and how often an answer was kept (`kept`).

`PoolOptimizer`: the calls of a connection's life change the table and the
counters while they hold both mutexes, a step each; the health check throws
out one connection after the other, and Process, which takes the counters' mutex
alone, comes between. `early`, `extra` and `newer` are a ledger kept beside
the code: each says how often a counter moved for a connection in another state.

`ChangeLog`: a statement leaves its event in the log, counts it, and is published when
ProcessResponse comes, which does not ask whether the statement succeeded, a step per
mutex; each publication is a goroutine, and they run in any order. One whose event
cannot be serialised is counted and given up, so that the document's "exactly-once
delivery" is at most once (`MC_ChangeLog`). `captured` and `owed` are histories.

`QueryTimeout`: the goroutine that waits for a query's timers outlives the query,
and looks at the map in one step and marks the query in another. `TimePasses`
runs all timers together, and a goroutine sees one that is due sooner or later.

### Pipeline

A query passes the engines in their order and its response passes them in the
same order; the first refusal ends either. Kept are the engines whose work on a
query meets another's: security and transformation, which both write the fields to
mask; the load balancer, which chooses, then counts, and takes back when the
response passes; and a *gate*, any engine that may refuse and leaves nothing
behind. `forgotten` is a history variable: the counts no response takes back.

### Dashboard

The provider's callbacks run one at a time in the browser's event loop; between
any two the network may end a socket or the user leave the page. The hub is the
other end, and is only known by whether it accepts.

### SharedState and the methods

`SharedState` lets goroutines run paths against Go's RWMutex, with its waiting
writer that keeps new readers out, which is what makes a repeated read lock
dangerous. A path says which mutexes a method takes and releases and which shared
variables it reads and writes, in order. The three modules of methods have a
definition per method:

* `EngineMethods`: the engines with up to six mutexes each (AI optimisation, rate
  limit intelligence, multi-tenant isolation, query history, query versioning,
  hotspot detection, data lineage, pool optimizer, pool rebalancer, load balancer);
* `QueryEngineMethods`: the others that keep something about the queries that
  pass (cache, change capture, priority queues, timeouts, retry, sharding, ...);
* `ServiceMethods`: router, retry policies, rate limiters, secrets, plugins, users
  and sessions, TLS, configuration, policies, sandbox, inspector, and the two
  protocol handlers that the server cannot reach.

How they are written:

* Only the order of locks and accesses is kept; what is computed is not.
* Where a method holds no mutex, its path is cut in two pieces that are called
  one by one (`\cup`). This covers all the orders in which the code has them and
  more, and cannot hide a race or a circle: a goroutine that holds nothing makes
  nobody wait.
* A map and the objects it holds are variables of their own when the code treats
  them differently; a collection of objects with a mutex each (quotas, usage
  trackers, policies, pools) has one representative.
* A loop that locks in each turn does so in one turn or none, and a recursion
  that holds nothing when it descends has one level. `Lineage_AnalyzeImpact`
  holds its lock over the recursion, and that is kept.
* Background loops are methods anybody may call, so two of one loop may overlap.
* What a method returns is its caller's: slices and pointers that alias the engine's
  state and are read after the return are outside the model.
* What only a constructor writes counts as fixed. A configuration that a method
  replaces (`SetConfig`, `UpdateConfig`, `SetVaultToken`, `AddProvider`) is a variable like
  the others. The models of single components take configurations as constants, but for
  the cache's `SetEnabled`, the rate limiter's `SetLimit` and the timeouts' `SetConfig`.

A *suspect* is a path that can hang. An instance with the methods of its engine
alone violates `NeverHangs`; `ratelimit_hangs` is the one that a single call
suffices for by default:

| Suspect | Why |
|---|---|
| `AI_GetInsights` | locks `queryStats.mu`, calls `predictScalingNeed`, which locks it |
| `RateLimit_Count(RateLimit_Score)` | holds `clientTracker.mu`; the score read-locks it |
| `Tenant_Provision` | locks `tenantRegistry.mu` under its own read lock |
| `History_`, `Version_`, `Hotspot_Get...Stats` | `stats.mu` then `mu`, against Process |
| `Lineage_AnalyzeImpact`, `Optimizer_GetLoadPrediction` | a read lock in a read lock |

The `...Guard` of each module names the mutex that protects a variable on every
path, and `...Racy` lists the written variables that no mutex protects. `RacesKnown`
says that the two lists are right: a path that accessed a guarded variable bare, or a
racy one that had a mutex after all, would violate it. Of the racy variables no
other claim is made; methods that meet there do race. They are

| Where | Variable | What happens |
|---|---|---|
| `routing/router.go:140` | `rrCounters` | a map written under the read lock: the process may end |
| `security/rbac.go:248` | `sessionCache` | an expired session deleted under the read lock: likewise |
| `secrets/manager.go:193` | `secrets` | a map written with no lock: likewise |
| `secrets/manager.go:102` | `providers`, `Token`, `paths`, `callback` | appended to or set bare, and read bare by GetSecret (:114, :168) and the watcher |
| `plugin/manager.go:231` | `Config`, `enabled` of a plugin | written bare by whoever has the plugin |
| `engines/graph_engine.go:113` | `traversalCache` | a map read with no lock while it is written: likewise |
| `protocols/mongodb_handler.go:102` | `pools` | likewise, on the way out |
| `retry/policy.go` | the breaker and the policies | no mutex at all; the policies are a map |
| `engines/query_timeout_engine.go` | `Metadata` of a query | a map written by the monitor while the query goes on |
| `engines/ratelimit_intelligence_engine.go` | `clients`, `state`, ... | looked up bare in Process |
| `engines/multitenant_isolation_engine.go` | `quotas`, `tenantUsage`, ... | likewise |
| `engines/sharding_engine.go:138` | `shardRules` | read bare by every query |
| `SetConfig` of the AI, rebalancer, cache, timeout, sharding and audit engines and of the query sandbox | `config`, `Enabled`, `TTL` | replaced while queries read it bare |
| `engines/retry_intelligence_engine.go:156` | `State` | written under the read lock |
| `admin/config_api.go` | `cfg`, its lists | appended to under the read lock; one of two appends is lost |
| others | `LastAck`, `session`, `debugMode`, statistics | a stale or torn value |

## 3. Runs

| Run | Instance | Question and answer |
|---|---|---|
| `hub_fanout` | 2 clients, channels of 2, 3 messages | No double close, no send on a closed channel, no gap, no reordering; the drain loop never blocks; the hub implements the feed. |
| `running` | the server with 1 connection, 2 protocols of which 1 configured; or the handlers with 2 connections, 2 databases; or the hub with 1 client, 2 broadcasters; fair | Server: when Stop has returned the accept loop, the metrics server and the connections' goroutines have ended, although a connection may be accepted while it waits; the accept loop never retries a closed listener; once it has shut the metrics server down, Stop returns, provided no Ping lasts for ever. Handlers: the map never holds a closed or foreign pool, and nobody is served from one; silent clients are dropped; a cancelled context ends every handler whose Ping does. Hub: a lost or evicted client's goroutines end; callers of Broadcast and ServeWs are released. |
| `handler_limit` | 2 connections, 1 database | **Violated**: two connections that miss the map together open two pools; the database sees twice `max_connections`. |
| `server_graceful` | 1 connection, fair | **Violated**: an interrupt before `s.metricsServer` is set makes Stop wait for ever. |
| `server_inflight` | 1 connection | **Violated**: the shutdown aborts a running query. |
| `server_handshake` | 1 connection | **Violated**: ServeConn swallows the handshake the handler waits for. |
| `libraries` | fourteen components, one at a time (below), fair | See the next table. |
| `pipeline_masking` | 1 query, 2 columns, 3 rows, the security engine alone | **Violated**: of a response with more rows than columns the later rows are not masked. |
| `breaker_one_trial` | 2 requests, threshold 1, the retry engine's breaker | **Violated**: a half-open breaker lets a second request through before the first has an outcome. |
| `change_log_exactly_once` | 2 statements, 1 subscriber | **Violated**: an event that cannot be serialised is given up. |
| `engine_locks` | 2 goroutines, 48 components | Whatever was taken is released, and nothing else is; guarded variables are not raced for, and the unguarded ones are those listed; in every circle of waiting goroutines is a suspect; each path keeps the discipline of the theorem. |
| `ratelimit_hangs` | 1 goroutine, rate limiting | **Violated**: with anomaly detection, on by default, a query waits for itself. |

`libraries` joins components that share no state: a behaviour is one of a single
part, while the others rest in an initial state, so the states add up instead of
multiplying. Each part's properties are its own:

| Part | Instance | Properties and what they show |
|---|---|---|
| `Failover` | 3 nodes, 2 workers, threshold 2, 4 responses | No promotion of a sick node (`PromotesHealthy`); one at a time, each failover counted once, and a node out of service exactly while its failures have reached the threshold, unless it was added again with them (`FailoverSound`: `NoDoubleUnlock`, `StatsAddUp`, `SickExactly`); a sick primary is replaced or there is no replica left to (`FailoverHappens`). |
| `Breakers` | 3 requests, threshold 2, counts up to 4 | Count and state agree, whatever is in flight where there is a mutex (`CountDecides`); each implements `Breaker` (`ImplementsBreaker`). |
| `PoolRebalancer` | 1 borrower, 2 rebalancers, 2 pools | No connection is made or lost by counting (`CountsBalance`); the limits keep their bounds and their order (`LimitsKept`). |
| `RateLimits` | 2 askers, burst 2, 2 buckets | A client gets its burst, what time gives back, and a new bucket for each one deleted (`AdmissionBound`). |
| `QueryPriority` | 2 queries, 2 priorities, queues of 1, 2 callers | A query is in one queue, or in none and its fate says why (`OnePlace`). |
| `QueryCache` | 2 tables, 2 selects, 1 entry, 1 write a table | A stale entry is one that raced the invalidation (`StaleOnlyByRace`). |
| `Pipeline` | 2 queries, 4 engines, 2 nodes | A node's connections are the queries it counts, but for those forgotten (`CountsExplained`). |
| `Plugins` | 3 callers, 3 modules | Until Close, the maps agree when nobody is calling, unless a load crossed another call; after it the context runs nothing and what the registry has is closed (`MapsAgree`: `RunsOpen`, `ShutForGood`). |
| `Shards` | 1 query, range 2..6, 6 shards | The shard of a query exists; division by zero only with more shards than keys (`TargetsExist`). |
| `Dashboard` | 1 socket | A mounted page is connected again, an unmounted one leaves nothing (`DashboardSettles`). |
| `Secrets` | 3 paths (one that a provider and the Vault know, one that only the Vault knows, their field), 2 clients, 1 change outside | SetSecret and DeleteSecret are overruled only by clients who were under way; what a provider answered is not asked for again, the watcher's asking included; what only the Vault knows is asked for each time (`SecretsSound`: `LastCallHolds`, `AskedSeldom`, `VaultUnremembered`). |
| `PoolOptimizer` | 2 connections, off by 1 at most | The four counters agree but for calls that named a connection in another state (`CountersExplained`). |
| `ChangeLog` | 2 statements, 2 subscribers, log of 1 | The log is the end of the history; each event owed is on its way, lost or delivered, at most once, in no promised order, and counted (`ChangeLogSound`: `LogIsRecent`, `ChangesAccounted`). |
| `QueryTimeout` | 1 query, timeout 2, thresholds 1 and 2, clock up to 3 | A query marked killed was there for its whole timeout and not found slow, and no context outlives its query (`TimeoutsSound`: `KilledOnTime`, `ContextsReleased`). |

The violated properties quote a document of the repository; `PROJECT.json`,
"findings", gives both sides.

**Bounds.** `SendCap` 2 stands for 256: full, one free and empty are the cases
the code tells apart, and an eviction needs a full channel with a message to
spare, hence three messages. Two clients are enough for one to be evicted while
another is served, and the hub's code never relates more than one client to
another. `running` chooses one of three parts and leaves the others in an initial state
(`ServedBound`): the server serves the connections of `Served` and the handlers race with
both, whose clients send `RacingChunks` chunks each (the handshake's and the query's). One
connection reaches every line of the server, and the proofs show its safety properties
for any number; three chunks are what its client must send to have a query run (the
detection read, the handshake read, the query read). To the handlers the databases are
alike, so one connection in `RunningInit` has the first of them and the other either.
`MaxConnections` 1 makes every second query wait. The hub has one client and channels of
one in that run, for which four messages are enough to fill both and evict. `hub_fanout`,
whose instance is the largest, takes the permutations of its clients as symmetry. A
failover takes two responses (the threshold): four let two nodes of three fall sick, or one fall sick and recover and
another follow, and two workers are enough for one to act on what the other has changed.

In `libraries`: three requests let one pass, one fail and one straggle, and the
threshold 2 tells the failure that opens from the one before. `PoolBound` lets two
rebalancers work while there is one pool, and a second pool come while one works:
either race needs no more, and the proofs cover all of them together. Two buckets are a
bucket and the one that replaces it; one write makes an answer stale; `Columns` and
`MaxRows` are 0 there because `CountsExplained` does not look at rows (`pipeline_masking`
does). Six shards over five keys reach the width 0. The hashes 0..7 leave every
remainder. `SecretBound` keeps what no provider knows from changing outside and from being
deleted, which the provider's path does; the proof covers them all. Two clients of GetSecret are one that is told and one that misses with it,
or that calls Set or Delete in between; a connection that is off by one is off for each
of the reasons. A log of one is full after one event. Two queries of `QueryTimeout` share
the configuration and nothing else, so one is enough, and the clock runs past its timeout.

Two goroutines meet at any two
steps of two calls, which is all a race needs; that more of them do not form a
circle of another kind is proved. `engine_locks` takes the permutations of its
goroutines as symmetry.

**CHECK_DEADLOCK FALSE** stands where the system may come to rest: the server
when main has returned, the handler when its connections are done, the hub when
its messages are used up, and the engines' goroutines when two suspects have met,
which `NoDeadlock` tells apart from any other circle, and the libraries when their
bounds are used up.

## 4. Fairness

* A goroutine that can run is run (weak fairness per goroutine): Go's scheduler
  is preemptive and its channels and mutexes are fair enough for that.
* Reads have deadlines (`SetDeadline`), so a read that nobody serves fails.
* A worker that wants the failover engine's mutex gets it (strong fairness of its
  steps, for the mutex is free again and again): Go's mutexes do not starve.
* The browser's event loop runs a timer that has run out and an event that is due
  (weak fairness), and a server that is asked for a connection again and again
  accepts one (strong fairness of `OnOpen`). The first is what an event loop is; the
  second is needed, for a server that refuses for ever is never connected to.
* Not assumed: that a query ends (nothing bounds it but the context), that a `Ping`
  ends (nothing bounds it: it has no context, its connection no read timeout, and the
  DSN's `timeout=10s` or `connect_timeout=10` is the dial's). Where a liveness property
  needs the end of a Ping, it is a premise in the property itself (`PingEnds`,
  `PingsEnd`), so that `HandlerReturns` and `StopReturns` say nothing of a database that
  accepts connections and stays silent: there HandleConnection, and so Stop, may wait
  for ever. Nor is it assumed that clients send, that an interrupt comes, that a WebSocket peer is lost, that
  Accept succeeds.

## 5. Proofs

All are checked by TLAPS for every value of the constants. Each safety property
that a run checks is a theorem, except the two that are about given paths (below).
Most of them are not inductive; what was missing, and why, is said per component.

* `HubProofs`: `SafeInv` adds to the properties where Run is in its loop, which
  clients it still has to serve, and that a registering client is outside the
  map. The central fact is that only Run closes a channel and always removes the
  client from the map in the same critical section; from it follow `TypeOK`,
  `NoPanic`, `Attached` and `DrainReady`.
  `NoneMissed` says something of what has been delivered and what is on the way taken
  together. `FedInv` says it hop by hop: what a connection has got, the batch of its
  write pump, its channel and the hub's broadcast channel are each the unbroken run of
  messages (`Run(n, s)`) that follows the one before, and a client in the map has been
  reached by the fan-out exactly as far as its channel goes. From it follow `NoneMissed`
  and the whole refinement `HubImplementsFeed`: a write is the feed's delivery, joining
  and leaving happen once, and everything else is a stutter.
* `ProtocolHandlerProofs`: `HandlerInv` adds `Private`: between `sql.Open` and
  the store, a handle is known to one goroutine alone. Without it a failing Ping
  could close a handle another goroutine has stored. From it follow `HandlerTypeOK`,
  `MapSound` and `ServedSound`.
* `ServerProofs`: `ServerInv` says that the WaitGroup's counter is exactly the
  number of the goroutines it stands for (a cardinality, by the theorems on
  finite sets), together with what each phase of Stop implies of listener and
  context. From it follow `StoppedQuiet`, `NoSpin` and `TypeOK` (the counter never
  becomes negative). `RunsHandlers` shows that every step of the server is a step of
  `ProtocolHandler` or leaves it alone; `ServerServesSound` carries the handlers'
  invariant over, so that `MapSound` and `ServedSound` hold in the server.
* `ResilienceProofs`, failover: the flag of the failover context is up exactly while a
  worker is between `Trigger` and the end of its promotion (`FlagIsLock`). With it the
  counters add up and no Process sees the flag, so none releases its lock twice.
  A node's health is what its failures say, but for `excused`: whoever was added again
  with its failures and has neither recovered nor failed since. `FailoverPromotes` proves that no sick node becomes primary.
* `ResilienceProofs`, breakers: `CircuitTypeOK` and `CountDecides` are inductive
  together, and are what the refinement needs: three of the breakers look at the count
  alone when a request fails, so the step is one of `Breaker`'s because a breaker that is
  not closed has kept its failures. `BreakersImplement` is the whole refinement, initial
  states and steps.
* `LimitsProofs`, rebalancer: `CountsBalance` is inductive (each step moves at most one
  borrower from one lender to another: `UsersChange`). `LimitsKept` is not, for a
  limit is written from an old reading; `TargetsKept` says that what a rebalancer carries
  is in bounds whatever came between, since it only raises the maximum of a pool
  registered below the ceiling and lowers the minimum of one above the floor, and what a
  pool was registered with never changes.
* `LimitsProofs`, rate limits: `AdmissionBound` with `Fresh`: a bucket to come is full,
  so that a `SetLimit` that starts it lower stays within the bound.
* `QueryProofs`, priorities: `OnePlace` is a sum of cardinalities over all queues and
  callers, and a step touches one of each. `PriorityInv` speaks of single places: no
  queue holds a query twice, no two queues hold it, none while a SetPriority does. Lemmas
  on sequences say what `Append`, `Tail` and `RemoveFirst` do to the members of a queue;
  at the end the places are counted (`PlacesCounted`, `HandsCounted`).
* `QueryProofs`, cache: an entry is written from an answer that was read some steps
  before, so `StaleOnlyByRace` needs `SelectsFit`, the same of the answers on their way:
  an invalidation marks them, or they are newer. It needs too that the keys of a table
  are written together, so that an invalidation is never ahead of the writes. The bound
  on the cache's size is proved through evictions that may hit the very key being stored.
* `LibrariesProofs`, pipeline: `CountsExplained` counts the queries whose context names a
  node; a query that the balancer counted twice would overwrite the name. `PassedBalancer`
  says that a counted query is beyond the balancer, and the assumption that a pipeline has
  one at most, as `server.go:153` builds it (each engine once), that it meets no other.
* `LibrariesProofs`, plugins: `Uncrossed` says what each half of a load and of an unload
  has left to the other while no two requests cross: a load is alone, what it read back is
  what the context holds, and between the halves of an unload the registry is empty.
  Close comes between any two of these: `Current` says what a plugin on its way is before
  it (the one in the context) and after (one whose module is closed, or nil).
* `LibrariesProofs`, shards: `WellRouted` is what a route promises by the count it was
  computed from; `Quotient` is the arithmetic (a number below *n* widths divides to less
  than *n*), and the leftover keys of the range rule are the ones it does not cover.
* `LibrariesProofs`, dashboard: `OneAttempt` says of single sockets what the type
  invariant counts: one socket or one timer, never both.
* `LimitsProofs`, pool optimiser: `CountersExplained` is inductive with the types, and
  one lemma (`CountedSets`) says what adding and removing an element does to a count.
* `QueryProofs`, change log: `LogIsRecent` is an arithmetic of positions: what the
  full log gives up is what falls out of the last `LogSize` of the history
  (`CaptureKeepsLog`). `ChangesAccounted` is inductive with the types: publishing only
  what was never owed, and delivering only what is on its way, keep the three fates apart.
* `QueryProofs`, timeouts: a goroutine concludes from timers and from a look at the map.
  `MonitorKnows` says that while the query is in the map it has been there as long as
  the timers have run, so that one found after its timeout was there all that time.
* `LibrariesProofs`, secrets: `LastCallHolds` speaks of the map, which is written from what
  a client was told before; `Carries` says the same of the values on their way. For
  `AskedSeldom`, `KeptByMissers` counts: an answer that was kept and a client who still
  asks are together no more than the clients, since nobody misses what is remembered.
  `VaultUnremembered` needs `OutsideNames`: what is on its way, too, has a name that a
  provider knows or that is a field's.
* `LibrariesProofs`, the fourteen together: `LibrariesRunParts` shows that the specification of
  the run `libraries` implements the specification of each part, for the parts share no
  variable. With it the theorems about the parts become theorems about what the run
  checks: `LibrariesTypeCorrect` (`TypesOK`) and `LibrariesSafe` (all its safety
  properties and the refinement of the breakers).
* `SharedStateProofs`: *discipline suffices*. A path is disciplined when it ends
  with nothing held, releases only what it holds, accesses guarded variables under their
  mutexes, and (unless suspect) takes mutexes in the order of their ranks: facts about one
  path, read alone. `SharedStateInductive` says that what a goroutine holds is what its
  path up to here has taken and not released, and that whoever has announced itself
  has locked or is at its Lock. Then a writer is alone (`WriterAlone`), nothing is left
  held and nobody releases what another holds (`LocksAlwaysPaired`),
  guarded variables do not race (`GuardsExclude`), and there is no circle
  (`DisciplineSuffices`): of the mutexes its goroutines wait for, one
  ranks lowest; nobody on the circle holds it, for a holder waits for one ranked
  lower still; so they wait for a writer who has announced itself, and he for a
  holder on the circle. `NoOtherRaces` joins `NoRace` and `RacesKnown`: goroutines race
  for the variables listed as racy and no others. `UnsuspectedNeverHang` says of the
  components without suspects, all but eight, that no call ever waits in a circle.
  The theorems are for any number of goroutines and any
  methods; that the methods of the code are disciplined is what `engine_locks`
  checks (`Discipline`, in `PathsKnown`), one path at a time, which is exhaustive.

Assumptions: those named in the modules (capacities, bursts and thresholds are positive,
the sets of connections, queries in a pipeline and borrowers are finite, a pool's limits
are in order when it is registered, a pipeline has one balancer at most, paths are
sequences of steps, ranks are natural numbers), and for the theorems of
`SharedStateProofs` that every path of the component is disciplined (and, for the last
two, that its races are the known ones, or that it has no suspects). Nothing else is assumed.

Model-checked only: every liveness property (`PumpsReleased`, `NobodyStuck`,
`HandlerReturns`, `StopReturns`, `FailoverHappens`, `DashboardSettles`), for fairness and
ENABLED are out of the prover's reach; `PathsKnown` (`Discipline` and `RacesKnown`), which
says facts about the given paths, which no step changes, so that TLC's evaluation of them is exhaustive; and
the disagreements, which are counterexamples.

## 6. Not modelled

* The admin HTTP routes and their handlers, the contents of queries and results,
  TLS, metrics and logs.
* Time: a deadline passes at any moment when there is nothing to read. The delays
  and the jitter of the retries are computed on floating-point numbers and decide nothing
  but how long one waits.
* The memory model: `s.wsHub` and `s.metricsServer` are read as either the old or
  the new value.
* Of the libraries whose methods are only paths (`engine_locks`), what they compute:
  tenants and quotas, users and sessions, the router's selection of a pool. Their
  locks, their races and their deadlocks are modelled.
* Of `Secrets`, the parsing of credentials and the static manager; of `PoolOptimizer`,
  the predictions and the pool's new size, which nothing uses; of `ChangeLog`, the images
  and the sending, which is a stub; of `QueryTimeout`, the choice of a timeout.
* Of `Plugins`, whether a plugin is enabled and its hooks; of `Dashboard`, the messages;
  of `Pipeline`, the engines' work on a query's text.
* The engines that only rewrite, classify or print a query: nothing in them outlives a
  call or meets another caller's.

Every hazard of `PROJECT.json` names a property that bears on it. Not every one is
forbidden by it: where the code does what the hazard says, the property states what still
holds beside it, and the hazard's note says so. That is so of the second failover away
from a fresh primary, of the router's breaker that never closes by itself, of the successes
counted while a breaker is closed, of connections released twice and counters that drift
(ledgers record them), of a slow threshold that keeps the timeout from firing, of the keys
left over by a range's division, of plugin loads that cross and of what Close leaves
registered, of the order in which changes are delivered, and of a Ping that never ends.

Of what Database_proxy.md promises of the change log, "Exactly-once delivery semantics" is
refuted by `change_log_exactly_once`, and `ChangesAccounted` shows at most once; for
"Transaction-level change ordering" no property is stated: `DeliverEvent` takes the events
under way in any order, as the goroutines of cdc_engine.go:273 do. END-to-END-FLOW.md:239
and :253 draw the responses' way through the engines as the reverse of the queries'; the
code goes the same way round (base.go:47), and so does `Pipeline`.

## 7. What could come next

1. `Router`: the selection over healthy pools and its fallback, over `Breakers`.
2. `Sessions` and `Tenants`: sessions against users, quotas against usage.
3. Proofs: the invariants of these modules, as of the others; and, path by path, the
   discipline that TLC evaluates.
