----------------------------- MODULE MC_Libraries -----------------------------
(***************************************************************************)
(* The engines and services that share no state with each other, each as   *)
(* it is in its own module. They do not interact, so their interleavings   *)
(* say nothing that each of them does not say alone: a behaviour of this   *)
(* module is a behaviour of one part, and the others rest in their initial *)
(* states. The instance is in MC_Libraries.cfg; two of the properties are  *)
(* liveness properties, so it uses no symmetry.                            *)
(***************************************************************************)
EXTENDS Failover, Breakers, PoolRebalancer, RateLimits, QueryPriority, QueryCache,
        Pipeline, Plugins, Shards, Dashboard, Secrets, PoolOptimizer, ChangeLog, QueryTimeout

CONSTANT VaultPaths  \* the paths that the Vault has, in the instance of Secrets

VARIABLE part        \* the part that takes the steps

libraryVars ==
  <<vars, circuitVars, poolVars, limitsVars, priorityVars, cacheVars, pipelineVars,
    pluginVars, shardVars, dashboardVars, secretVars, optimizerVars, changeLogVars,
    timeoutVars, part>>

(* A part that rests does so in one of its initial states.                 *)
LibrariesInit ==
  /\ part \in {"failover", "breakers", "pools", "limits", "priority", "cache",
               "pipeline", "plugins", "shards", "dashboard", "secrets", "optimizer",
               "changes", "timeouts"}
  /\ Init /\ CircuitInit /\ PoolInit /\ LimitsInit /\ PriorityInit /\ CacheInit
  /\ PipelineInit /\ PluginsInit /\ ShardsInit /\ DashboardInit
  /\ SecretsInit /\ OptimizerInit /\ ChangeLogInit /\ TimeoutInit
  /\ part # "breakers" => flavour = "retry"
  /\ part # "limits" => limiter = "key"
  /\ part # "dashboard" => usable
  /\ part # "timeouts" => ~killing /\ slowThreshold = (CHOOSE t \in Thresholds : TRUE)

(* A bound: two rebalancers are at work only while there is one pool, and  *)
(* a pool is replaced only while one of them is.                           *)
PoolBound == made > 1 => Cardinality({r \in Rebalancers : rebalancer[r] # Resting}) <= 1

(* A bound: what no provider knows does not change outside and is not      *)
(* deleted.                                                                *)
SecretBound ==
  \A p \in SecretPaths \ Provided : outside[p] = 0 /\ lastCall[p] # "delete"

(* The other parts rest.                                                   *)
Alone ==
  /\ IF part = "failover" THEN TRUE ELSE UNCHANGED vars
  /\ IF part = "breakers" THEN TRUE ELSE UNCHANGED circuitVars
  /\ IF part = "pools" THEN TRUE ELSE UNCHANGED poolVars
  /\ IF part = "limits" THEN TRUE ELSE UNCHANGED limitsVars
  /\ IF part = "priority" THEN TRUE ELSE UNCHANGED priorityVars
  /\ IF part = "cache" THEN TRUE ELSE UNCHANGED cacheVars
  /\ IF part = "pipeline" THEN TRUE ELSE UNCHANGED pipelineVars
  /\ IF part = "plugins" THEN TRUE ELSE UNCHANGED pluginVars
  /\ IF part = "shards" THEN TRUE ELSE UNCHANGED shardVars
  /\ IF part = "dashboard" THEN TRUE ELSE UNCHANGED dashboardVars
  /\ IF part = "secrets" THEN TRUE ELSE UNCHANGED secretVars
  /\ IF part = "optimizer" THEN TRUE ELSE UNCHANGED optimizerVars
  /\ IF part = "changes" THEN TRUE ELSE UNCHANGED changeLogVars
  /\ IF part = "timeouts" THEN TRUE ELSE UNCHANGED timeoutVars
  /\ UNCHANGED part

LibrariesNext ==
  \/ part = "failover" /\ Next /\ Alone
  \/ part = "breakers" /\ CircuitNext /\ Alone
  \/ part = "pools" /\ PoolNext /\ PoolBound' /\ Alone
  \/ part = "limits" /\ LimitsNext /\ Alone
  \/ part = "priority" /\ PriorityNext /\ Alone
  \/ part = "cache" /\ CacheNext /\ Alone
  \/ part = "pipeline" /\ PipelineNext /\ Alone
  \/ part = "plugins" /\ PluginsNext /\ Alone
  \/ part = "shards" /\ ShardsNext /\ Alone
  \/ part = "dashboard" /\ DashboardNext /\ Alone
  \/ part = "secrets" /\ SecretsNext /\ SecretBound' /\ Alone
  \/ part = "optimizer" /\ OptimizerNext /\ InBound' /\ Alone
  \/ part = "changes" /\ ChangeLogNext /\ Alone
  \/ part = "timeouts" /\ TimeoutNext /\ Alone

LibrariesSpec ==
  /\ LibrariesInit /\ [][LibrariesNext]_libraryVars
  /\ \A w \in Workers : SF_vars(Check(w) \/ TriggerFailover(w))
  /\ DashboardFairness

(* Every part's variables range over what their declarations say.          *)
TypesOK ==
  /\ TypeOK /\ CircuitTypeOK /\ PoolTypeOK /\ LimitsTypeOK /\ PriorityTypeOK
  /\ CacheTypeOK /\ PipelineTypeOK /\ PluginsTypeOK /\ ShardsTypeOK /\ DashboardTypeOK
  /\ SecretsTypeOK /\ OptimizerTypeOK /\ ChangeLogTypeOK /\ TimeoutTypeOK

-----------------------------------------------------------------------------
(* Values of the instance.                                                 *)
OneLimit == {[min |-> 1, max |-> 1]}

TwoTables == {[db |-> "d", table |-> t, query |-> 1] : t \in {"t", "u"}}

(* The paths in the Vault, one of which a provider knows too, have the     *)
(* same field.                                                             *)
PathFields == [p \in SecretPaths |-> IF p \in VaultPaths THEN SecretPaths \ VaultPaths ELSE {}]

AllMatching == Subscribers \X Changes

TwoTicks == [q \in TimedQueries |-> 2]

AllKinds == <<"security", "transformation", "balancer", "gate">>
=============================================================================
