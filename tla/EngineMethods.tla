---------------------------- MODULE EngineMethods ----------------------------
(***************************************************************************)
(* The paths of the engines' methods over the mutexes and the variables    *)
(* they share: one definition per method or loop body that touches any,    *)
(* one per engine for all its methods. \cup between two sets of paths      *)
(* says that the method does one piece and then the other, holding no      *)
(* mutex in between, or only one of the two. A collection of objects with  *)
(* a mutex each (quotas, pools, ...) has one representative. A loop that   *)
(* takes a mutex in each turn takes it in one turn or none. What only the  *)
(* constructor writes, a configuration above all, counts as fixed: where a *)
(* method replaces it, it is a variable.                                   *)
(***************************************************************************)
EXTENDS Sequences, Paths

-----------------------------------------------------------------------------
(* AI optimisation. Queries is the map, stats an entry of it, config what  *)
(* SetConfig replaces.                                                     *)

AI_Lookup == Hold("queryStats.mu", Reads("Queries"))

AI_recordQuery ==
  Hold("queryStats.mu", Reads("Queries") ** Maybe(Writes("Queries")) ** Writes("stats"))
AI_updateStats == Hold("queryStats.mu", Reads("Queries") ** Maybe(Writes("stats")))
AI_analyzeQuery == AI_Lookup ** Maybe(Reads("stats"))
AI_recommendCache == AI_Lookup ** Maybe(Reads("stats"))
AI_isAnomaly == AI_Lookup ** Maybe(Reads("stats") ** Reads("config"))
AI_calculateAnomalyScore == AI_Lookup ** Maybe(Reads("stats"))
AI_predictScalingNeed == Hold("queryStats.mu", Reads("Queries") ** Maybe(Reads("stats")))
AI_trainModel ==
  Reads("config")
    \cup Hold("queryStats.mu",
           Reads("Queries") ** Maybe(Reads("stats") ** Hold("model.mu", Writes("weights"))))
AI_GetTopSlowQueries == Hold("queryStats.mu", Reads("Queries") ** Maybe(Reads("stats")))
AI_GetQueryStats == AI_Lookup

(* It takes queryStats.mu, and predictScalingNeed takes it again.          *)
AI_GetInsights ==
  Hold("queryStats.mu", Reads("Queries") ** Maybe(Reads("stats")) ** AI_predictScalingNeed)

AI_Process ==
  Reads("config") \cup AI_recordQuery \cup AI_analyzeQuery \cup AI_recommendCache
    \cup AI_isAnomaly \cup AI_calculateAnomalyScore
AI_ProcessResponse == Reads("config") \cup AI_updateStats \cup AI_predictScalingNeed
AI_SetConfig == Writes("config")
AI_GetConfig == Reads("config")

AI_Methods ==
  AI_Process \cup AI_ProcessResponse \cup AI_trainModel \cup AI_GetTopSlowQueries
    \cup AI_GetQueryStats \cup AI_GetInsights \cup AI_SetConfig \cup AI_GetConfig

-----------------------------------------------------------------------------
(* Rate limit intelligence. clients is the map, client an entry of it but  *)
(* for its isWhitelisted.                                                  *)

RateLimit_getAverage == Share("anomalyDetector.mu", Reads("history"))
RateLimit_calculateAnomalyScore ==
  Share("clientTracker.mu", Reads("clients") ** Maybe(Reads("client") ** RateLimit_getAverage))

RateLimit_CheckBreaker ==
  Reads("state")
    ** Maybe(Reads("lastFailure") ** Maybe(Hold("circuitBreaker.mu", Writes("state"))))
RateLimit_CheckWhitelist == Reads("clients") ** Maybe(Reads("isWhitelisted"))

(* The score is taken while clientTracker.mu and anomalyDetector.mu are    *)
(* held for writing, and takes both for reading.                           *)
RateLimit_Score ==
  Hold("anomalyDetector.mu", RateLimit_calculateAnomalyScore ** Writes("client"))
RateLimit_Count(score) ==
  Hold("clientTracker.mu",
    Reads("clients") ** Maybe(Writes("clients")) ** Writes("client")
      ** score ** Maybe(Writes("client")))
RateLimit_Process ==
  RateLimit_CheckBreaker \cup RateLimit_CheckWhitelist
    \cup RateLimit_Count(Maybe(RateLimit_Score))
RateLimit_ProcessResponse ==
  Hold("circuitBreaker.mu", Reads("state") ** Maybe(Writes("state") ** Writes("failureCount")))
    \cup Hold("circuitBreaker.mu",
           Writes("failureCount") ** Writes("lastFailure") ** Maybe(Writes("state")))
    \cup Hold("anomalyDetector.mu", Writes("history"))
RateLimit_monitorLoop ==
  Hold("clientTracker.mu", Reads("clients") ** Maybe(Reads("client")) ** Maybe(Writes("clients")))
    \cup Hold("circuitBreaker.mu",
           Reads("state") ** Maybe(Reads("lastFailure")) ** Maybe(Writes("state")))
RateLimit_GetClientStats ==
  Share("clientTracker.mu", Reads("clients") ** Maybe(Reads("client") ** Reads("isWhitelisted")))
RateLimit_AddToWhitelist ==
  Hold("clientTracker.mu",
    Reads("clients") ** (Writes("clients") \cup (Writes("isWhitelisted") ** Writes("client"))))
RateLimit_GetCircuitBreakerStatus ==
  Share("circuitBreaker.mu", Reads("state") ** Reads("failureCount") ** Reads("lastFailure"))

RateLimit_Methods ==
  RateLimit_Process \cup RateLimit_ProcessResponse \cup RateLimit_monitorLoop
    \cup RateLimit_GetClientStats \cup RateLimit_AddToWhitelist
    \cup RateLimit_GetCircuitBreakerStatus

-----------------------------------------------------------------------------
(* Multi-tenant isolation. quotas, tenantUsage and accessPolicies are the  *)
(* engine's maps, counters and limits the fields of a quota.               *)

Tenant_initTenantResources == Writes("quotas") ** Writes("tenantUsage")

(* With auto-provisioning a new tenant is written under the write lock of  *)
(* the mutex whose read lock is held.                                      *)
Tenant_Provision ==
  Share("tenantRegistry.mu",
    Reads("tenants")
      ** Hold("tenantRegistry.mu", Writes("tenants") ** Tenant_initTenantResources))
Tenant_isTenantActive ==
  Share("tenantRegistry.mu", Reads("tenants") ** Maybe(Reads("status"))) \cup Tenant_Provision
Tenant_validateTenantAccess == Share("tenantRegistry.mu", Reads("tenants"))
Tenant_checkQuota ==
  Reads("quotas") ** Maybe(Hold("quota.mu", Reads("limits") ** Reads("counters")))
Tenant_validateAccessPolicy == Hold("policy.mu", Reads("policy"))
Tenant_applyRowFilters == Reads("accessPolicies") ** Maybe(Hold("policy.mu", Reads("policy")))
Tenant_trackUsage ==
  Reads("tenantUsage") ** Maybe(Writes("tenantUsage")) ** Hold("usage.mu", Writes("usage"))
Tenant_Process ==
  Tenant_isTenantActive \cup Tenant_validateTenantAccess \cup Tenant_checkQuota
    \cup (Reads("accessPolicies") ** Maybe(Tenant_validateAccessPolicy))
    \cup Tenant_applyRowFilters \cup Tenant_trackUsage
Tenant_quotaResetLoop ==
  Hold("mu", Reads("quotas") ** Maybe(Hold("quota.mu", Maybe(Writes("counters")))))
Tenant_RegisterTenant ==
  Hold("tenantRegistry.mu",
    Reads("tenants") ** Maybe(Writes("tenants") ** Tenant_initTenantResources))
Tenant_SuspendTenant == Hold("tenantRegistry.mu", Reads("tenants") ** Maybe(Writes("status")))
Tenant_ResumeTenant == Hold("tenantRegistry.mu", Reads("tenants") ** Maybe(Writes("status")))
Tenant_SetQuota == Hold("mu", Reads("quotas") ** Maybe(Writes("limits")))
Tenant_SetAccessPolicy == Hold("mu", Writes("accessPolicies"))
(* Mutant: quota.mu is taken before usage.mu.                              *)
Tenant_GetTenantUsage_QuotaFirst ==
  Share("mu",
    Reads("tenantUsage") ** Maybe(Share("quota.mu", Share("usage.mu", Reads("usage")))))
Tenant_GetTenantUsage ==
  Share("mu",
    Reads("tenantUsage")
      ** Maybe(Share("usage.mu",
           Reads("quotas") ** Maybe(Share("quota.mu", Reads("usage"))) ** Reads("usage"))))

Tenant_Methods ==
  Tenant_Process \cup Tenant_quotaResetLoop \cup Tenant_RegisterTenant
    \cup Tenant_SuspendTenant \cup Tenant_ResumeTenant \cup Tenant_SetQuota
    \cup Tenant_SetAccessPolicy \cup Tenant_GetTenantUsage

-----------------------------------------------------------------------------
(* Query history.                                                          *)

History_Process ==
  Hold("mu", Writes("history") ** Maybe(Writes("index")) ** Hold("stats.mu", Writes("stats")))
History_ProcessResponse == Hold("mu", Reads("history") ** Maybe(Writes("history")))
History_QueryHistory == Share("mu", Hold("stats.mu", Writes("stats")) ** Reads("history"))
History_GetTopQueries == Share("mu", Reads("history"))

(* It takes the two mutexes the other way round.                           *)
History_GetHistoryStats == Share("stats.mu", Share("mu", Reads("history")) ** Reads("stats"))

History_Methods ==
  History_Process \cup History_ProcessResponse \cup History_QueryHistory
    \cup History_GetTopQueries \cup History_GetHistoryStats

-----------------------------------------------------------------------------
(* Query versioning.                                                       *)

Version_Process ==
  Hold("mu",
    Reads("versions")
      ** Maybe(Writes("versions") ** Writes("currentVer"))
      ** Hold("stats.mu", Writes("stats")))
Version_CompareVersions ==
  Share("mu", Reads("versions") ** Maybe(Hold("stats.mu", Writes("stats"))))

(* Likewise.                                                               *)
Version_GetVersionStats == Share("stats.mu", Share("mu", Reads("versions")) ** Reads("stats"))

Version_Methods ==
  Version_Process \cup Version_CompareVersions \cup Version_GetVersionStats

-----------------------------------------------------------------------------
(* Hotspot detection. hotspots is the map, hotspot an entry of it.         *)

(* Mutant: accessLog.mu is not released.                                   *)
Hotspot_detectHotspots_NoUnlock == {<<Step("Lock", "accessLog.mu"), Step("Read", "entries")>>}
Hotspot_detectHotspots ==
  Hold("accessLog.mu", Reads("entries"))
    \cup Hold("mu",
           Reads("hotspots")
             ** Maybe(Writes("hotspots") ** Hold("stats.mu", Writes("stats")))
             ** Writes("hotspot"))
Hotspot_Process ==
  Hold("accessLog.mu", Writes("entries"))
    \cup Hold("stats.mu", Writes("stats"))
    \cup Hotspot_detectHotspots
    \cup (Reads("hotspots") ** Maybe(Reads("hotspot")))
Hotspot_ProcessResponse == Hold("accessLog.mu", Reads("entries") ** Maybe(Writes("entries")))
Hotspot_GetHotspots == Share("mu", Reads("hotspots") ** Maybe(Reads("hotspot")))

(* Likewise.                                                               *)
Hotspot_GetHotspotStats == Share("stats.mu", Share("mu", Reads("hotspots")) ** Reads("stats"))

Hotspot_Methods ==
  Hotspot_Process \cup Hotspot_ProcessResponse \cup Hotspot_GetHotspots
    \cup Hotspot_GetHotspotStats

-----------------------------------------------------------------------------
(* Data lineage. nodes is the map of the graph, node an entry of it.       *)

Lineage_updateLineageGraph ==
  Hold("lineageGraph.mu", Reads("nodes") ** Maybe(Writes("nodes")) ** Writes("node"))
Lineage_addDependency ==
  Hold("lineageGraph.mu",
    Reads("nodes") ** Maybe(Writes("node"))
      ** Maybe(Writes("edges") ** Reads("nodes") ** Maybe(Writes("node"))))
Lineage_createDataFlow == Hold("mu", Writes("queryFlows"))
Lineage_Process ==
  Hold("tableAccessLog.mu", Writes("entries"))
    \cup Lineage_updateLineageGraph \cup Lineage_createDataFlow \cup Lineage_addDependency
Lineage_cleanupLoop == Hold("tableAccessLog.mu", Writes("entries"))

(* The recursion holds nothing of its own when it descends, so one level   *)
(* stands for all of them.                                                 *)
Lineage_calculateCascadeDepth ==
  Share("lineageGraph.mu", Reads("nodes")) ** Maybe(Reads("node"))

(* It keeps its read lock while the recursion takes another: a writer that *)
(* comes in between waits for the first and keeps the second out.          *)
Lineage_AnalyzeImpact ==
  Share("lineageGraph.mu",
    Reads("nodes") ** Maybe(Reads("node") ** Lineage_calculateCascadeDepth ** Reads("node")))
Lineage_GetTableLineage == Share("lineageGraph.mu", Reads("nodes") ** Maybe(Reads("node")))
Lineage_GetDataFlows == Share("mu", Reads("queryFlows"))
Lineage_GetAccessHistory == Share("tableAccessLog.mu", Reads("entries"))

Lineage_Methods ==
  Lineage_Process \cup Lineage_cleanupLoop \cup Lineage_AnalyzeImpact
    \cup Lineage_GetTableLineage \cup Lineage_GetDataFlows \cup Lineage_GetAccessHistory

-----------------------------------------------------------------------------
(* Connection pool optimizer. connections is the map, connection an entry  *)
(* of it; CurrentPoolSize is a field of poolStats, counts the others.      *)

Optimizer_Process ==
  Hold("poolStats.mu", Writes("counts"))
    \cup Share("poolStats.mu",
           Reads("counts") ** Reads("CurrentPoolSize")
             ** Maybe(Share("predictions.mu", Reads("predictions"))))
Optimizer_ProcessResponse ==
  Hold("poolStats.mu", Writes("counts"))
    \cup Hold("connectionTracker.mu", Reads("connections") ** Maybe(Writes("connection")))
Optimizer_TrackConnection ==
  Hold("connectionTracker.mu",
    Writes("connections")
      ** Hold("poolStats.mu", Writes("counts") ** Writes("CurrentPoolSize")))
Optimizer_ReleaseConnection ==
  Hold("connectionTracker.mu",
    Reads("connections") ** Maybe(Writes("connection"))
      ** Hold("poolStats.mu", Writes("counts")))
(* Mutant: poolStats.mu is taken before connectionTracker.mu.              *)
Optimizer_CloseConnection_StatsFirst ==
  Hold("poolStats.mu",
    Hold("connectionTracker.mu", Writes("connections")) ** Writes("counts"))
Optimizer_CloseConnection ==
  Hold("connectionTracker.mu",
    Writes("connections")
      ** Hold("poolStats.mu", Writes("counts") ** Writes("CurrentPoolSize")))
Optimizer_calculateOptimalPoolSize == Hold("poolStats.mu", Reads("CurrentPoolSize"))
Optimizer_runHealthChecks ==
  Hold("connectionTracker.mu",
    Reads("connections") ** Maybe(Writes("connection"))
      ** Maybe(Writes("connections")
           ** Hold("poolStats.mu", Writes("counts") ** Writes("CurrentPoolSize"))))
Optimizer_updatePredictions ==
  Share("poolStats.mu", Reads("counts")) \cup Hold("predictions.mu", Writes("predictions"))
Optimizer_optimizationLoop ==
  Hold("poolStats.mu", Reads("counts") ** Reads("CurrentPoolSize") ** Writes("counts"))
    \cup Optimizer_calculateOptimalPoolSize
    \cup (Reads("CurrentPoolSize") ** Maybe(Hold("poolStats.mu", Writes("counts"))))
    \cup Optimizer_runHealthChecks \cup Optimizer_updatePredictions
Optimizer_GetPoolStats == Share("poolStats.mu", Reads("counts") ** Reads("CurrentPoolSize"))
Optimizer_GetConnectionHealth ==
  Share("connectionTracker.mu", Reads("connections") ** Maybe(Reads("connection")))
Optimizer_confidence == Share("predictions.mu", Reads("predictions"))

(* Again a read lock inside a read lock.                                   *)
Optimizer_GetLoadPrediction ==
  Share("predictions.mu", Reads("predictions") ** Maybe(Optimizer_confidence))

Optimizer_Methods ==
  Optimizer_Process \cup Optimizer_ProcessResponse \cup Optimizer_TrackConnection
    \cup Optimizer_ReleaseConnection \cup Optimizer_CloseConnection
    \cup Optimizer_optimizationLoop \cup Optimizer_GetPoolStats
    \cup Optimizer_GetConnectionHealth \cup Optimizer_GetLoadPrediction

-----------------------------------------------------------------------------
(* Pool rebalancer. bounds are the MinConns and MaxConns of a pool, counts *)
(* its other fields.                                                       *)

Rebalancer_FindPool == Share("mu", Reads("pools"))

Rebalancer_ProcessResponse == Rebalancer_FindPool \cup Hold("pool.mu", Writes("counts"))
Rebalancer_analyzeAndAdjust ==
  Share("pool.mu", Reads("counts") ** Reads("bounds"))
    \cup (Reads("config") ** Reads("bounds") ** Maybe(Hold("pool.mu", Writes("bounds") ** Writes("counts"))))
Rebalancer_rebalance ==
  Reads("config") \cup Rebalancer_FindPool \cup Rebalancer_analyzeAndAdjust
    \cup Writes("lastRebalance")
Rebalancer_RegisterPool == Hold("mu", Writes("pools"))
Rebalancer_UnregisterPool == Hold("mu", Writes("pools"))
Rebalancer_RecordConnectionAcquired ==
  Rebalancer_FindPool \cup Hold("pool.mu", Writes("counts"))
Rebalancer_RecordConnectionReleased ==
  Rebalancer_FindPool \cup Hold("pool.mu", Writes("counts"))
Rebalancer_RecordWaitTime == Rebalancer_FindPool \cup Hold("pool.mu", Writes("counts"))
Rebalancer_GetPoolStats ==
  Rebalancer_FindPool \cup Share("pool.mu", Reads("bounds") ** Reads("counts"))
Rebalancer_GetAllPoolsStats ==
  Share("mu", Reads("pools") ** Maybe(Share("pool.mu", Reads("bounds") ** Reads("counts"))))
Rebalancer_GetLastRebalanceTime == Reads("lastRebalance")
Rebalancer_SetConfig == Writes("config")
Rebalancer_GetConfig == Reads("config")

Rebalancer_Methods ==
  Rebalancer_ProcessResponse \cup Rebalancer_rebalance \cup Rebalancer_RegisterPool
    \cup Rebalancer_UnregisterPool \cup Rebalancer_RecordConnectionAcquired
    \cup Rebalancer_RecordConnectionReleased \cup Rebalancer_RecordWaitTime
    \cup Rebalancer_GetPoolStats \cup Rebalancer_GetAllPoolsStats
    \cup Rebalancer_GetLastRebalanceTime \cup Rebalancer_SetConfig
    \cup Rebalancer_GetConfig

-----------------------------------------------------------------------------
(* Load balancer. nodes is the map, node an entry of it.                   *)

Balancer_selectNode == Share("mu", Reads("nodes") ** Maybe(Reads("node")))
Balancer_AddNode == Hold("mu", Writes("node") ** Writes("nodes"))
Balancer_Process ==
  Balancer_selectNode
    \cup Hold("mu", Reads("nodes") ** Maybe(Writes("node")))
    \cup Hold("stats.mu", Writes("stats"))
(* Mutant: the node is updated under the read lock.                        *)
Balancer_ProcessResponse_ReadLock ==
  Share("mu", Reads("nodes") ** Maybe(Writes("node"))) \cup Hold("stats.mu", Writes("stats"))
Balancer_ProcessResponse ==
  Hold("mu", Reads("nodes") ** Maybe(Writes("node"))) \cup Hold("stats.mu", Writes("stats"))
Balancer_GetLoadBalanceStats ==
  Share("stats.mu", Share("mu", Reads("nodes")) ** Reads("stats"))

Balancer_Methods ==
  Balancer_AddNode \cup Balancer_Process \cup Balancer_ProcessResponse
    \cup Balancer_GetLoadBalanceStats

-----------------------------------------------------------------------------
EngineMethods ==
  [ ai |-> AI_Methods, ratelimit |-> RateLimit_Methods, tenants |-> Tenant_Methods,
    history |-> History_Methods, versions |-> Version_Methods, hotspots |-> Hotspot_Methods,
    lineage |-> Lineage_Methods, optimizer |-> Optimizer_Methods,
    rebalancer |-> Rebalancer_Methods, balancer |-> Balancer_Methods ]

(* The paths that can hang, alone or when they meet others.                *)
EngineSuspects ==
  [ ai |-> AI_GetInsights,
    ratelimit |-> RateLimit_Count(RateLimit_Score),
    tenants |-> Tenant_Provision,
    history |-> History_GetHistoryStats,
    versions |-> Version_GetVersionStats,
    hotspots |-> Hotspot_GetHotspotStats,
    lineage |-> Lineage_AnalyzeImpact,
    optimizer |-> Optimizer_GetLoadPrediction ]

(* The mutexes that are taken inside others, the outer before the inner.   *)
EngineOrder ==
  [ ai |-> <<"queryStats.mu", "model.mu">>,
    ratelimit |-> <<"clientTracker.mu", "anomalyDetector.mu">>,
    tenants |-> <<"mu", "usage.mu", "quota.mu">>,
    history |-> <<"mu", "stats.mu">>,
    versions |-> <<"mu", "stats.mu">>,
    hotspots |-> <<"mu", "stats.mu">>,
    optimizer |-> <<"connectionTracker.mu", "poolStats.mu", "predictions.mu">>,
    rebalancer |-> <<"mu", "pool.mu">>,
    balancer |-> <<"stats.mu", "mu">> ]

(* What each mutex is there for.                                           *)
EngineGuard ==
  [ ai |-> [Queries |-> "queryStats.mu", weights |-> "model.mu"],
    ratelimit |-> [client |-> "clientTracker.mu", failureCount |-> "circuitBreaker.mu",
                   history |-> "anomalyDetector.mu"],
    tenants |-> [tenants |-> "tenantRegistry.mu", status |-> "tenantRegistry.mu",
                 counters |-> "quota.mu", policy |-> "policy.mu", usage |-> "usage.mu"],
    history |-> [history |-> "mu", index |-> "mu", stats |-> "stats.mu"],
    versions |-> [versions |-> "mu", currentVer |-> "mu", stats |-> "stats.mu"],
    hotspots |-> [entries |-> "accessLog.mu", stats |-> "stats.mu"],
    lineage |-> [entries |-> "tableAccessLog.mu", nodes |-> "lineageGraph.mu",
                 node |-> "lineageGraph.mu", edges |-> "lineageGraph.mu",
                 queryFlows |-> "mu"],
    optimizer |-> [connections |-> "connectionTracker.mu",
                   connection |-> "connectionTracker.mu", counts |-> "poolStats.mu",
                   predictions |-> "predictions.mu"],
    rebalancer |-> [pools |-> "mu", counts |-> "pool.mu"],
    balancer |-> [nodes |-> "mu", node |-> "mu", stats |-> "stats.mu"] ]

(* What is read or written somewhere without the mutex that protects it    *)
(* elsewhere, or with none.                                                *)
EngineRacy ==
  [ ai |-> {"stats", "config"},
    ratelimit |-> {"state", "lastFailure", "clients", "isWhitelisted"},
    tenants |-> {"quotas", "tenantUsage", "accessPolicies", "limits"},
    hotspots |-> {"hotspots", "hotspot"},
    optimizer |-> {"CurrentPoolSize"},
    rebalancer |-> {"bounds", "lastRebalance", "config"} ]
=============================================================================
