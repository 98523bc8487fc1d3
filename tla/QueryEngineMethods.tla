-------------------------- MODULE QueryEngineMethods --------------------------
(***************************************************************************)
(* The paths of the engines that keep something about the queries that     *)
(* pass, written as in EngineMethods. In most of them mu protects the      *)
(* engine's map or list and stats.mu its counters. What a method does to   *)
(* an object before it puts it where others find it is its own.            *)
(***************************************************************************)
EXTENDS Sequences, Paths

(* The counters, as every engine with a stats.mu raises and reads them.    *)
Counts == Hold("stats.mu", Writes("stats"))
ReadsStats == Share("stats.mu", Reads("stats"))

-----------------------------------------------------------------------------
(* Query cache. config is what SetConfig replaces, Enabled and TTL the     *)
(* fields of it that are set alone.                                        *)

Cache_getCacheEntry == Share("mu", Reads("cache"))
Cache_setCacheEntry == Hold("mu", Reads("cache") ** Reads("config") ** Writes("cache"))
Cache_Process == (Reads("config") ** Reads("Enabled")) \cup Cache_getCacheEntry
Cache_ProcessResponse ==
  (Reads("config") ** Reads("Enabled") ** Maybe(Reads("TTL"))) \cup Cache_setCacheEntry
Cache_InvalidateDatabase == Hold("mu", Reads("cache") ** Maybe(Writes("cache")))
Cache_InvalidateTable == Hold("mu", Reads("cache") ** Maybe(Writes("cache")))
Cache_Clear == Hold("mu", Writes("cache"))
Cache_GetStats ==
  Share("mu", Reads("cache") ** Reads("config") ** Reads("TTL") ** Reads("Enabled"))
Cache_SetConfig == Writes("config")
Cache_SetEnabled == Reads("config") ** Maybe(Writes("Enabled"))
Cache_SetTTL == Reads("config") ** Maybe(Writes("TTL"))

Cache_Methods ==
  Cache_Process \cup Cache_ProcessResponse \cup Cache_InvalidateDatabase
    \cup Cache_InvalidateTable \cup Cache_Clear \cup Cache_GetStats
    \cup Cache_SetConfig \cup Cache_SetEnabled \cup Cache_SetTTL

-----------------------------------------------------------------------------
(* Change data capture. Of a subscriber only LastAck changes once it is    *)
(* added.                                                                  *)

Cdc_AddSubscriber == Hold("mu", Writes("subscribers"))
Cdc_Process == Hold("changeLog.mu", Reads("events") ** Writes("events")) \cup Counts
Cdc_publishEvent == Share("mu", Reads("subscribers"))

(* A goroutine for each event and subscriber.                              *)
Cdc_publishToSubscriber == Counts \cup Writes("LastAck")
Cdc_ProcessResponse == Cdc_publishEvent \cup Counts
Cdc_GetCDCStats == ReadsStats
Cdc_GetSubscribers ==
  Share("mu", Reads("subscribers") ** Maybe(Reads("LastAck")))

Cdc_Methods ==
  Cdc_AddSubscriber \cup Cdc_Process \cup Cdc_ProcessResponse
    \cup Cdc_publishToSubscriber \cup Cdc_GetCDCStats \cup Cdc_GetSubscribers

-----------------------------------------------------------------------------
(* Query priority. Each of the four queues has a mutex of its own.         *)

Priority_Enqueue == Hold("queue.mu", Reads("items") ** Maybe(Writes("items")))
Priority_Dequeue == Hold("queue.mu", Reads("items") ** Maybe(Writes("items")))
Priority_GetQueueSize == Hold("queue.mu", Reads("items"))
Priority_GetAllQueueSizes == Hold("queue.mu", Reads("items"))

(* Mutant: the deferred Unlock of a loop body that also unlocks by hand.   *)
Priority_SetPriority_TwoUnlocks ==
  Hold("queue.mu", Reads("items") ** Writes("items")) ** {<<Step("Unlock", "queue.mu")>>}

(* The query is out of one queue before the other is locked.               *)
Priority_SetPriority ==
  Hold("queue.mu", Reads("items") ** Maybe(Writes("items")))
    \cup Hold("queue.mu", Writes("items"))
Priority_ClearQueues == Hold("queue.mu", Writes("items"))

Priority_Methods ==
  Priority_Enqueue \cup Priority_Dequeue \cup Priority_GetQueueSize
    \cup Priority_GetAllQueueSizes \cup Priority_SetPriority \cup Priority_ClearQueues

-----------------------------------------------------------------------------
(* Query timeout. The monitor of a query writes to the query's Metadata    *)
(* while the query goes on.                                                *)

Timeout_getTimeout == Reads("config")
Timeout_Process == Timeout_getTimeout \cup Hold("mu", Writes("activeQueries"))
Timeout_ProcessResponse == Hold("mu", Writes("activeQueries")) \cup Reads("Metadata")
Timeout_handleTimeout ==
  Hold("mu", Reads("activeQueries")) \cup Reads("config") \cup Writes("Metadata")
Timeout_handleSlowQuery == Writes("Metadata")
Timeout_monitorQuery ==
  Reads("config") \cup Timeout_handleTimeout \cup Timeout_handleSlowQuery
Timeout_GetActiveQueries == Share("mu", Reads("activeQueries"))
Timeout_CancelQuery ==
  Hold("mu",
    Reads("activeQueries") ** Maybe(Reads("Metadata") ** Maybe(Writes("activeQueries"))))
Timeout_SetConfig == Writes("config")
Timeout_GetConfig == Reads("config")

Timeout_Methods ==
  Timeout_Process \cup Timeout_ProcessResponse \cup Timeout_monitorQuery
    \cup Timeout_GetActiveQueries \cup Timeout_CancelQuery \cup Timeout_SetConfig
    \cup Timeout_GetConfig

-----------------------------------------------------------------------------
(* Retry intelligence.                                                     *)

(* An open breaker becomes half-open under the read lock.                  *)
Retry_isCircuitClosed ==
  Share("circuitBreaker.mu",
    Reads("State") ** Maybe(Reads("LastFailureTime") ** Maybe(Writes("State"))))
Retry_recordFailure ==
  Hold("circuitBreaker.mu",
    Writes("FailureCount") ** Writes("LastFailureTime") ** Maybe(Writes("State")))
Retry_recordSuccess ==
  Hold("circuitBreaker.mu",
    Writes("SuccessCount") ** Reads("State")
      ** Maybe(Writes("State") ** Writes("FailureCount") ** Writes("SuccessCount")))
Retry_Process == Retry_isCircuitClosed \cup Counts
Retry_ProcessResponse == Retry_recordFailure \cup Retry_recordSuccess \cup Counts
Retry_AddRetryPolicy == Hold("mu", Writes("retryPolicies"))
Retry_GetRetryStats ==
  Share("stats.mu", Share("circuitBreaker.mu", Reads("State")) ** Reads("stats"))

Retry_Methods ==
  Retry_Process \cup Retry_ProcessResponse \cup Retry_AddRetryPolicy \cup Retry_GetRetryStats

-----------------------------------------------------------------------------
(* Sharding. shards is the map, Healthy a field of an entry of it.         *)

Sharding_findMatchingRule == Reads("shardRules")
Sharding_hashShard == Share("mu", Reads("shards"))
Sharding_rangeShard == Share("mu", Reads("shards"))
Sharding_determineShard ==
  Sharding_findMatchingRule \cup Sharding_hashShard \cup Sharding_rangeShard
Sharding_Process == Reads("config") \cup Sharding_determineShard
Sharding_AddShard == Hold("mu", Writes("shards"))
Sharding_RemoveShard == Hold("mu", Writes("shards"))
Sharding_GetShard == Share("mu", Reads("shards"))
Sharding_ListShards == Share("mu", Reads("shards"))
Sharding_AddRule == Hold("mu", Writes("shardRules"))
Sharding_RemoveRule == Hold("mu", Reads("shardRules") ** Writes("shardRules"))
Sharding_GetRules == Share("mu", Reads("shardRules"))
Sharding_SetShardHealth ==
  Share("mu", Reads("shards")) \cup Hold("shard.mu", Writes("Healthy"))
Sharding_GetShardStats ==
  Share("mu", Reads("shards") ** Maybe(Share("shard.mu", Reads("Healthy"))))
Sharding_GetStats == Share("shard.mu", Reads("Healthy"))
Sharding_SetConfig == Writes("config")
Sharding_GetConfig == Reads("config")

Sharding_Methods ==
  Sharding_Process \cup Sharding_AddShard \cup Sharding_RemoveShard
    \cup Sharding_GetShard \cup Sharding_ListShards \cup Sharding_AddRule
    \cup Sharding_RemoveRule \cup Sharding_GetRules \cup Sharding_SetShardHealth
    \cup Sharding_GetShardStats \cup Sharding_GetStats \cup Sharding_SetConfig
    \cup Sharding_GetConfig

-----------------------------------------------------------------------------
(* Batch processing, compression, time series: little but counters.        *)

Batch_Process == Counts
Batch_GetBatchStats == ReadsStats
Batch_Methods == Batch_Process \cup Batch_GetBatchStats

TimeSeries_Process == Counts
TimeSeries_ProcessResponse == Counts
TimeSeries_GetTimeSeriesStats == ReadsStats
TimeSeries_Methods ==
  TimeSeries_Process \cup TimeSeries_ProcessResponse \cup TimeSeries_GetTimeSeriesStats

(* No method reads the rules.                                              *)
Compression_AddCompressionRule == Hold("mu", Writes("columnRules"))
Compression_ProcessResponse == Counts
Compression_CompressValue == Hold("stats.mu", Reads("stats") ** Writes("stats"))
Compression_GetCompressionStats == ReadsStats
Compression_Methods ==
  Compression_AddCompressionRule \cup Compression_ProcessResponse
    \cup Compression_CompressValue \cup Compression_GetCompressionStats

-----------------------------------------------------------------------------
(* Validation, encryption, translation: rules that any query reads.        *)

Validation_AddValidationRule == Hold("mu", Writes("rules"))
Validation_getRulesForTable == Share("mu", Reads("rules"))

(* Strict or not, stats.mu is released once.                               *)
Validation_Process == Validation_getRulesForTable \cup Counts
Validation_GetValidationStats == ReadsStats
Validation_Methods ==
  Validation_AddValidationRule \cup Validation_Process \cup Validation_GetValidationStats

Encryption_GetKey == Share("keyStore.mu", Reads("keys"))
Encryption_EncryptValue == Encryption_GetKey
Encryption_DecryptValue == Encryption_GetKey
Encryption_AddEncryptionRule == Hold("mu", Writes("columnRules"))
Encryption_findApplicableRules == Share("mu", Reads("columnRules"))
Encryption_Process == Encryption_findApplicableRules \cup Counts
Encryption_GetEncryptionStats == ReadsStats
Encryption_Methods ==
  Encryption_EncryptValue \cup Encryption_DecryptValue \cup Encryption_AddEncryptionRule
    \cup Encryption_Process \cup Encryption_GetEncryptionStats

Translation_AddTranslationRule == Hold("mu", Writes("translations"))
Translation_translateQuery == Share("mu", Reads("translations"))
Translation_Process == Translation_translateQuery \cup Counts
Translation_ProcessResponse == Counts
Translation_GetTranslationStats == ReadsStats
Translation_Methods ==
  Translation_AddTranslationRule \cup Translation_Process
    \cup Translation_ProcessResponse \cup Translation_GetTranslationStats

Rewrite_AddCustomRule == Hold("mu", Reads("rewriteRules") ** Writes("rewriteRules"))
Rewrite_Process == Counts
Rewrite_ProcessResponse == Counts
Rewrite_GetRewriteStats == ReadsStats
Rewrite_Methods ==
  Rewrite_AddCustomRule \cup Rewrite_Process \cup Rewrite_ProcessResponse
    \cup Rewrite_GetRewriteStats

-----------------------------------------------------------------------------
(* Federation, graph, cost, shadow.                                        *)

Federation_AddShard == Hold("mu", Writes("shardMap"))
Federation_determineTargetShard == Share("mu", Reads("shardMap"))
Federation_Process == Federation_determineTargetShard \cup Counts
Federation_ProcessResponse == Counts
Federation_GetFederationStats == ReadsStats
Federation_GetShards == Share("mu", Reads("shardMap"))
Federation_Methods ==
  Federation_AddShard \cup Federation_Process \cup Federation_ProcessResponse
    \cup Federation_GetFederationStats \cup Federation_GetShards

(* The cache is looked up bare.                                            *)
Graph_Process == Counts \cup Reads("traversalCache")
Graph_ProcessResponse == Hold("mu", Writes("traversalCache"))
Graph_AddNode == Hold("mu", Writes("nodeCache"))
Graph_AddEdge == Hold("mu", Writes("edgeCache"))
Graph_GetGraphStats == ReadsStats
Graph_Methods ==
  Graph_Process \cup Graph_ProcessResponse \cup Graph_AddNode \cup Graph_AddEdge
    \cup Graph_GetGraphStats

(* Blocked or not, stats.mu is released once.                              *)
Cost_Process == Counts \cup Hold("mu", Writes("queryCosts"))
Cost_GetEstimatedCosts == Share("mu", Reads("queryCosts"))
Cost_GetCostEstimatorStats == ReadsStats
Cost_Methods == Cost_Process \cup Cost_GetEstimatedCosts \cup Cost_GetCostEstimatorStats

Shadow_AddShadowDatabase == Hold("mu", Writes("targetDBs"))
Shadow_determineTargetDB == Share("mu", Reads("matchRules") ** Maybe(Reads("targetDBs")))
Shadow_Process == Shadow_determineTargetDB \cup Counts
Shadow_ProcessResponse == Counts
Shadow_AddMatchRule == Hold("mu", Reads("matchRules") ** Writes("matchRules"))
Shadow_GetShadowStats == ReadsStats
Shadow_GetTargetDatabases == Share("mu", Reads("targetDBs"))
Shadow_Methods ==
  Shadow_AddShadowDatabase \cup Shadow_Process \cup Shadow_ProcessResponse
    \cup Shadow_AddMatchRule \cup Shadow_GetShadowStats \cup Shadow_GetTargetDatabases

-----------------------------------------------------------------------------
(* Query insights. The patterns are under the engine's mu, not under the   *)
(* mutex of their store.                                                   *)

Insights_recordSlowQuery == Hold("slowQueryLog.mu", Reads("queries") ** Writes("queries"))
Insights_generateIndexRecommendations ==
  Hold("indexRecs.mu", Reads("recommendations") ** Writes("recommendations"))
Insights_Process ==
  Hold("mu",
    Reads("patterns") ** Writes("patterns")
      ** Maybe(Insights_recordSlowQuery)
      ** Maybe(Insights_generateIndexRecommendations))
Insights_ProcessResponse == Share("mu", Reads("patterns"))
Insights_cleanupLoop == Hold("mu", Reads("patterns") ** Maybe(Writes("patterns")))
Insights_GetSlowQueries == Share("slowQueryLog.mu", Reads("queries"))

(* It returns the list itself, whose elements Process changes in place.    *)
Insights_GetIndexRecommendations ==
  Share("indexRecs.mu", Reads("recommendations"))
Insights_GetTopQueries == Share("mu", Reads("patterns"))

Insights_Methods ==
  Insights_Process \cup Insights_ProcessResponse \cup Insights_cleanupLoop
    \cup Insights_GetSlowQueries \cup Insights_GetIndexRecommendations
    \cup Insights_GetTopQueries

-----------------------------------------------------------------------------
(* Query sandbox engine. session is an entry of sandboxQueries; a preview  *)
(* is logged once more after others can find it.                           *)

Sandbox_logSession == Reads("session") ** Hold("mu", Writes("queryHistory"))
Sandbox_Process == Sandbox_logSession \cup Hold("mu", Writes("sandboxQueries"))
Sandbox_ProcessResponse == Hold("mu", Reads("sandboxQueries") ** Maybe(Writes("session")))
Sandbox_SimulateRollback == Share("mu", Reads("sandboxQueries")) \cup Reads("session")
Sandbox_GetSession == Share("mu", Reads("sandboxQueries") ** Maybe(Reads("session")))
Sandbox_GetHistory == Share("mu", Reads("queryHistory"))
Sandbox_EnableSimulation == Hold("mu", Reads("sandboxQueries") ** Maybe(Writes("session")))

Sandbox_Methods ==
  Sandbox_Process \cup Sandbox_ProcessResponse \cup Sandbox_SimulateRollback
    \cup Sandbox_GetSession \cup Sandbox_GetHistory \cup Sandbox_EnableSimulation

-----------------------------------------------------------------------------
(* Schema intelligence.                                                    *)

Schema_updateTableMetadata == Hold("mu", Reads("tableMetadata") ** Writes("tableMetadata"))
Schema_checkDeprecatedUsage == Share("mu", Reads("deprecatedItems"))
Schema_Process ==
  Hold("mu", Reads("changeHistory") ** Writes("changeHistory"))
    \cup Schema_updateTableMetadata \cup Schema_checkDeprecatedUsage
Schema_MarkAsDeprecated ==
  Hold("mu", Writes("deprecatedItems") ** Reads("tableMetadata") ** Maybe(Writes("tableMetadata")))
Schema_GetTableMetadata == Share("mu", Reads("tableMetadata"))
Schema_GetChangeHistory == Share("mu", Reads("changeHistory"))
Schema_GetDeprecationWarnings == Share("mu", Reads("deprecatedItems"))
Schema_CheckQueryCompatibility == Share("mu", Maybe(Reads("tableMetadata")))

Schema_Methods ==
  Schema_Process \cup Schema_MarkAsDeprecated \cup Schema_GetTableMetadata
    \cup Schema_GetChangeHistory \cup Schema_GetDeprecationWarnings
    \cup Schema_CheckQueryCompatibility

-----------------------------------------------------------------------------
(* Audit. A list of rules is replaced and never changed in place, so       *)
(* checkCompliance may go through the one it has seen. SetConfig takes mu, *)
(* and no query does before it reads the configuration.                    *)

Audit_addRecord == Hold("mu", Reads("records") ** Writes("records"))
Audit_checkCompliance == Share("mu", Reads("complianceRules"))
Audit_Process == Reads("config") \cup Audit_addRecord \cup Audit_checkCompliance
Audit_ProcessResponse == Reads("config") \cup Audit_addRecord
Audit_AddComplianceRule == Hold("mu", Writes("complianceRules"))
Audit_RemoveComplianceRule == Hold("mu", Reads("complianceRules") ** Writes("complianceRules"))
Audit_GetRecords == Share("mu", Reads("records"))
Audit_ExportToJSON == Share("mu", Reads("records"))
Audit_ClearOldRecords == Hold("mu", Reads("records") ** Writes("records"))
Audit_SetConfig == Hold("mu", Writes("config"))
Audit_GetConfig == Share("mu", Reads("config"))

Audit_Methods ==
  Audit_Process \cup Audit_ProcessResponse \cup Audit_AddComplianceRule
    \cup Audit_RemoveComplianceRule \cup Audit_GetRecords \cup Audit_ExportToJSON
    \cup Audit_ClearOldRecords \cup Audit_SetConfig \cup Audit_GetConfig

-----------------------------------------------------------------------------
QueryEngineMethods ==
  [ cache |-> Cache_Methods, cdc |-> Cdc_Methods, priority |-> Priority_Methods,
    timeout |-> Timeout_Methods, retry |-> Retry_Methods, sharding |-> Sharding_Methods,
    batch |-> Batch_Methods, timeseries |-> TimeSeries_Methods,
    compression |-> Compression_Methods, validation |-> Validation_Methods,
    encryption |-> Encryption_Methods, translation |-> Translation_Methods,
    rewrite |-> Rewrite_Methods, federation |-> Federation_Methods, graph |-> Graph_Methods,
    cost |-> Cost_Methods, shadow |-> Shadow_Methods, insights |-> Insights_Methods,
    sandbox |-> Sandbox_Methods, schema |-> Schema_Methods, audit |-> Audit_Methods ]

QueryEngineOrder ==
  [ retry |-> <<"stats.mu", "circuitBreaker.mu">>,
    sharding |-> <<"mu", "shard.mu">>,
    insights |-> <<"mu", "slowQueryLog.mu", "indexRecs.mu">> ]

QueryEngineGuard ==
  [ cache |-> [cache |-> "mu"],
    cdc |-> [subscribers |-> "mu", events |-> "changeLog.mu", stats |-> "stats.mu"],
    priority |-> [items |-> "queue.mu"],
    timeout |-> [activeQueries |-> "mu"],
    retry |-> [FailureCount |-> "circuitBreaker.mu", SuccessCount |-> "circuitBreaker.mu",
               LastFailureTime |-> "circuitBreaker.mu", retryPolicies |-> "mu",
               stats |-> "stats.mu"],
    sharding |-> [shards |-> "mu", Healthy |-> "shard.mu"],
    batch |-> [stats |-> "stats.mu"],
    timeseries |-> [stats |-> "stats.mu"],
    compression |-> [columnRules |-> "mu", stats |-> "stats.mu"],
    validation |-> [rules |-> "mu", stats |-> "stats.mu"],
    encryption |-> [keys |-> "keyStore.mu", columnRules |-> "mu", stats |-> "stats.mu"],
    translation |-> [translations |-> "mu", stats |-> "stats.mu"],
    rewrite |-> [rewriteRules |-> "mu", stats |-> "stats.mu"],
    federation |-> [shardMap |-> "mu", stats |-> "stats.mu"],
    graph |-> [nodeCache |-> "mu", edgeCache |-> "mu", stats |-> "stats.mu"],
    cost |-> [queryCosts |-> "mu", stats |-> "stats.mu"],
    shadow |-> [targetDBs |-> "mu", matchRules |-> "mu", stats |-> "stats.mu"],
    insights |-> [patterns |-> "mu", queries |-> "slowQueryLog.mu",
                  recommendations |-> "indexRecs.mu"],
    sandbox |-> [queryHistory |-> "mu", sandboxQueries |-> "mu"],
    schema |-> [changeHistory |-> "mu", tableMetadata |-> "mu", deprecatedItems |-> "mu"],
    audit |-> [records |-> "mu", complianceRules |-> "mu"] ]

QueryEngineRacy ==
  [ cache |-> {"config", "Enabled", "TTL"}, cdc |-> {"LastAck"},
    timeout |-> {"Metadata", "config"}, retry |-> {"State"},
    sharding |-> {"shardRules", "config"}, graph |-> {"traversalCache"}, sandbox |-> {"session"},
    audit |-> {"config"} ]
=============================================================================
