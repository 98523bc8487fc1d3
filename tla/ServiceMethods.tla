---------------------------- MODULE ServiceMethods ----------------------------
(***************************************************************************)
(* The paths of what stands around the engines: routing, middleware,       *)
(* secrets, plugins, security, the administration interfaces and two       *)
(* protocol handlers, written as in EngineMethods.                         *)
(***************************************************************************)
EXTENDS Sequences, Paths

(* Router. pool is an entry of pools but for its Healthy, which Route      *)
(* reads under mu alone and everybody writes under both mutexes.           *)

Router_findFallback == Reads("pools") ** Maybe(Reads("Healthy"))

(* Counted up under the read lock.                                         *)
Router_roundRobinSelect == Writes("rrCounters")
Router_leastConnSelect == Share("pool.mu", Reads("pool"))
Router_latencySelect == Share("pool.mu", Reads("pool"))
Router_selectFromPool ==
  Reads("strategy")
    ** Maybe(Router_roundRobinSelect \cup Router_leastConnSelect \cup Router_latencySelect)
Router_Route ==
  Share("mu",
    Reads("rules")
      ** Maybe(Reads("pools")
           ** Maybe(Reads("Healthy") ** (Router_findFallback \cup Router_selectFromPool))))
Router_RegisterDatabase == Hold("mu", Writes("pools"))
Router_UnregisterDatabase == Hold("mu", Writes("pools"))
Router_SetDatabaseHealth ==
  Hold("mu", Reads("pools") ** Maybe(Hold("pool.mu", Writes("Healthy"))))
Router_SetDatabaseLatency ==
  Hold("mu", Reads("pools") ** Maybe(Hold("pool.mu", Writes("pool"))))
Router_GetDatabaseStats ==
  Share("mu", Reads("pools") ** Maybe(Share("pool.mu", Reads("pool") ** Reads("Healthy"))))
Router_AddRule == Hold("mu", Writes("rules"))
Router_RemoveRule == Hold("mu", Reads("rules") ** Writes("rules"))
Router_SetStrategy == Hold("mu", Writes("strategy"))
Router_GetPools ==
  Share("mu", Reads("pools") ** Maybe(Share("pool.mu", Reads("pool") ** Reads("Healthy"))))

Router_Methods ==
  Router_Route \cup Router_RegisterDatabase \cup Router_UnregisterDatabase
    \cup Router_SetDatabaseHealth \cup Router_SetDatabaseLatency
    \cup Router_GetDatabaseStats \cup Router_AddRule \cup Router_RemoveRule
    \cup Router_SetStrategy \cup Router_GetPools

-----------------------------------------------------------------------------
(* The router's circuit breaker.                                           *)

Breaker_RecordSuccess == Hold("mu", Writes("failures") ** Writes("state"))
Breaker_RecordFailure ==
  Hold("mu",
    Writes("failures") ** Writes("lastFailure") ** Reads("failures") ** Maybe(Writes("state")))
Breaker_AllowRequest == Hold("mu", Reads("state") ** Maybe(Reads("lastFailure")))
Breaker_GetState == Hold("mu", Reads("state"))

Breaker_Methods ==
  Breaker_RecordSuccess \cup Breaker_RecordFailure \cup Breaker_AllowRequest
    \cup Breaker_GetState

-----------------------------------------------------------------------------
(* The retry policies and their breaker, which have no mutex: the mu of    *)
(* the breaker is an int, counted up and down around a call.               *)

RetryManager_RegisterPolicy == Writes("policies")
RetryManager_GetPolicy == Reads("policies") ** Maybe(Reads("defaultPolicy"))
RetryManager_SetDefaultPolicy == Writes("defaultPolicy")

RetryManager_Methods ==
  RetryManager_RegisterPolicy \cup RetryManager_GetPolicy \cup RetryManager_SetDefaultPolicy

RetryBreaker_Enter ==
  Writes("cb.mu") ** Reads("state")
    ** (Maybe(Reads("lastFailureTime") ** Maybe(Writes("state") ** Writes("successCount")))
          \cup Reads("successCount") ** Maybe(Writes("state") ** Writes("failureCount")))
RetryBreaker_recordFailure ==
  Writes("failureCount") ** Writes("lastFailureTime") ** Maybe(Writes("state"))
RetryBreaker_recordSuccess ==
  Writes("successCount") ** Reads("state") ** Maybe(Writes("state") ** Writes("failureCount"))

(* What it executes comes in between.                                      *)
RetryBreaker_Execute ==
  RetryBreaker_Enter \cup RetryBreaker_recordFailure \cup RetryBreaker_recordSuccess
    \cup Writes("cb.mu")
RetryBreaker_GetState == Reads("state")
RetryBreaker_Reset == Writes("state") ** Writes("failureCount") ** Writes("successCount")

RetryBreaker_Methods ==
  RetryBreaker_Execute \cup RetryBreaker_GetState \cup RetryBreaker_Reset

-----------------------------------------------------------------------------
(* The rate limiters: one per key, one per client address.                 *)

(* Mutant: a new limiter is put into the map under the read lock.          *)
Limiter_Allow_ReadLock == Share("mu", Reads("limiters") ** Maybe(Writes("limiters")))

(* Looked up under the read lock, and made under the write lock.           *)
Limiter_Allow ==
  Share("mu", Reads("limiters")) \cup Hold("mu", Reads("limiters") ** Maybe(Writes("limiters")))
Limiter_AllowN == Limiter_Allow
Limiter_GetLimiter == Share("mu", Reads("limiters"))
Limiter_SetLimit == Hold("mu", Writes("limiters"))
Limiter_RemoveLimiter == Hold("mu", Writes("limiters"))
Limiter_cleanup == Hold("mu", Reads("limiters") ** Maybe(Writes("limiters")))

Limiter_Methods ==
  Limiter_Allow \cup Limiter_AllowN \cup Limiter_GetLimiter \cup Limiter_SetLimit
    \cup Limiter_RemoveLimiter \cup Limiter_cleanup

IPLimiter_Allow == Hold("mu", Reads("limiters") ** Maybe(Writes("limiters")) ** Writes("lastSeen"))
IPLimiter_cleanup ==
  Hold("mu", Reads("limiters") ** Maybe(Reads("lastSeen") ** Maybe(Writes("limiters"))))

IPLimiter_Methods == IPLimiter_Allow \cup IPLimiter_cleanup

-----------------------------------------------------------------------------
(* Secrets: the client of the vault, its watcher, and the static manager.  *)
(* Token is the one in the configuration; the providers, the token and     *)
(* what the watcher watches and calls have no mutex.                       *)

(* What the vault answers is cached with no mutex held.                    *)
Vault_AddProvider == Reads("providers") ** Writes("providers")
Vault_getFromVault == Reads("Token") ** Maybe(Writes("secrets"))
Vault_GetSecret ==
  Share("mu", Reads("secrets"))
    \cup (Reads("providers") ** Maybe(Hold("mu", Writes("secrets")))) \cup Vault_getFromVault
Vault_SetSecret == Hold("mu", Writes("secrets"))
Vault_DeleteSecret == Hold("mu", Writes("secrets"))
Vault_ListSecrets == Share("mu", Reads("secrets"))
Vault_SetVaultToken == Writes("Token")
Vault_GetVaultToken == Reads("Token")

Watcher_AddPath == Reads("paths") ** Writes("paths")
Watcher_SetCallback == Writes("callback")
Watcher_checkSecrets == Reads("paths") ** Maybe(Vault_GetSecret ** Maybe(Reads("callback")))

Vault_Methods ==
  Vault_AddProvider \cup Vault_GetSecret \cup Vault_SetSecret \cup Vault_DeleteSecret
    \cup Vault_ListSecrets \cup Vault_SetVaultToken \cup Vault_GetVaultToken
    \cup Watcher_AddPath \cup Watcher_SetCallback \cup Watcher_checkSecrets

Static_GetSecret == Share("mu", Reads("secrets"))
Static_SetSecret == Hold("mu", Writes("secrets"))
Static_DeleteSecret == Hold("mu", Writes("secrets"))
Static_ListSecrets == Share("mu", Reads("secrets"))

Static_Methods ==
  Static_GetSecret \cup Static_SetSecret \cup Static_DeleteSecret \cup Static_ListSecrets

-----------------------------------------------------------------------------
(* Plugins. The context and the registry have a map and a mutex each; a    *)
(* plugin's enabled and Config are set and read by all of them.            *)

PluginContext_LoadPlugin == Hold("ctx.mu", Writes("plugins"))
PluginContext_UnloadPlugin == Hold("ctx.mu", Reads("plugins") ** Maybe(Writes("plugins")))
PluginContext_GetPlugin == Share("ctx.mu", Reads("plugins"))
PluginContext_ListPlugins == Share("ctx.mu", Reads("plugins"))
PluginContext_ExecutePlugin == PluginContext_GetPlugin \cup Reads("enabled")
PluginContext_Close == Hold("ctx.mu", Reads("plugins") ** Writes("plugins"))
Registry_Register == Hold("registry.mu", Writes("registered"))
Registry_Unregister == Hold("registry.mu", Writes("registered"))
Registry_Get == Share("registry.mu", Reads("registered"))
Registry_RegisterHook == Hold("registry.mu", Reads("hooks") ** Writes("hooks"))

(* The hooks run when the mutex is released.                               *)
Registry_ExecuteHooks == Share("registry.mu", Reads("hooks"))
Plugin_LoadPlugin == PluginContext_LoadPlugin \cup PluginContext_GetPlugin \cup Registry_Register
Plugin_UnloadPlugin == Registry_Unregister \cup PluginContext_UnloadPlugin
Plugin_Enable == Writes("enabled")
Plugin_Disable == Writes("enabled")
Plugin_IsEnabled == Reads("enabled")
Plugin_UpdateConfig == Writes("Config")
Plugin_GetConfig == Reads("Config")
Plugin_reloadPlugin == PluginContext_GetPlugin \cup Plugin_Disable \cup Plugin_Enable

Plugin_Methods ==
  Plugin_LoadPlugin \cup Plugin_UnloadPlugin \cup Plugin_reloadPlugin
    \cup Plugin_Enable \cup Plugin_Disable \cup Plugin_IsEnabled \cup Plugin_UpdateConfig
    \cup Plugin_GetConfig
    \cup PluginContext_ListPlugins \cup PluginContext_ExecutePlugin \cup PluginContext_Close
    \cup Registry_Get \cup Registry_RegisterHook \cup Registry_ExecuteHooks

-----------------------------------------------------------------------------
(* Users, roles and sessions; TLS configurations.                          *)

Rbac_AddUser == Hold("mu", Reads("users") ** Maybe(Writes("users")))
Rbac_RemoveUser == Hold("mu", Reads("users") ** Maybe(Writes("users")))
Rbac_GetUser == Share("mu", Reads("users"))
Rbac_UpdateUser == Hold("mu", Reads("users") ** Maybe(Writes("user")))
Rbac_HasPermission ==
  Share("mu", Reads("users") ** Maybe(Reads("user") ** Maybe(Reads("roles"))))
Rbac_CreateSession ==
  Hold("mu",
    Reads("users")
      ** Maybe(Reads("user") ** Maybe(Writes("sessionCache") ** Writes("user"))))

(* An expired session is deleted under the read lock.                      *)
Rbac_ValidateSession ==
  Share("mu", Reads("sessionCache") ** Maybe(Writes("sessionCache")))
Rbac_RevokeSession == Hold("mu", Writes("sessionCache"))
Rbac_AddRole == Hold("mu", Writes("roles"))
Rbac_ListUsers == Share("mu", Reads("users"))
Rbac_ListRoles == Share("mu", Reads("roles"))

Rbac_Methods ==
  Rbac_AddUser \cup Rbac_RemoveUser \cup Rbac_GetUser \cup Rbac_UpdateUser
    \cup Rbac_HasPermission \cup Rbac_CreateSession \cup Rbac_ValidateSession
    \cup Rbac_RevokeSession \cup Rbac_AddRole \cup Rbac_ListUsers \cup Rbac_ListRoles

Tls_LoadServerTLSConfig == Hold("mu", Writes("serverTLSConfig"))
Tls_GetServerTLSConfig == Share("mu", Reads("serverTLSConfig"))
Tls_LoadClientTLSConfig == Hold("mu", Writes("clientTLSConfigs"))
Tls_GetClientTLSConfig == Share("mu", Reads("clientTLSConfigs"))
Tls_UpdateClientTLSConfig == Hold("mu", Writes("clientTLSConfigs"))
Tls_RemoveClientTLSConfig == Hold("mu", Writes("clientTLSConfigs"))

Tls_Methods ==
  Tls_LoadServerTLSConfig \cup Tls_GetServerTLSConfig \cup Tls_LoadClientTLSConfig
    \cup Tls_GetClientTLSConfig \cup Tls_UpdateClientTLSConfig
    \cup Tls_RemoveClientTLSConfig

-----------------------------------------------------------------------------
(* Administration: the configuration, the policies.                        *)

(* A POST appends to the list under the read lock.                         *)
Config_handleConfig == Share("mu", Reads("cfg") ** Reads("Databases") ** Reads("RoutingRules"))
Config_handleDatabases ==
  Share("mu", Maybe(Reads("cfg") ** Reads("Databases") ** Maybe(Writes("Databases"))))
Config_handleRouting ==
  Share("mu", Maybe(Reads("cfg") ** Reads("RoutingRules") ** Maybe(Writes("RoutingRules"))))
Config_handleSecurity == Share("mu", Maybe(Reads("cfg")))
Config_handleReload == Reads("cfg")
Config_UpdateConfig == Hold("mu", Writes("cfg"))
Config_GetConfig == Share("mu", Reads("cfg"))

Config_Methods ==
  Config_handleConfig \cup Config_handleDatabases \cup Config_handleRouting
    \cup Config_handleSecurity \cup Config_handleReload \cup Config_UpdateConfig
    \cup Config_GetConfig

Policy_AddPolicy == Hold("mu", Writes("policies"))
Policy_UpdatePolicy == Hold("mu", Reads("policies") ** Maybe(Writes("policies")))
Policy_DeletePolicy == Hold("mu", Reads("policies") ** Maybe(Writes("policies")))
Policy_GetPolicy == Share("mu", Reads("policies"))
Policy_ListPolicies == Share("mu", Reads("policies"))
Policy_Evaluate == Share("mu", Reads("policies"))

Policy_Methods ==
  Policy_AddPolicy \cup Policy_UpdatePolicy \cup Policy_DeletePolicy \cup Policy_GetPolicy
    \cup Policy_ListPolicies \cup Policy_Evaluate

-----------------------------------------------------------------------------
(* Query sandbox and query inspector.                                      *)

Validator_updateStats == Hold("stats.mu", Reads("stats") ** Writes("stats"))
Validator_Tally == Hold("stats.mu", Writes("stats"))

(* The configuration is read bare; mu, and in it stats.mu, are for rules.  *)
(* The deferred updateStats comes when mu is released.                     *)
Validator_ValidateQuery ==
  Reads("config") \cup Validator_Tally
    \cup Share("mu", Reads("rules") ** Maybe(Validator_Tally)) \cup Validator_updateStats
Validator_AddRule == Hold("mu", Writes("rules"))
Validator_RemoveRule == Hold("mu", Reads("rules") ** Writes("rules"))
Validator_GetRules == Share("mu", Reads("rules"))
Validator_GetStats == Hold("stats.mu", Reads("stats"))
Validator_ResetStats == Hold("stats.mu", Writes("stats"))
Validator_SetConfig == Hold("mu", Writes("config"))
Validator_GetConfig == Share("mu", Reads("config"))

Validator_Methods ==
  Validator_ValidateQuery \cup Validator_AddRule \cup Validator_RemoveRule
    \cup Validator_GetRules \cup Validator_GetStats \cup Validator_ResetStats
    \cup Validator_SetConfig \cup Validator_GetConfig

Inspector_RecordQuery ==
  Reads("debugMode") \cup Hold("mu", Reads("queries") ** Writes("queries"))
Inspector_GetQueries == Share("mu", Reads("queries"))
Inspector_GetQuery == Share("mu", Reads("queries"))
Inspector_ClearQueries == Hold("mu", Writes("queries"))
Inspector_SetDebugMode == Hold("mu", Writes("debugMode"))
Inspector_IsDebugMode == Share("mu", Reads("debugMode"))
Inspector_ExportToJSON == Share("mu", Reads("queries"))

Inspector_Methods ==
  Inspector_RecordQuery \cup Inspector_GetQueries \cup Inspector_GetQuery
    \cup Inspector_ClearQueries \cup Inspector_SetDebugMode \cup Inspector_IsDebugMode
    \cup Inspector_ExportToJSON

-----------------------------------------------------------------------------
(* The MongoDB and the Redis handler.                                      *)

(* What is returned is looked up once more when the mutex is released.     *)
Mongo_getDatabase ==
  Share("mu", Reads("pools"))
    \cup Hold("mu", Reads("client") ** Maybe(Writes("client")) ** Writes("pools"))
    \cup Reads("pools")
Mongo_GetPool == Share("mu", Reads("pools"))
Mongo_Close == Hold("mu", Reads("client") ** Writes("pools"))

Mongo_Methods == Mongo_getDatabase \cup Mongo_GetPool \cup Mongo_Close

Redis_getClient == Share("mu", Reads("clients")) \cup Hold("mu", Writes("clients"))
Redis_GetClient == Share("mu", Reads("clients"))
Redis_Close == Hold("mu", Reads("clients") ** Writes("clients"))

Redis_Methods == Redis_getClient \cup Redis_GetClient \cup Redis_Close

-----------------------------------------------------------------------------
ServiceMethods ==
  [ router |-> Router_Methods, breaker |-> Breaker_Methods,
    retryManager |-> RetryManager_Methods, retryBreaker |-> RetryBreaker_Methods,
    limiter |-> Limiter_Methods,
    ipLimiter |-> IPLimiter_Methods, vault |-> Vault_Methods, static |-> Static_Methods,
    plugins |-> Plugin_Methods, rbac |-> Rbac_Methods, tls |-> Tls_Methods,
    config |-> Config_Methods, policies |-> Policy_Methods, validator |-> Validator_Methods,
    inspector |-> Inspector_Methods, mongo |-> Mongo_Methods, redis |-> Redis_Methods ]

ServiceOrder == [ router |-> <<"mu", "pool.mu">>, validator |-> <<"mu", "stats.mu">> ]

ServiceGuard ==
  [ router |-> [pools |-> "mu", rules |-> "mu", strategy |-> "mu", Healthy |-> "mu",
                pool |-> "pool.mu"],
    breaker |-> [failures |-> "mu", lastFailure |-> "mu", state |-> "mu"],
    limiter |-> [limiters |-> "mu"],
    ipLimiter |-> [limiters |-> "mu", lastSeen |-> "mu"],
    static |-> [secrets |-> "mu"],
    plugins |-> [plugins |-> "ctx.mu", registered |-> "registry.mu", hooks |-> "registry.mu"],
    rbac |-> [users |-> "mu", user |-> "mu", roles |-> "mu"],
    tls |-> [serverTLSConfig |-> "mu", clientTLSConfigs |-> "mu"],
    policies |-> [policies |-> "mu"],
    validator |-> [rules |-> "mu", stats |-> "stats.mu"],
    inspector |-> [queries |-> "mu"],
    mongo |-> [client |-> "mu"],
    redis |-> [clients |-> "mu"] ]

ServiceRacy ==
  [ router |-> {"rrCounters"}, retryManager |-> {"policies", "defaultPolicy"},
    retryBreaker |-> {"cb.mu", "state", "lastFailureTime", "successCount", "failureCount"},
    vault |-> {"secrets", "providers", "Token", "paths", "callback"},
    plugins |-> {"enabled", "Config"},
    rbac |-> {"sessionCache"}, config |-> {"cfg", "Databases", "RoutingRules"},
    validator |-> {"config"}, inspector |-> {"debugMode"}, mongo |-> {"pools"} ]
=============================================================================
