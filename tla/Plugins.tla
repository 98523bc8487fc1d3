------------------------------ MODULE Plugins ------------------------------
(***************************************************************************)
(* PluginManager (plugin/manager.go), which the plugin API                 *)
(* (admin/plugin_api.go) calls for every request in a goroutine of its     *)
(* own. It keeps every plugin in two maps, each with a mutex: the context  *)
(* that runs it and the registry. LoadPlugin and UnloadPlugin change one   *)
(* after the other. Close is the context's alone: it closes what the       *)
(* context runs, empties its map and shuts the runtime, which compiles     *)
(* nothing from then on; the registry is not told. Names share nothing:    *)
(* there is one name. Whether a plugin is enabled is left out.             *)
(***************************************************************************)
EXTENDS Naturals

CONSTANTS
  Requesters,     \* goroutines that load and unload
  MaxPlugins      \* bound of the model: modules compiled

ASSUME PluginsAssumption == MaxPlugins \in Nat

VARIABLES
  compiled,       \* how many modules were compiled; they are numbered
  inContext,      \* the plugin in the context's map, 0 for none
  inRegistry,     \* the plugin in the registry's map, 0 for none, or Nil
  closed,         \* the plugins whose module is closed
  shut,           \* the runtime is closed
  requester,      \* per goroutine: [at, plugin]
  crossed         \* a LoadPlugin has met another call since nobody called

pluginVars == <<compiled, inContext, inRegistry, closed, shut, requester, crossed>>

(* The map has an entry for the name, and it is the nil plugin.            *)
Nil == MaxPlugins + 1
Unoccupied == [at |-> "idle", plugin |-> 0]

PluginsInit ==
  /\ compiled = 0 /\ inContext = 0 /\ inRegistry = 0
  /\ closed = {} /\ shut = FALSE
  /\ requester = [r \in Requesters |-> Unoccupied]
  /\ crossed = FALSE

Quiescent == \A r \in Requesters : requester[r] = Unoccupied
Loading(r) == requester[r].at \in {"loaded", "got"}

(* Two calls that both unload do no harm to each other.                    *)
Enters(loads) ==
  crossed' = IF Quiescent THEN FALSE
             ELSE crossed \/ loads \/ \E r \in Requesters : Loading(r)

Becomes(r, at, plugin) == requester' = [requester EXCEPT ![r] = [at |-> at, plugin |-> plugin]]

-----------------------------------------------------------------------------
(* LoadPlugin: the context compiles and keeps the plugin, forgetting the   *)
(* one it had; then the manager asks the context for it; then the registry *)
(* is told. A module that does not compile, in a closed runtime above all, *)
(* changes nothing; the context's mutex is held from there to its map.     *)
LoadIntoContext(r) ==
  /\ requester[r] = Unoccupied /\ ~shut /\ compiled < MaxPlugins
  /\ compiled' = compiled + 1
  /\ inContext' = compiled + 1
  /\ Becomes(r, "loaded", 0)
  /\ Enters(TRUE)
  /\ UNCHANGED <<inRegistry, closed, shut>>

GetLoaded(r) ==
  /\ requester[r].at = "loaded"
  /\ Becomes(r, "got", IF inContext = 0 THEN Nil ELSE inContext)
  /\ UNCHANGED <<compiled, inContext, inRegistry, closed, shut, crossed>>

(* Mutant: it is registered only if the name is not.                       *)
Register_Once(r) ==
  /\ requester[r].at = "got"
  /\ inRegistry' = IF inRegistry = 0 THEN requester[r].plugin ELSE inRegistry
  /\ Becomes(r, "idle", 0)
  /\ UNCHANGED <<compiled, inContext, closed, shut, crossed>>

Register(r) ==
  /\ requester[r].at = "got"
  /\ inRegistry' = requester[r].plugin
  /\ Becomes(r, "idle", 0)
  /\ UNCHANGED <<compiled, inContext, closed, shut, crossed>>

(* UnloadPlugin: the other way round. *)
Unregister(r) ==
  /\ requester[r] = Unoccupied
  /\ inRegistry' = 0
  /\ Becomes(r, "unregistered", 0)
  /\ Enters(FALSE)
  /\ UNCHANGED <<compiled, inContext, closed, shut>>

UnloadFromContext(r) ==
  /\ requester[r].at = "unregistered"
  /\ inContext' = 0
  /\ closed' = IF inContext = 0 THEN closed ELSE closed \cup {inContext}
  /\ Becomes(r, "idle", 0)
  /\ UNCHANGED <<compiled, inRegistry, shut, crossed>>

Loaded == {inContext} \ {0}

(* Mutant: the modules are closed, and the map keeps them.                 *)
CloseContext_KeepingMap ==
  /\ closed' = closed \cup Loaded
  /\ shut' = TRUE
  /\ UNCHANGED <<compiled, inContext, inRegistry, requester, crossed>>

(* Close: whoever is between two steps goes on with what he has.           *)
CloseContext ==
  /\ closed' = closed \cup Loaded
  /\ inContext' = 0
  /\ shut' = TRUE
  /\ UNCHANGED <<compiled, inRegistry, requester, crossed>>

PluginsNext ==
  \/ CloseContext
  \/ \E r \in Requesters :
       \/ LoadIntoContext(r) \/ GetLoaded(r) \/ Register(r)
       \/ Unregister(r) \/ UnloadFromContext(r)

PluginsSpec == PluginsInit /\ [][PluginsNext]_pluginVars

-----------------------------------------------------------------------------
(* The variables range over what their declarations say.                   *)
PluginsTypeOK ==
  /\ compiled \in 0..MaxPlugins /\ inContext \in 0..compiled
  /\ inRegistry \in 0..compiled \cup {Nil}
  /\ closed \subseteq 1..compiled
  /\ requester \in [Requesters -> [at : {"idle", "loaded", "got", "unregistered"},
                                   plugin : 0..compiled \cup {Nil}]]
  /\ shut \in BOOLEAN /\ crossed \in BOOLEAN

(* The context never runs a closed module. Once nobody is calling the maps *)
(* agree, so that neither is the registered plugin closed nor the entry    *)
(* nil - unless a LoadPlugin has met another call for the name, of which   *)
(* either map may keep what the other has not.                             *)
RunsOpen ==
  /\ inContext \notin closed
  /\ Quiescent /\ ~crossed /\ ~shut => inRegistry = inContext

(* After Close they do not agree: no plugin is run any more, whatever was  *)
(* being loaded, and what the registry still answers for the name has its  *)
(* module closed, or is nil, with the same exception.                      *)
ShutForGood ==
  shut => /\ inContext = 0
          /\ Quiescent /\ ~crossed => inRegistry \in closed \cup {0, Nil}

(* What the two maps say of each other, before Close and after.            *)
MapsAgree == RunsOpen /\ ShutForGood
=============================================================================
