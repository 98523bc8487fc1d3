----------------------------- MODULE QueryCache -----------------------------
(***************************************************************************)
(* CachingEngine (engines/cache_engine.go): answers of SELECTs, kept until *)
(* they expire, are evicted or are invalidated. The cache is looked up     *)
(* when the query comes and filled when its response passes by; the        *)
(* database is asked in between, and anything may happen meanwhile.        *)
(* What is read is known by how often its table had been written.          *)
(***************************************************************************)
EXTENDS Integers, FiniteSets

CONSTANTS
  Keys,           \* the cache keys: [db, table, query]
  Selects,        \* goroutines with a SELECT in the engine
  MaxSize,        \* config.MaxSize
  MaxWrites       \* bound of the model: writes to a table

ASSUME CacheAssumption == Keys # {} /\ MaxSize \in Nat /\ MaxWrites \in Nat

VARIABLES
  written,        \* per key: writes to its table
  invalidated,    \* per key: those before it was last invalidated
  cacheEnabled,   \* config.Enabled
  cache,          \* per key: its entry, or NoEntry
  select          \* per goroutine: [at, key, data, raced]

cacheVars == <<written, invalidated, cacheEnabled, cache, select>>

AnyKey == CHOOSE k \in Keys : TRUE

NoEntry == [data |-> -1, raced |-> FALSE, expired |-> FALSE]
Entries == [data : 0..MaxWrites, raced : BOOLEAN, expired : BOOLEAN]
NoSelect == [at |-> "idle", key |-> AnyKey, data |-> -1, raced |-> FALSE]

CacheInit ==
  /\ written = [k \in Keys |-> 0]
  /\ invalidated = [k \in Keys |-> 0]
  /\ cacheEnabled = TRUE
  /\ cache = [k \in Keys |-> NoEntry]
  /\ select = [s \in Selects |-> NoSelect]

Cached == {k \in Keys : cache[k] # NoEntry}

SameTable(k, l) == k.db = l.db /\ k.table = l.table

-----------------------------------------------------------------------------
(* Somebody writes to the table of k, through the proxy or past it.        *)
WriteTable(k) ==
  /\ written[k] < MaxWrites
  /\ written' = [l \in Keys |-> IF SameTable(k, l) THEN written[l] + 1 ELSE written[l]]
  /\ UNCHANGED <<invalidated, cacheEnabled, cache, select>>

(* Process: a hit answers the query and leaves no key in it, so that its   *)
(* response fills nothing.                                                 *)
LookUpMiss(s, k) ==
  /\ cacheEnabled /\ select[s].at = "idle"
  /\ cache[k] = NoEntry \/ cache[k].expired
  /\ select' = [select EXCEPT ![s].at = "asking", ![s].key = k]
  /\ UNCHANGED <<written, invalidated, cacheEnabled, cache>>

(* The database answers, with data or without. *)
Answer(s) ==
  /\ select[s].at = "asking"
  /\ \/ select' = [select EXCEPT ![s].at = "answered", ![s].data = written[select[s].key]]
     \/ select' = [select EXCEPT ![s] = NoSelect]
  /\ UNCHANGED <<written, invalidated, cacheEnabled, cache>>

(* ProcessResponse. A full cache gives up its oldest entry, even when the  *)
(* key is in it; times to live may be changed, so that one may be any.     *)
Evictions == IF Cardinality(Cached) >= MaxSize /\ Cached # {}
               THEN {{k} : k \in Cached} ELSE {{}}

Store(s) ==
  /\ select[s].at = "answered"
  /\ select' = [select EXCEPT ![s] = NoSelect]
  /\ \/ /\ cacheEnabled
        /\ \E gone \in Evictions :
             cache' = [k \in Keys |->
               CASE k = select[s].key -> [data |-> select[s].data, raced |-> select[s].raced,
                                          expired |-> FALSE]
                 [] k # select[s].key /\ k \in gone -> NoEntry
                 [] OTHER -> cache[k]]
     \/ ~cacheEnabled /\ UNCHANGED cache
  /\ UNCHANGED <<written, invalidated, cacheEnabled>>

Expire(k) ==
  /\ cache[k] # NoEntry /\ ~cache[k].expired
  /\ cache' = [cache EXCEPT ![k].expired = TRUE]
  /\ UNCHANGED <<written, invalidated, cacheEnabled, select>>

SetEnabled ==
  /\ cacheEnabled' = ~cacheEnabled
  /\ UNCHANGED <<written, invalidated, cache, select>>

-----------------------------------------------------------------------------
(* The entries of these keys go; an answer on its way back does not.       *)
Invalidate(keys) ==
  /\ cache' = [k \in Keys |-> IF k \in keys THEN NoEntry ELSE cache[k]]
  /\ invalidated' = [k \in Keys |-> IF k \in keys THEN written[k] ELSE invalidated[k]]
  /\ select' = [s \in Selects |->
                  IF select[s].at = "answered" /\ select[s].key \in keys
                    THEN [select[s] EXCEPT !.raced = TRUE] ELSE select[s]]
  /\ UNCHANGED <<written, cacheEnabled>>

InvalidateTable(k) == Invalidate({l \in Keys : SameTable(k, l)})

(* Mutant: one entry of the database is left.                              *)
InvalidateDatabase_First(k) ==
  /\ cache' = [l \in Keys |-> IF l.db = k.db /\ l # k THEN NoEntry ELSE cache[l]]
  /\ invalidated' = [l \in Keys |-> IF l.db = k.db THEN written[l] ELSE invalidated[l]]
  /\ UNCHANGED <<written, cacheEnabled, select>>

InvalidateDatabase(k) == Invalidate({l \in Keys : l.db = k.db})
Clear == Invalidate(Keys)

CacheNext ==
  \/ \E k \in Keys :
       WriteTable(k) \/ Expire(k) \/ InvalidateTable(k) \/ InvalidateDatabase(k)
  \/ Clear \/ SetEnabled
  \/ \E s \in Selects : (\E k \in Keys : LookUpMiss(s, k)) \/ Answer(s) \/ Store(s)

CacheSpec == CacheInit /\ [][CacheNext]_cacheVars

-----------------------------------------------------------------------------
(* The variables range over what their declarations say; the cache holds   *)
(* no more than it may, or one entry.                                      *)
CacheTypeOK ==
  /\ written \in [Keys -> 0..MaxWrites] /\ invalidated \in [Keys -> 0..MaxWrites]
  /\ cacheEnabled \in BOOLEAN
  /\ cache \in [Keys -> Entries \cup {NoEntry}]
  /\ select \in [Selects ->
       [at : {"idle", "asking", "answered"}, key : Keys,
        data : -1..MaxWrites, raced : BOOLEAN]]
  /\ Cardinality(Cached) <= MaxSize \/ Cardinality(Cached) <= 1

(* An entry older than the last invalidation of its table, database or     *)
(* all - it will be served until it expires - was brought by a query that  *)
(* had its answer when the invalidation came and stored it afterwards.     *)
StaleOnlyByRace ==
  \A k \in Cached : cache[k].data < invalidated[k] => cache[k].raced
=============================================================================
