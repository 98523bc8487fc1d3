------------------------------- MODULE Secrets -------------------------------
(***************************************************************************)
(* VaultClient (secrets/manager.go): secrets asked of providers and of the *)
(* Vault and remembered in one map. GetSecret looks into the map under the *)
(* read lock, asks outside with no lock, and remembers what it was told,   *)
(* so that anything may happen in between. What the Vault holds under a    *)
(* path are fields; one of them is remembered, under a name of its own,    *)
(* and the path is as unknown as before: the next call asks again.         *)
(*                                                                         *)
(* The watcher is a client like any other: it calls GetSecret and hands    *)
(* the answer on. A secret's values are numbered as they change outside.   *)
(***************************************************************************)
EXTENDS Integers, FiniteSets

CONSTANTS
  SecretPaths,    \* names under which secrets are asked for and remembered
  Provided,       \* those a provider knows (environment, file)
  FieldsOf,       \* per path: the names of its fields in the Vault
  SecretClients,  \* goroutines in GetSecret, the watcher's among them
  MaxRotations    \* bound of the model: changes of a secret outside

ASSUME SecretsAssumption ==
  /\ Provided \subseteq SecretPaths
  /\ FieldsOf \in [SecretPaths -> SUBSET SecretPaths]
  /\ SecretPaths # {} /\ IsFiniteSet(SecretClients) /\ MaxRotations \in Nat

VARIABLES
  outside,        \* per path: how often its value was changed outside
  secrets,        \* per path: the map's entry, or Unknown
  lastCall,       \* per path: the last call that named it: "none", "set", "delete"
  deletedAt,      \* per path: its value outside when it was last deleted
  kept,           \* per path: times since then that the answer to a call for it
                  \* was remembered under it (a provider's answer, not the Vault's)
  client          \* per client: [at, path, name, value, late]; late are the paths
                  \* set since it missed, or deleted since it was told a value

secretVars == <<outside, secrets, lastCall, deletedAt, kept, client>>

Unknown == [from |-> "nobody", value |-> 0, late |-> FALSE]
AnyPath == CHOOSE p \in SecretPaths : TRUE
NoClient == [at |-> "idle", path |-> AnyPath, name |-> AnyPath, value |-> 0, late |-> {}]

SecretsInit ==
  /\ outside = [p \in SecretPaths |-> 0]
  /\ secrets = [p \in SecretPaths |-> Unknown]
  /\ lastCall = [p \in SecretPaths |-> "none"]
  /\ deletedAt = [p \in SecretPaths |-> 0]
  /\ kept = [p \in SecretPaths |-> 0]
  /\ client = [c \in SecretClients |-> NoClient]

-----------------------------------------------------------------------------
(* A secret gets another value where it comes from.                        *)
Rotate(p) ==
  /\ outside[p] < MaxRotations
  /\ outside' = [outside EXCEPT ![p] = @ + 1]
  /\ UNCHANGED <<secrets, lastCall, deletedAt, kept, client>>

(* Mutant: the map is not looked into first.                               *)
MissSecret_Blind(c, p) ==
  /\ client[c].at = "idle"
  /\ client' = [client EXCEPT ![c] = [NoClient EXCEPT !.at = "asking", !.path = p]]
  /\ UNCHANGED <<outside, secrets, lastCall, deletedAt, kept>>

(* GetSecret: a path that is remembered is answered, and nothing changes.  *)
MissSecret(c, p) ==
  /\ client[c].at = "idle" /\ secrets[p] = Unknown
  /\ client' = [client EXCEPT ![c] = [NoClient EXCEPT !.at = "asking", !.path = p]]
  /\ UNCHANGED <<outside, secrets, lastCall, deletedAt, kept>>

(* The providers are asked first, but may fail; then the Vault, which has  *)
(* fields, in any order; then the call has failed.                         *)
Tell(c, name) ==
  client' = [client EXCEPT ![c].at = "told", ![c].name = name, ![c].value = outside[name]]

AskOutside(c) ==
  LET p == client[c].path
  IN  /\ client[c].at = "asking"
      /\ \/ p \in Provided /\ Tell(c, p)
         \/ \E f \in FieldsOf[p] : Tell(c, f)
         \/ client' = [client EXCEPT ![c] = NoClient]
      /\ UNCHANGED <<outside, secrets, lastCall, deletedAt, kept>>

(* Mutant: the Vault's answer is remembered under the path as well.        *)
Remember_Both(c) ==
  LET n == client[c].name
      entry == [from |-> "outside", value |-> client[c].value, late |-> n \in client[c].late]
  IN  /\ client[c].at = "told"
      /\ secrets' = [secrets EXCEPT ![n] = entry, ![client[c].path] = entry]
      /\ kept' = IF n = client[c].path THEN [kept EXCEPT ![n] = @ + 1] ELSE kept
      /\ client' = [client EXCEPT ![c] = NoClient]
      /\ UNCHANGED <<outside, lastCall, deletedAt>>

(* What a provider knows is remembered under the path, what the Vault has  *)
(* under the path and the name of the field.                               *)
Remember(c) ==
  LET n == client[c].name
  IN  /\ client[c].at = "told"
      /\ secrets' = [secrets EXCEPT ![n] =
           [from |-> "outside", value |-> client[c].value, late |-> n \in client[c].late]]
      /\ kept' = IF n = client[c].path THEN [kept EXCEPT ![n] = @ + 1] ELSE kept
      /\ client' = [client EXCEPT ![c] = NoClient]
      /\ UNCHANGED <<outside, lastCall, deletedAt>>

-----------------------------------------------------------------------------
(* Mutant: what is remembered stays.                                       *)
SetSecret_IfAbsent(p) ==
  /\ secrets' = IF secrets[p] = Unknown
                  THEN [secrets EXCEPT ![p] = [from |-> "caller", value |-> 0, late |-> FALSE]]
                  ELSE secrets
  /\ lastCall' = [lastCall EXCEPT ![p] = "set"]
  /\ client' = [c \in SecretClients |->
       IF client[c].at = "idle" THEN client[c] ELSE [client[c] EXCEPT !.late = @ \cup {p}]]
  /\ UNCHANGED <<outside, deletedAt, kept>>

(* Who has missed by now will remember over what was set.                  *)
SetSecret(p) ==
  /\ secrets' = [secrets EXCEPT ![p] = [from |-> "caller", value |-> 0, late |-> FALSE]]
  /\ lastCall' = [lastCall EXCEPT ![p] = "set"]
  /\ client' = [c \in SecretClients |->
       IF client[c].at = "idle" THEN client[c] ELSE [client[c] EXCEPT !.late = @ \cup {p}]]
  /\ UNCHANGED <<outside, deletedAt, kept>>

(* Who has been told a value by now will remember the one deleted.         *)
DeleteSecret(p) ==
  /\ secrets' = [secrets EXCEPT ![p] = Unknown]
  /\ lastCall' = [lastCall EXCEPT ![p] = "delete"]
  /\ deletedAt' = [deletedAt EXCEPT ![p] = outside[p]]
  /\ kept' = [kept EXCEPT ![p] = 0]
  /\ client' = [c \in SecretClients |->
       IF client[c].at = "told" THEN [client[c] EXCEPT !.late = @ \cup {p}] ELSE client[c]]
  /\ UNCHANGED outside

SecretsNext ==
  \/ \E p \in SecretPaths : Rotate(p) \/ SetSecret(p) \/ DeleteSecret(p)
  \/ \E c \in SecretClients :
       (\E p \in SecretPaths : MissSecret(c, p)) \/ AskOutside(c) \/ Remember(c)

SecretsSpec == SecretsInit /\ [][SecretsNext]_secretVars

-----------------------------------------------------------------------------
(* The variables range over what their declarations say.                   *)
SecretsTypeOK ==
  /\ outside \in [SecretPaths -> 0..MaxRotations]
  /\ secrets \in [SecretPaths ->
       [from : {"nobody", "outside", "caller"}, value : 0..MaxRotations, late : BOOLEAN]]
  /\ lastCall \in [SecretPaths -> {"none", "set", "delete"}]
  /\ deletedAt \in [SecretPaths -> 0..MaxRotations]
  /\ kept \in [SecretPaths -> Nat]
  /\ client \in [SecretClients ->
       [at : {"idle", "asking", "told"}, path : SecretPaths, name : SecretPaths,
        value : 0..MaxRotations, late : SUBSET SecretPaths]]

IsField(p) == \E q \in SecretPaths : p \in FieldsOf[q]

(* The last call has its effect: what SetSecret stored is there, and what  *)
(* DeleteSecret deleted is not. Another value has taken the place of a set *)
(* one only by a client who missed before it was set, or by one that asked *)
(* for the path it is a field of; a value older than the deletion only by  *)
(* a client who had been told it before.                                   *)
LastCallHolds ==
  \A p \in SecretPaths :
    /\ lastCall[p] = "set" =>
         \/ secrets[p].from = "caller"
         \/ secrets[p].from = "outside" /\ (secrets[p].late \/ IsField(p))
    /\ secrets[p].from = "caller" => lastCall[p] = "set"
    /\ (lastCall[p] = "delete" /\ secrets[p].from = "outside") =>
         secrets[p].late \/ secrets[p].value >= deletedAt[p]

(* What a provider has answered is not asked for again: until it is        *)
(* deleted, the answers remembered under the path they were asked for are  *)
(* no more than the clients, who may have missed it together, however      *)
(* often the value changes. Of such a path the watcher, which asks the     *)
(* same way, sees nothing new. The Vault's answers are not among them.     *)
AskedSeldom == \A p \in SecretPaths : kept[p] <= Cardinality(SecretClients)

(* A path that only the Vault knows is never remembered from outside: the  *)
(* Vault's answer is kept under path/field and looked up under the path,   *)
(* so every GetSecret and every tick of the watcher asks the Vault again,  *)
(* until a caller sets the path, which hides the Vault from then on.       *)
VaultUnremembered ==
  \A p \in SecretPaths : secrets[p].from = "outside" => p \in Provided \/ IsField(p)

(* What is remembered was last set, deleted or asked for, seldom when a    *)
(* provider knows it and each time anew when only the Vault does.          *)
SecretsSound == LastCallHolds /\ AskedSeldom /\ VaultUnremembered
=============================================================================
