------------------------------- MODULE Shards -------------------------------
(***************************************************************************)
(* ShardingEngine (engines/sharding_engine.go): the shard of a query is    *)
(* computed from its key and from how many shards there are; what the      *)
(* answer is good for depends on which they are when it is used. Keys of a *)
(* range rule are numbers; hashing is any function of the key.             *)
(***************************************************************************)
EXTENDS Integers, FiniteSets

CONSTANTS
  Routings,               \* queries that are routed
  RangeStart, RangeEnd,   \* the range of the rule
  MaxShards,              \* shards have the numbers 0..MaxShards - 1
  MaxHash                 \* bound of the model: the hashes of keys

ASSUME ShardsAssumption ==
  /\ RangeStart \in Int /\ RangeEnd \in Int /\ RangeStart <= RangeEnd
  /\ MaxShards \in Nat /\ MaxHash \in Nat

VARIABLES
  shards,       \* the numbers of the shards there are
  routing       \* per query: [at, rule, key, count, shard]; count is how
                \* many shards there were when it was routed

shardVars == <<shards, routing>>

Unrouted == [at |-> "new", rule |-> "none", key |-> 0, count |-> 0, shard |-> 0]

ShardsInit ==
  /\ shards = {}
  /\ routing = [q \in Routings |-> Unrouted]

AddShard(id) == shards' = shards \cup {id} /\ UNCHANGED routing
RemoveShard(id) == shards' = shards \ {id} /\ UNCHANGED routing

Count == Cardinality(shards)
Span == RangeEnd - RangeStart + 1

Routed(q, at, rule, key, shard) ==
  /\ routing[q].at = "new"
  /\ routing' = [routing EXCEPT ![q] =
       [at |-> at, rule |-> rule, key |-> key, count |-> Count, shard |-> shard]]
  /\ UNCHANGED shards

-----------------------------------------------------------------------------
(* determineShard. No key, or a list rule: shard 0. *)
FirstShard(q) == Routed(q, "routed", "first", 0, 0)

HashShard(q, hash) ==
  Routed(q, "routed", "hash", hash, IF Count = 0 THEN 0 ELSE hash % Count)

(* Mutant: the width of a shard's part of the range is one short.          *)
RangeShard_Narrow(q, num) ==
  IF num < RangeStart \/ num > RangeEnd THEN Routed(q, "refused", "range", num, 0)
  ELSE IF Count = 0 THEN Routed(q, "routed", "range", num, 0)
  ELSE IF Span - 1 < Count THEN Routed(q, "panicked", "range", num, 0)
  ELSE Routed(q, "routed", "range", num, (num - RangeStart) \div ((Span - 1) \div Count))

(* The width is an integer quotient, and it divides: zero, when there are  *)
(* more shards than keys, is a division by zero.                           *)
RangeShard(q, num) ==
  IF num < RangeStart \/ num > RangeEnd THEN Routed(q, "refused", "range", num, 0)
  ELSE IF Count = 0 THEN Routed(q, "routed", "range", num, 0)
  ELSE IF Span < Count THEN Routed(q, "panicked", "range", num, 0)
  ELSE Routed(q, "routed", "range", num, (num - RangeStart) \div (Span \div Count))

ShardsNext ==
  \/ \E id \in 0..(MaxShards - 1) : AddShard(id) \/ RemoveShard(id)
  \/ \E q \in Routings :
       \/ FirstShard(q)
       \/ \E hash \in 0..MaxHash : HashShard(q, hash)
       \/ \E num \in (RangeStart - 1)..(RangeEnd + 1) : RangeShard(q, num)

ShardsSpec == ShardsInit /\ [][ShardsNext]_shardVars

-----------------------------------------------------------------------------
(* The variables range over what their declarations say.                   *)
ShardsTypeOK ==
  /\ shards \subseteq 0..(MaxShards - 1)
  /\ routing \in [Routings ->
       [at : {"new", "routed", "refused", "panicked"}, rule : {"none", "first", "hash", "range"},
        key : Int, count : 0..MaxShards, shard : Nat]]

(* The last keys of the range, that are left when it is divided.           *)
Leftover(r) == r.rule = "range" /\ r.key - RangeStart >= r.count * (Span \div r.count)

Dense(numbers) == numbers = 0..(Cardinality(numbers) - 1)

(* The shard a query is sent to exists whenever the shards are numbered    *)
(* without a gap and are not fewer than when it was routed, however they   *)
(* changed meanwhile, unless there were none or its key is left over by    *)
(* the division of the range. Routing fails by dividing by zero only when  *)
(* there are more shards than keys.                                        *)
TargetsExist ==
  \A q \in Routings :
    LET r == routing[q]
    IN  /\ r.at = "routed" /\ r.count > 0 /\ ~Leftover(r) /\ Dense(shards) /\ Count >= r.count
             => r.shard \in shards
        /\ r.at = "panicked" => r.count > Span
=============================================================================
