----------------------------- MODULE RateLimits -----------------------------
(***************************************************************************)
(* RateLimiter and IPRateLimiter (middleware/ratelimit.go): a token bucket *)
(* for every key or address, made when it is first asked for and deleted   *)
(* by a clean-up, which for RateLimiter judges a bucket by taking a token. *)
(* Keys share nothing but the mutex: there is one key. A bucket is         *)
(* golang.org/x/time/rate's: it holds Burst tokens at most and is refilled *)
(* as time passes.                                                         *)
(***************************************************************************)
EXTENDS Naturals

CONSTANTS
  Askers,         \* goroutines that call Allow
  Burst,          \* tokens of a full bucket
  MaxBuckets,     \* bound of the model: buckets made
  MaxRefills      \* bound of the model: tokens that come back to a bucket

ASSUME LimitsAssumption == Burst \in Nat \ {0} /\ MaxBuckets \in Nat /\ MaxRefills \in Nat

VARIABLES
  limiter,      \* which of the two it is: "key" or "ip"
  bucketsMade,  \* how many buckets were made; they are numbered
  bucket,       \* the one in the map, 0 for none
  tokens,       \* per bucket: the tokens it holds
  admitted,     \* per bucket: the requests it let through
  refilled,     \* per bucket: the tokens that came back
  retired,      \* how many buckets were deleted or replaced
  quiet,        \* nobody has asked for 10 minutes
  cleaning,     \* the clean-up goroutine runs
  asker         \* per asker: [at, bucket, n]

limitsVars == <<limiter, bucketsMade, bucket, tokens, admitted, refilled, retired,
                quiet, cleaning, asker>>

Buckets == 1..MaxBuckets
Away == [at |-> "away", bucket |-> 0, n |-> 0]

LimitsInit ==
  /\ limiter \in {"key", "ip"}
  /\ bucketsMade = 0 /\ bucket = 0 /\ retired = 0
  /\ tokens = [b \in Buckets |-> Burst]
  /\ admitted = [b \in Buckets |-> 0]
  /\ refilled = [b \in Buckets |-> 0]
  /\ quiet = FALSE /\ cleaning = TRUE
  /\ asker = [a \in Askers |-> Away]

(* A new bucket in the map, full as it stands in LimitsInit.               *)
MakeBucket ==
  /\ bucketsMade < MaxBuckets
  /\ bucketsMade' = bucketsMade + 1
  /\ bucket' = bucketsMade + 1

-----------------------------------------------------------------------------
(* RateLimiter.Allow (n = 1) and AllowN: the look-up under the read lock,  *)
(* the making under the write lock, and the taking under neither.          *)
LookUp(a, n) ==
  /\ limiter = "key" /\ asker[a].at = "away"
  /\ asker' = [asker EXCEPT ![a] =
       [at |-> IF bucket = 0 THEN "missed" ELSE "found", bucket |-> bucket, n |-> n]]
  /\ UNCHANGED <<limiter, bucketsMade, bucket, tokens, admitted, refilled, retired,
                 quiet, cleaning>>

(* Mutant: the map is not looked at again under the write lock.            *)
FindOrMake_Blind(a) ==
  /\ asker[a].at = "missed"
  /\ MakeBucket
  /\ asker' = [asker EXCEPT ![a].at = "found", ![a].bucket = bucket']
  /\ UNCHANGED <<limiter, tokens, admitted, refilled, retired, quiet, cleaning>>

FindOrMake(a) ==
  /\ asker[a].at = "missed"
  /\ IF bucket = 0 THEN MakeBucket ELSE UNCHANGED <<bucketsMade, bucket>>
  /\ asker' = [asker EXCEPT ![a].at = "found", ![a].bucket = bucket']
  /\ UNCHANGED <<limiter, tokens, admitted, refilled, retired, quiet, cleaning>>

(* All n tokens or none. *)
TakeTokens(a) ==
  LET b == asker[a].bucket
      n == asker[a].n
  IN  /\ asker[a].at = "found"
      /\ IF tokens[b] >= n
           THEN /\ tokens' = [tokens EXCEPT ![b] = @ - n]
                /\ admitted' = [admitted EXCEPT ![b] = @ + n]
           ELSE UNCHANGED <<tokens, admitted>>
      /\ asker' = [asker EXCEPT ![a] = Away]
      /\ UNCHANGED <<limiter, bucketsMade, bucket, refilled, retired, quiet, cleaning>>

(* Time gives a token back. *)
Refill(b) ==
  /\ b <= bucketsMade
  /\ tokens[b] < Burst /\ refilled[b] < MaxRefills
  /\ tokens' = [tokens EXCEPT ![b] = @ + 1]
  /\ refilled' = [refilled EXCEPT ![b] = @ + 1]
  /\ UNCHANGED <<limiter, bucketsMade, bucket, admitted, retired, quiet, cleaning, asker>>

-----------------------------------------------------------------------------
(* The burst may be less than the configuration's.                         *)
SetLimit(burst) ==
  /\ limiter = "key"
  /\ MakeBucket
  /\ tokens' = [tokens EXCEPT ![bucketsMade + 1] = burst]
  /\ retired' = IF bucket = 0 THEN retired ELSE retired + 1
  /\ UNCHANGED <<limiter, admitted, refilled, quiet, cleaning, asker>>

RemoveLimiter ==
  /\ limiter = "key" /\ bucket # 0
  /\ bucket' = 0
  /\ retired' = retired + 1
  /\ UNCHANGED <<limiter, bucketsMade, tokens, admitted, refilled, quiet, cleaning, asker>>

(* cleanup: one that has a token to give loses it and stays, and one that  *)
(* is exhausted is deleted, so that whoever exhausted it gets a full one.  *)
CleanUp ==
  /\ limiter = "key" /\ cleaning /\ bucket # 0
  /\ IF tokens[bucket] > 0
       THEN /\ tokens' = [tokens EXCEPT ![bucket] = @ - 1]
            /\ UNCHANGED <<bucket, retired>>
       ELSE bucket' = 0 /\ retired' = retired + 1 /\ UNCHANGED tokens
  /\ UNCHANGED <<limiter, bucketsMade, admitted, refilled, quiet, cleaning, asker>>

StopCleaning ==
  /\ cleaning /\ cleaning' = FALSE
  /\ UNCHANGED <<limiter, bucketsMade, bucket, tokens, admitted, refilled, retired,
                 quiet, asker>>

-----------------------------------------------------------------------------
(* IPRateLimiter.Allow: all of it under the mutex.                         *)
IPAllow ==
  /\ limiter = "ip"
  /\ IF bucket = 0 THEN MakeBucket ELSE UNCHANGED <<bucketsMade, bucket>>
  /\ quiet' = FALSE
  /\ IF tokens[bucket'] > 0
       THEN /\ tokens' = [tokens EXCEPT ![bucket'] = @ - 1]
            /\ admitted' = [admitted EXCEPT ![bucket'] = @ + 1]
       ELSE UNCHANGED <<tokens, admitted>>
  /\ UNCHANGED <<limiter, refilled, retired, cleaning, asker>>

TenMinutes ==
  /\ limiter = "ip" /\ ~quiet /\ quiet' = TRUE
  /\ UNCHANGED <<limiter, bucketsMade, bucket, tokens, admitted, refilled, retired,
                 cleaning, asker>>

IPCleanUp ==
  /\ limiter = "ip" /\ cleaning /\ bucket # 0 /\ quiet
  /\ bucket' = 0
  /\ retired' = retired + 1
  /\ UNCHANGED <<limiter, bucketsMade, tokens, admitted, refilled, quiet, cleaning, asker>>

LimitsNext ==
  \/ \E a \in Askers :
       (\E n \in 1..Burst : LookUp(a, n)) \/ FindOrMake(a) \/ TakeTokens(a)
  \/ \E b \in Buckets : Refill(b)
  \/ \E burst \in 1..Burst : SetLimit(burst)
  \/ RemoveLimiter \/ CleanUp \/ StopCleaning
  \/ IPAllow \/ TenMinutes \/ IPCleanUp

LimitsSpec == LimitsInit /\ [][LimitsNext]_limitsVars

-----------------------------------------------------------------------------
(* The variables range over what their declarations say; the bucket in the *)
(* map, or in an asker's hands, was made.                                  *)
LimitsTypeOK ==
  /\ limiter \in {"key", "ip"}
  /\ bucketsMade \in 0..MaxBuckets /\ bucket \in 0..bucketsMade /\ retired \in Nat
  /\ tokens \in [Buckets -> 0..Burst]
  /\ admitted \in [Buckets -> Nat] /\ refilled \in [Buckets -> Nat]
  /\ quiet \in BOOLEAN /\ cleaning \in BOOLEAN
  /\ asker \in [Askers -> [at : {"away", "missed", "found"},
                           bucket : 0..bucketsMade, n : Nat]]
  /\ \A a \in Askers : asker[a].at = "found" => asker[a].bucket # 0

(* What a client is let through for in all. A bucket admits its burst and  *)
(* what time gave back, and no more buckets are made than one and those    *)
(* that were deleted or replaced: two first requests of a client that race *)
(* make one bucket, for which the map is looked at twice. So the limit     *)
(* gives way at a deletion only, and the clean-up deletes the exhausted.   *)
AdmissionBound ==
  /\ \A b \in Buckets : admitted[b] + tokens[b] <= Burst + refilled[b]
  /\ bucketsMade = retired + (IF bucket = 0 THEN 0 ELSE 1)
=============================================================================
