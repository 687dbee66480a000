------------------------------ MODULE BurstLimiter ------------------------------
(***************************************************************************)
(* The bucket of one key in BucketedRateLimiter                            *)
(* (packages/core/src/utils/bucketed-rate-limiter.ts), which limits the    *)
(* exceptions of one type, the mutations of one node and the actions of    *)
(* one store.  Keys do not affect each other.                              *)
(*                                                                         *)
(* Time is counted in ticks, relative to the last refill; an age of more   *)
(* than fills the bucket is cut by whole intervals.                        *)
(***************************************************************************)
EXTENDS Integers

CONSTANTS
    BucketSize,      \* _bucketSize
    RefillRate,      \* _refillRate
    RefillInterval,  \* _refillInterval, in ticks
    MaxWatch         \* bound: ticks of the window that is watched

\* The constructor clamps the rate to the size.
ASSUME LimiterAssumption ==
    /\ BucketSize \in Nat \ {0} /\ RefillRate \in 1..BucketSize
    /\ RefillInterval \in Nat \ {0} /\ MaxWatch \in Nat

VARIABLES
    bucket,   \* tokens, and the age of lastAccess; no bucket before the first call
    watch,    \* history: ticks since a chosen moment, and the calls let through since
    waited,   \* history: ticks of the present burst since a call was let through
    idle      \* history: ticks since the last call, up to a rest

blVars == <<bucket, watch, waited, idle>>

NoBucket == [tokens |-> -1, age |-> 0]
FullAge == BucketSize * RefillInterval
MaxWait == 3 * RefillInterval
RestTicks == 2 * RefillInterval

LimiterTypeOK ==
    /\ bucket \in [tokens : 0..BucketSize, age : 0..(FullAge + RefillInterval)] \cup {NoBucket}
    /\ watch \in [ticks : 0..MaxWatch, passed : Nat]
    /\ waited \in 0..MaxWait /\ idle \in 0..RestTicks

LimiterInit ==
    /\ bucket = NoBucket
    /\ watch = [ticks |-> 0, passed |-> 0] /\ waited = 0 /\ idle = 0

--------------------------------------------------------------------------------
\* Mutant: lastAccess is set to now by every call.
AppliedRefillForgetful(b) ==
    [tokens |-> IF b.age >= RefillInterval
                THEN IF b.tokens + (b.age \div RefillInterval) * RefillRate < BucketSize
                     THEN b.tokens + (b.age \div RefillInterval) * RefillRate ELSE BucketSize
                ELSE b.tokens,
     age    |-> 0]

\* _applyRefill: whole intervals count, and the rest of the age is kept.
AppliedRefill(b) ==
    LET intervals == b.age \div RefillInterval
        refilled == b.tokens + intervals * RefillRate IN
    [tokens |-> IF refilled < BucketSize THEN refilled ELSE BucketSize,
     age    |-> b.age - intervals * RefillInterval]

\* consumeRateLimit: the call that takes the last token is refused, too.
ConsumeRateLimit ==
    LET b == IF bucket = NoBucket THEN [tokens |-> BucketSize, age |-> 0]
                                  ELSE AppliedRefill(bucket)
        left == IF b.tokens = 0 THEN 0 ELSE b.tokens - 1 IN
    /\ bucket' = [b EXCEPT !.tokens = left]
    /\ watch' = IF left = 0 THEN watch ELSE [watch EXCEPT !.passed = @ + 1]
    /\ waited' = IF left = 0 THEN waited ELSE 0
    /\ idle' = 0

\* stop.
StopLimiter ==
    /\ bucket # NoBucket
    /\ bucket' = NoBucket
    /\ watch' = [ticks |-> 0, passed |-> 0] /\ waited' = 0
    /\ UNCHANGED idle

\* Date.now advances.  A burst ends with an interval without calls.
LimiterTick ==
    /\ watch.ticks < MaxWatch
    /\ watch' = [watch EXCEPT !.ticks = @ + 1]
    /\ idle' = IF idle < RestTicks THEN idle + 1 ELSE idle
    /\ waited' = IF idle' >= RefillInterval THEN 0
                 ELSE IF waited < MaxWait THEN waited + 1 ELSE waited
    /\ bucket' = IF bucket = NoBucket THEN bucket
                 ELSE [bucket EXCEPT !.age = IF @ + 1 < FullAge + RefillInterval THEN @ + 1
                                             ELSE @ + 1 - RefillInterval]

\* The window to watch begins anew at any moment.
WatchFromNow ==
    /\ watch # [ticks |-> 0, passed |-> 0]
    /\ watch' = [ticks |-> 0, passed |-> 0]
    /\ UNCHANGED <<bucket, waited, idle>>

LimiterNext == ConsumeRateLimit \/ StopLimiter \/ LimiterTick \/ WatchFromNow

LimiterSpec == LimiterInit /\ [][LimiterNext]_blVars

--------------------------------------------------------------------------------
(* Properties *)

\* In any window of time the calls let through are fewer than the bucket and
\* what the intervals that end in the window add to it.
BurstIsBounded ==
    watch.passed < BucketSize + ((watch.ticks + RefillInterval - 1) \div RefillInterval) * RefillRate

\* With a refill of two tokens or more, a burst that goes on gets a call through in any
\* three intervals.  With one, the token of each refill is the one that is refused (line
\* 90), and a burst gets nothing through until it pauses.
BurstsTrickle == RefillRate >= 2 => waited < MaxWait

\* With any refill, the first call after two intervals without calls is let through,
\* unless the bucket has only the token that is refused.
RestIsRewarded ==
    idle = RestTicks /\ bucket # NoBucket /\ BucketSize >= 2 => AppliedRefill(bucket).tokens >= 2

\* Both sides of the rate that the limiter keeps: never more, and not nothing.
RateIsKept == BurstIsBounded /\ BurstsTrickle /\ RestIsRewarded
================================================================================
