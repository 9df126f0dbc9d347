--------------------------- MODULE TokenBucketOps ---------------------------
(***************************************************************************)
(* The methods of class TokenBucket (rate_limiting_utilities.py) as pure   *)
(* operators on a bucket record, so that every component that owns        *)
(* buckets (the shared bucket, PerMethodLimiter, the snapshot made by      *)
(* AdaptiveRateLimiter) applies the same translation.                     *)
(*                                                                         *)
(* Time is an integer number of milliseconds read from time.time().  A     *)
(* refill rate (a Python float, tokens per second) is an exact rational    *)
(* [num |-> p, den |-> q] meaning p/q tokens per second.                   *)
(***************************************************************************)
EXTENDS Integers

LOCAL INSTANCE Functions

\* The literal 1000 of time_until_available_ms, and the ms clock unit.
MsPerSecond == 1000

Rate(p, q) == [num |-> p, den |-> q]

\* Python's int() on a float truncates toward zero.
Trunc(a, b) == IF a >= 0 THEN a \div b ELSE -((-a) \div b)

MinOf(a, b) == IF a <= b THEN a ELSE b

\* TokenBucket.__init__: the bucket starts full, last_refill = time.time().
NewBucket(capacity, rate, t) ==
    [capacity |-> capacity, tokens |-> capacity, rate |-> rate, lastRefill |-> t]

\* tokens_to_add = int(elapsed * self.refill_rate), elapsed in seconds.
TokensToAdd(b, now) ==
    Trunc((now - b.lastRefill) * b.rate.num, MsPerSecond * b.rate.den)

\* Faulty variants of the refill, each a plausible slip in try_acquire.
\* The min() against capacity dropped.
RefillUnclamped(b, now) ==
    IF TokensToAdd(b, now) > 0
    THEN [b EXCEPT !.tokens = @ + TokensToAdd(b, now), !.lastRefill = now]
    ELSE b

\* self.last_refill = now forgotten: the same elapsed time is credited again.
RefillKeepsLastRefill(b, now) ==
    IF TokensToAdd(b, now) > 0
    THEN [b EXCEPT !.tokens = MinOf(@ + TokensToAdd(b, now), b.capacity)]
    ELSE b

\* self.last_refill = now done outside the if: a call that adds no token
\* throws away the fraction of a token earned so far.
RefillAlwaysAdvancing(b, now) ==
    [b EXCEPT !.tokens = MinOf(@ + TokensToAdd(b, now), b.capacity),
              !.lastRefill = now]

\* The refill at the top of try_acquire: only a positive whole number of
\* tokens is credited, and only then does last_refill move to now.
Refill(b, now) ==
    IF TokensToAdd(b, now) > 0
    THEN [b EXCEPT !.tokens     = MinOf(@ + TokensToAdd(b, now), b.capacity),
                   !.lastRefill = now]
    ELSE b

\* The decision of try_acquire(num_tokens): self.tokens >= num_tokens
\* after the refill.
Granted(b, now, n) == Refill(b, now).tokens >= n

\* A faulty try_acquire that takes the tokens without the check.
TryAcquireUnchecked(b, now, n) == [Refill(b, now) EXCEPT !.tokens = @ - n]

\* The whole of try_acquire: refill, then take n tokens if there are enough.
TryAcquire(b, now, n) ==
    IF Granted(b, now, n)
    THEN [Refill(b, now) EXCEPT !.tokens = @ - n]
    ELSE Refill(b, now)

\* time_until_available_ms: no refill; int(1.0 / refill_rate * 1000).
TimeUntilAvailableMs(b) ==
    IF b.tokens > 0 THEN 0
    ELSE Trunc(MsPerSecond * b.rate.den, b.rate.num)

\* Whole tokens a continuous bucket of this rate earns in ms milliseconds.
Earned(rate, ms) == (ms * rate.num) \div (MsPerSecond * rate.den)

(***************************************************************************)
(* The burst bound of a bucket, over its history of granted calls         *)
(* [at |-> time, n |-> tokens] in time order: between any two grants, the  *)
(* tokens handed out never exceed the capacity plus the tokens earned      *)
(* over that interval, plus one.  The one is the fraction of a token that *)
(* try_acquire keeps banked while it adds nothing (last_refill is not      *)
(* advanced when tokens_to_add is 0).                                      *)
(***************************************************************************)
WithinBurst(grants, capacity, rate) ==
    \A i, j \in DOMAIN grants :
        i <= j =>
            SumFunctionOnSet([k \in DOMAIN grants |-> grants[k].n], i..j)
                <= capacity + 1 + Earned(rate, grants[j].at - grants[i].at)

=============================================================================
