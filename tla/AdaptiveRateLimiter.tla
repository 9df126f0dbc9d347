------------------------ MODULE AdaptiveRateLimiter ------------------------
(***************************************************************************)
(* Class AdaptiveRateLimiter (rate_limiting_utilities.py).  Its three      *)
(* methods that touch current_rate hold self.lock, so each is one atomic   *)
(* step whichever thread calls it.  Rates are Python floats; here they are *)
(* exact rationals [num, den] (see TokenBucketOps), reduced after every    *)
(* update, and the factors 0.5 and 1.1 are 1/2 and 11/10.                  *)
(***************************************************************************)
EXTENDS Integers, TokenBucketOps

CONSTANTS
    Constructions,   \* <<initial_rate, min_rate, max_rate>> passed to __init__
    MaxUpdates       \* bound on record_success/record_rate_limit_error calls

ASSUME Constructions \subseteq (Nat \X Nat \X Nat) /\ MaxUpdates \in Nat

VARIABLES
    currentRate, minRate, maxRate,
    updates      \* number of record_* calls so far, for the bound

vars == <<currentRate, minRate, maxRate, updates>>

RECURSIVE GCD(_, _)
GCD(a, b) == IF b = 0 THEN a ELSE GCD(b, a % b)

Reduced(p, q) == LET g == GCD(p, q) IN IF g = 0 THEN Rate(p, q) ELSE Rate(p \div g, q \div g)

Scaled(r, p, q) == Reduced(r.num * p, r.den * q)

RateLeq(r, s) == r.num * s.den <= s.num * r.den

\* min() and max() of two rates.
RateMin(r, s) == IF RateLeq(r, s) THEN r ELSE s
RateMax(r, s) == IF RateLeq(r, s) THEN s ELSE r

Whole(x) == Rate(x, 1)

\* self.decrease_factor = 0.5, self.increase_factor = 1.1
DecreaseFactor == <<1, 2>>
IncreaseFactor == <<11, 10>>

TypeOK ==
    /\ currentRate.num \in Nat \ {0} /\ currentRate.den \in Nat \ {0}
    /\ \E c \in Constructions : minRate = Whole(c[2]) /\ maxRate = Whole(c[3])
    /\ updates \in Nat

\* __init__: the arguments are stored as given; nothing is validated.
Init ==
    /\ \E c \in Constructions :
        /\ currentRate = Whole(c[1])
        /\ minRate = Whole(c[2])
        /\ maxRate = Whole(c[3])
    /\ updates = 0

\* A faulty record_success with max() in place of min().
RecordSuccessSwapped ==
    /\ currentRate' = RateMax(Scaled(currentRate, IncreaseFactor[1], IncreaseFactor[2]), maxRate)
    /\ updates' = updates + 1
    /\ UNCHANGED <<minRate, maxRate>>

\* record_success: current_rate = min(current_rate * 1.1, max_rate)
RecordSuccess ==
    /\ currentRate' = RateMin(Scaled(currentRate, IncreaseFactor[1], IncreaseFactor[2]), maxRate)
    /\ updates' = updates + 1
    /\ UNCHANGED <<minRate, maxRate>>

\* record_rate_limit_error: current_rate = max(current_rate * 0.5, min_rate)
RecordRateLimitError ==
    /\ currentRate' = RateMax(Scaled(currentRate, DecreaseFactor[1], DecreaseFactor[2]), minRate)
    /\ updates' = updates + 1
    /\ UNCHANGED <<minRate, maxRate>>

Next == RecordSuccess \/ RecordRateLimitError

Spec == Init /\ [][Next]_vars

\* The rates reachable by 1.1 and 0.5 steps are infinitely many: explore
\* the behaviours of at most MaxUpdates updates.
UpdateBound == updates <= MaxUpdates

\* get_token_bucket: reads the rate under the lock, then builds a new
\* TokenBucket(max(int(rate), 1), rate) outside it.
GetTokenBucket(t) ==
    NewBucket(IF Trunc(currentRate.num, currentRate.den) >= 1
              THEN Trunc(currentRate.num, currentRate.den) ELSE 1,
              currentRate, t)

-----------------------------------------------------------------------------
(***************************************************************************)
(* The specification's invariant: after every record_success and          *)
(* record_rate_limit_error, min_rate <= current_rate <= max_rate, and the *)
(* bucket get_token_bucket hands out refills at that clamped rate with a  *)
(* burst of at most max(max_rate, 1) tokens.                              *)
(***************************************************************************)
RateWithinBounds ==
    /\ RateLeq(minRate, currentRate) /\ RateLeq(currentRate, maxRate)
    /\ RateLeq(Whole(GetTokenBucket(0).capacity), RateMax(maxRate, Whole(1)))

=============================================================================
