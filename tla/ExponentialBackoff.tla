------------------------- MODULE ExponentialBackoff -------------------------
(***************************************************************************)
(* Class ExponentialBackoff (rate_limiting_utilities.py).  The constructor *)
(* arguments are chosen in Init from small sets; next_attempt and reset    *)
(* are the actions; get_delay_ms and should_retry are reads.              *)
(*                                                                         *)
(* get_delay_ms computes int(initial_delay_ms * (2.0 ** attempt)) in IEEE  *)
(* doubles; below attempt 1018 (for initial delays up to 100) the product *)
(* is exact, and the model computes it in integers.                       *)
(***************************************************************************)
EXTENDS Integers

CONSTANTS
    InitialDelays,   \* initial_delay_ms values passed to the constructor
    MaxDelays,       \* max_delay_ms values passed to the constructor
    MaxAttempt       \* bound on attempt

ASSUME InitialDelays \subseteq Nat /\ MaxDelays \subseteq Nat
ASSUME MaxAttempt \in Nat

VARIABLES initialDelayMs, maxDelayMs, attempt

vars == <<initialDelayMs, maxDelayMs, attempt>>

\* should_retry: "arbitrary limit of 10 attempts".
RetryLimit == 10

\* init * 2^a, doubling only while the value is still within the cap: past
\* the cap the min() in get_delay_ms returns the cap whatever the product.
RECURSIVE Doubled(_, _, _)
Doubled(x, k, cap) ==
    IF k = 0 \/ x = 0 \/ x > cap THEN x ELSE Doubled(2 * x, k - 1, cap)

\* get_delay_ms when it does not raise: min(delay, self.max_delay_ms).
GetDelayMs(init, cap, a) ==
    LET d == Doubled(init, a, cap) IN IF d <= cap THEN d ELSE cap

\* A faulty limit test that allows one retry too many.
ShouldRetryInclusive(a) == a <= RetryLimit

ShouldRetry(a) == a < RetryLimit

TypeOK ==
    /\ initialDelayMs \in InitialDelays
    /\ maxDelayMs \in MaxDelays
    /\ attempt \in 0..MaxAttempt

\* __init__: attempt = 0.
Init ==
    /\ initialDelayMs \in InitialDelays
    /\ maxDelayMs \in MaxDelays
    /\ attempt = 0

\* next_attempt: self.attempt += 1, with no upper bound in the code.
NextAttempt ==
    /\ attempt < MaxAttempt
    /\ attempt' = attempt + 1
    /\ UNCHANGED <<initialDelayMs, maxDelayMs>>

\* A faulty reset that steps back once instead of going to 0.
ResetDecrements ==
    /\ attempt' = attempt - 1
    /\ UNCHANGED <<initialDelayMs, maxDelayMs>>

\* reset: self.attempt = 0.
Reset ==
    /\ attempt' = 0
    /\ UNCHANGED <<initialDelayMs, maxDelayMs>>

Next == NextAttempt \/ Reset

Spec == Init /\ [][Next]_vars

-----------------------------------------------------------------------------
\* The sequence the specification gives: min(initialDelay * 2^n, maxDelay).
ReferenceDelay(init, cap, a) ==
    IF init * 2^a <= cap THEN init * 2^a ELSE cap

=============================================================================
