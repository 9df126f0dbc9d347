---------------------------- MODULE AdaptiveRetry ----------------------------
(***************************************************************************)
(* The caller that spec.md puts around the core (section 2, control flow; *)
(* section 6, external collaborator contract), composed with the two      *)
(* components it drives: one AdaptiveRateLimiter shared by every          *)
(* operation, and an ExponentialBackoff that serves one logical operation *)
(* at a time.  An operation is a sequence of RPC attempts:                 *)
(*   - a success is reported with record_success and ends the operation;  *)
(*   - a "too many requests" answer is reported with                       *)
(*     record_rate_limit_error; then, while should_retry holds, the caller*)
(*     waits get_delay_ms, calls next_attempt and tries again, and        *)
(*     otherwise gives up;                                                 *)
(*   - an ended operation resets the backoff for the next one.            *)
(* The transport is not code of the repository: the three caller steps   *)
(* are written from the specification; every step they take on the two   *)
(* components is the component's own action.                             *)
(***************************************************************************)
EXTENDS Integers

CONSTANTS
    Constructions, MaxUpdates,               \* AdaptiveRateLimiter
    InitialDelays, MaxDelays, MaxAttempt,    \* ExponentialBackoff
    MaxOperations    \* bound on the operations that end

VARIABLES
    currentRate, minRate, maxRate, updates,  \* the shared AdaptiveRateLimiter
    initialDelayMs, maxDelayMs, attempt,     \* the operation's ExponentialBackoff
    waited,     \* ghost: ms the current operation has waited so far
    lastEnd,    \* ghost: how the latest operation ended, with its totals
    operations  \* the number of operations ended, for the bound

Limiter == INSTANCE AdaptiveRateLimiter
Backoff == INSTANCE ExponentialBackoff

limiterVars == <<currentRate, minRate, maxRate, updates>>
backoffVars == <<initialDelayMs, maxDelayMs, attempt>>
vars == <<limiterVars, backoffVars, waited, lastEnd, operations>>

NoEnd == [how |-> "none", attempts |-> 0, waited |-> 0]

TypeOK ==
    /\ Limiter!TypeOK
    /\ Backoff!TypeOK
    /\ waited \in Nat
    /\ lastEnd \in [how : {"none", "succeeded", "gave_up"},
                    attempts : Nat, waited : Nat]
    /\ operations \in Nat

Init ==
    /\ Limiter!Init
    /\ Backoff!Init
    /\ waited = 0
    /\ lastEnd = NoEnd
    /\ operations = 0

\* The operation ends after its current attempt; the backoff is reset for
\* the next independent operation.
EndOperation(how) ==
    /\ Backoff!Reset
    /\ lastEnd' = [how |-> how, attempts |-> attempt + 1, waited |-> waited]
    /\ waited' = 0
    /\ operations' = operations + 1

\* The attempt succeeded: record_success, and the operation is done.
AttemptSucceeded ==
    /\ Limiter!RecordSuccess
    /\ EndOperation("succeeded")

\* The endpoint answered "too many requests" and should_retry() holds:
\* record_rate_limit_error, wait get_delay_ms(), next_attempt(), retry.
AttemptRateLimitedRetry ==
    /\ Limiter!RecordRateLimitError
    /\ Backoff!ShouldRetry(attempt)
    /\ waited' = waited + Backoff!GetDelayMs(initialDelayMs, maxDelayMs, attempt)
    /\ Backoff!NextAttempt
    /\ UNCHANGED <<lastEnd, operations>>

\* The endpoint answered "too many requests" and should_retry() is false:
\* record_rate_limit_error, and the failure is the caller's to report.
AttemptRateLimitedGiveUp ==
    /\ Limiter!RecordRateLimitError
    /\ ~Backoff!ShouldRetry(attempt)
    /\ EndOperation("gave_up")

Next == AttemptSucceeded \/ AttemptRateLimitedRetry \/ AttemptRateLimitedGiveUp

Spec == Init /\ [][Next]_vars

\* Every attempt updates the shared rate once: the model explores
\* behaviours of at most MaxUpdates attempts and MaxOperations operations
\* (each success multiplies the rate's exact numerator by 11).
UpdateBound == Limiter!UpdateBound /\ operations <= MaxOperations

-----------------------------------------------------------------------------
\* The total of the specification's delay schedule for attempts 0..n-1.
RECURSIVE ScheduleTotal(_, _, _)
ScheduleTotal(init, cap, n) ==
    IF n = 0 THEN 0
    ELSE ScheduleTotal(init, cap, n - 1) + Backoff!ReferenceDelay(init, cap, n - 1)

(***************************************************************************)
(* should_retry's limit and get_delay_ms's schedule, as the caller meets   *)
(* them: an operation is abandoned only at its RetryLimit+1-th attempt     *)
(* (the first try and ten retries), after waiting exactly the sum of       *)
(* min(initial * 2^a, max) over a = 0..9; and an operation in progress has *)
(* waited the schedule up to its current attempt.                         *)
(***************************************************************************)
GivesUpAfterFullSchedule ==
    /\ lastEnd.how = "gave_up" =>
          /\ lastEnd.attempts = Backoff!RetryLimit + 1
          /\ lastEnd.waited = ScheduleTotal(initialDelayMs, maxDelayMs, Backoff!RetryLimit)
    /\ waited = ScheduleTotal(initialDelayMs, maxDelayMs, attempt)

(***************************************************************************)
(* The limiter's clamp under the caller's feedback: whatever sequence of  *)
(* successes and rate-limit errors the endpoint produces, current_rate    *)
(* stays within [min_rate, max_rate] (AdaptiveRateLimiter's invariant).   *)
(***************************************************************************)
RateWithinBounds == Limiter!RateWithinBounds

=============================================================================
