-------------------------- MODULE RateLimitedClient --------------------------
(***************************************************************************)
(* Caller threads sharing one TokenBucket of rate_limiting_utilities.py,  *)
(* following the caller contract of the specification (sections 2 and 6), *)
(* which the repository does not contain: try_acquire(); on a denial ask  *)
(* time_until_available_ms() (a second, separate locked call), sleep that *)
(* long, and try again.  Each caller makes Requests requests.  main() only *)
(* prints the wait and moves on; the bucket operations are the code's.    *)
(*                                                                         *)
(* Time is kept relative so that behaviours are unbounded: elapsed is      *)
(* now - last_refill, and since a refill after FullRefillMs or more fills *)
(* the bucket whatever the exact elapsed time, elapsed is capped there.   *)
(* The bucket record always has lastRefill = 0 and the clock reads        *)
(* elapsed.                                                               *)
(***************************************************************************)
EXTENDS Integers, FiniteSets, TokenBucketOps

CONSTANTS
    Callers,      \* caller threads (model values)
    Capacity,     \* TokenBucket(capacity, ...)
    RefillRate,   \* TokenBucket(..., refill_rate) as Rate(p, q)
    Requests      \* requests each caller makes

ASSUME Capacity \in Nat \ {0} /\ RefillRate.num \in Nat \ {0}
ASSUME Requests \in Nat \ {0}

VARIABLES
    bucket,    \* the shared bucket, last_refill at 0
    elapsed,   \* ms since last_refill, capped at FullRefillMs
    pc,        \* per caller: "try", "ask", "sleep" or "done"
    wake,      \* per caller: ms of time.sleep left
    left       \* per caller: requests still to make

vars == <<bucket, elapsed, pc, wake, left>>

\* The least elapsed time after which a refill fills the bucket.
FullRefillMs ==
    LET q == Capacity * MsPerSecond * RefillRate.den
    IN  (q + RefillRate.num - 1) \div RefillRate.num

\* try_acquire(1) on the shared bucket at the relative clock.
Acquired == TryAcquire(bucket, elapsed, 1)

\* The bucket after try_acquire, clock moved so that last_refill is 0 again.
BucketAfter == [Acquired EXCEPT !.lastRefill = 0]
ElapsedAfter == elapsed - Acquired.lastRefill

TypeOK ==
    /\ bucket.tokens \in 0..Capacity /\ bucket.lastRefill = 0
    /\ elapsed \in 0..FullRefillMs
    /\ pc \in [Callers -> {"try", "ask", "sleep", "done"}]
    /\ wake \in [Callers -> Nat]
    /\ left \in [Callers -> 0..Requests]

Init ==
    /\ bucket = NewBucket(Capacity, RefillRate, 0)
    /\ elapsed = 0
    /\ pc = [c \in Callers |-> "try"]
    /\ wake = [c \in Callers |-> 0]
    /\ left = [c \in Callers |-> Requests]

\* try_acquire() returns True: the request goes out.
TryGranted(c) ==
    /\ pc[c] = "try"
    /\ Granted(bucket, elapsed, 1)
    /\ bucket' = BucketAfter
    /\ elapsed' = ElapsedAfter
    /\ left' = [left EXCEPT ![c] = @ - 1]
    /\ pc' = [pc EXCEPT ![c] = IF left[c] = 1 THEN "done" ELSE "try"]
    /\ UNCHANGED wake

\* try_acquire() returns False.
TryDenied(c) ==
    /\ pc[c] = "try"
    /\ ~Granted(bucket, elapsed, 1)
    /\ bucket' = BucketAfter
    /\ elapsed' = ElapsedAfter
    /\ pc' = [pc EXCEPT ![c] = "ask"]
    /\ UNCHANGED <<wake, left>>

\* time_until_available_ms(), then time.sleep for that long.
AskWait(c) ==
    /\ pc[c] = "ask"
    /\ wake' = [wake EXCEPT ![c] = TimeUntilAvailableMs(bucket)]
    /\ pc' = [pc EXCEPT ![c] = "sleep"]
    /\ UNCHANGED <<bucket, elapsed, left>>

\* time.sleep returns.
WakeUp(c) ==
    /\ pc[c] = "sleep" /\ wake[c] = 0
    /\ pc' = [pc EXCEPT ![c] = "try"]
    /\ UNCHANGED <<bucket, elapsed, wake, left>>

\* One ms passes.
Tick ==
    /\ elapsed' = MinOf(elapsed + 1, FullRefillMs)
    /\ wake' = [c \in Callers |-> IF wake[c] > 0 THEN wake[c] - 1 ELSE 0]
    /\ UNCHANGED <<bucket, pc, left>>

Next ==
    \/ \E c \in Callers : TryGranted(c) \/ TryDenied(c) \/ AskWait(c) \/ WakeUp(c)
    \/ Tick

(***************************************************************************)
(* Threads that can run eventually run, time.sleep eventually returns and *)
(* the clock keeps moving: weak fairness of every caller step and of Tick.*)
(* Python's Lock is not fair, so nothing stronger is assumed.             *)
(***************************************************************************)
Fairness ==
    /\ WF_vars(Tick)
    /\ \A c \in Callers :
        /\ WF_vars(TryGranted(c) \/ TryDenied(c))
        /\ WF_vars(AskWait(c))
        /\ WF_vars(WakeUp(c))

Spec == Init /\ [][Next]_vars /\ Fairness

-----------------------------------------------------------------------------
(***************************************************************************)
(* Every caller that follows the deny / time_until_available_ms / sleep / *)
(* retry loop eventually gets all its requests admitted, however the      *)
(* callers' calls interleave between the two locked calls.                *)
(***************************************************************************)
AllServed == \A c \in Callers : <>(pc[c] = "done")

=============================================================================
