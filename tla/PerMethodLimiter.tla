--------------------------- MODULE PerMethodLimiter ---------------------------
(***************************************************************************)
(* Class PerMethodLimiter (rate_limiting_utilities.py): a dict from method *)
(* name to an owned TokenBucket.  register_method and try_acquire both     *)
(* hold self.lock, and try_acquire calls the bucket's try_acquire (which   *)
(* takes the bucket's own lock) inside it, so each call is one atomic step *)
(* whichever thread makes it.  The clock is time.time() in ms.            *)
(***************************************************************************)
EXTENDS Integers, Sequences, TokenBucketOps

CONSTANTS
    Methods,         \* RPC method names (model values)
    Registrations,   \* [capacity, rate] arguments of register_method
    MaxTime          \* bound on the clock, in ms

ASSUME \A r \in Registrations : r.capacity \in Nat \ {0} /\ r.rate.num \in Nat \ {0}

VARIABLES
    limiters,   \* self.limiters: the registered methods and their buckets
    now,        \* time.time()
    grants      \* history per method: grants of its current bucket

vars == <<limiters, now, grants>>

Registered(m) == m \in DOMAIN limiters

TypeOK ==
    /\ DOMAIN limiters \subseteq Methods
    /\ \A m \in DOMAIN limiters :
        /\ [capacity |-> limiters[m].capacity, rate |-> limiters[m].rate] \in Registrations
        /\ limiters[m].tokens \in 0..limiters[m].capacity
        /\ limiters[m].lastRefill \in 0..now
    /\ now \in 0..MaxTime
    /\ grants \in [Methods -> Seq([at : 0..MaxTime, n : {1}])]

\* __init__: self.limiters = {}
Init ==
    /\ limiters = <<>>
    /\ now = 0
    /\ grants = [m \in Methods |-> <<>>]

\* Add or overwrite one key of the dict.
Put(f, k, v) == [x \in DOMAIN f \cup {k} |-> IF x = k THEN v ELSE f[x]]

\* register_method: self.limiters[method] = TokenBucket(capacity, refill_rate);
\* a re-registration replaces the bucket, and with it its history.
RegisterMethod(m, r) ==
    /\ limiters' = Put(limiters, m, NewBucket(r.capacity, r.rate, now))
    /\ grants' = [grants EXCEPT ![m] = <<>>]
    /\ UNCHANGED now

\* try_acquire(method) on a registered method, granted by its bucket.
TryAcquireGranted(m) ==
    /\ Registered(m)
    /\ Granted(limiters[m], now, 1)
    /\ limiters' = [limiters EXCEPT ![m] = TryAcquire(@, now, 1)]
    /\ grants' = [grants EXCEPT ![m] = Append(@, [at |-> now, n |-> 1])]
    /\ UNCHANGED now

\* try_acquire(method) on a registered method, denied by its bucket.
TryAcquireDenied(m) ==
    /\ Registered(m)
    /\ ~Granted(limiters[m], now, 1)
    /\ limiters' = [limiters EXCEPT ![m] = TryAcquire(@, now, 1)]
    /\ UNCHANGED <<now, grants>>

\* try_acquire(method) on an unregistered method: "allow it", nothing changes.
TryAcquireUnregistered(m) ==
    /\ ~Registered(m)
    /\ UNCHANGED vars

Tick ==
    /\ now < MaxTime
    /\ now' = now + 1
    /\ UNCHANGED <<limiters, grants>>

Next ==
    \/ \E m \in Methods, r \in Registrations : RegisterMethod(m, r)
    \/ \E m \in Methods :
        \/ TryAcquireGranted(m)
        \/ TryAcquireDenied(m)
        \/ TryAcquireUnregistered(m)
    \/ Tick

Spec == Init /\ [][Next]_vars

-----------------------------------------------------------------------------
(***************************************************************************)
(* Each registered method is limited by its own bucket only, with the     *)
(* parameters of its latest register_method: since that registration the  *)
(* grants of the method keep the burst bound of a TokenBucket of that     *)
(* capacity and rate, whatever the calls made on the other methods and    *)
(* the re-registrations interleaved with them.                            *)
(***************************************************************************)
PerMethodBurstBound ==
    \A m \in DOMAIN limiters :
        WithinBurst(grants[m], limiters[m].capacity, limiters[m].rate)

=============================================================================
