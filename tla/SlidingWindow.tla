---------------------------- MODULE SlidingWindow ----------------------------
(***************************************************************************)
(* Class SlidingWindow (rate_limiting_utilities.py), one instance shared   *)
(* by caller threads.  try_acquire and current_requests each hold          *)
(* self.lock throughout, so each is one atomic step.  now is time.time()   *)
(* in ms: a wall clock that ticks with real time and that an NTP          *)
(* correction may step by any of ClockSteps (back when negative; the      *)
(* empty set: the clock is monotonic).                                    *)
(* The window promise is about real time, kept in real.                   *)
(***************************************************************************)
EXTENDS Integers, Sequences, FiniteSets

CONSTANTS
    MaxRequests,   \* SlidingWindow(max_requests, ...)
    WindowMs,      \* SlidingWindow(..., window_duration), in ms
    ClockSteps,    \* the steps an NTP correction may give time.time(), in ms
    MaxTime,       \* real time stays in 0..MaxTime
    MaxAdmits      \* bound on the admissions of a behaviour

ASSUME MaxRequests \in Nat \ {0} /\ WindowMs \in Nat \ {0}
ASSUME ClockSteps \subseteq Int \ {0} /\ MaxTime \in Nat /\ MaxAdmits \in Nat

VARIABLES
    requests,   \* self.requests, the deque of admission timestamps
    now,        \* time.time()
    real,       \* real time elapsed, in ms
    admits      \* history: the real time of every admitted request

vars == <<requests, now, real, admits>>

\* while self.requests and now - self.requests[0] > self.window_duration:
\*     self.requests.popleft()
\* A faulty pruning with >= in place of >.
RECURSIVE PruneAtBoundary(_, _)
PruneAtBoundary(log, t) ==
    IF log # <<>> /\ t - Head(log) >= WindowMs THEN PruneAtBoundary(Tail(log), t) ELSE log

RECURSIVE Prune(_, _)
Prune(log, t) ==
    IF log # <<>> /\ t - Head(log) > WindowMs THEN Prune(Tail(log), t) ELSE log

\* A faulty try_acquire that tests the length before pruning.
WouldDenyUnpruned == Len(requests) >= MaxRequests

\* The test of try_acquire: len(self.requests) >= max_requests after pruning.
WouldDeny == Len(Prune(requests, now)) >= MaxRequests

TypeOK ==
    /\ requests \in Seq(0..2 * MaxTime) /\ Len(requests) <= MaxRequests
    /\ now \in 0..2 * MaxTime /\ real \in 0..MaxTime
    /\ admits \in Seq(0..MaxTime) /\ Len(admits) <= MaxAdmits

Init ==
    /\ requests = <<>>
    /\ now = 0
    /\ real = 0
    /\ admits = <<>>

\* A faulty try_acquire comparing with <= max_requests.
TryAcquireGrantedOffByOne ==
    /\ Len(admits) < MaxAdmits
    /\ Len(Prune(requests, now)) <= MaxRequests
    /\ requests' = Append(Prune(requests, now), now)
    /\ admits' = Append(admits, real)
    /\ UNCHANGED <<now, real>>

\* try_acquire returning True: prune, then append now.
TryAcquireGranted ==
    /\ Len(admits) < MaxAdmits
    /\ ~WouldDeny
    /\ requests' = Append(Prune(requests, now), now)
    /\ admits' = Append(admits, real)
    /\ UNCHANGED <<now, real>>

\* try_acquire returning False: the pruning is kept.
TryAcquireDenied ==
    /\ WouldDeny
    /\ requests' = Prune(requests, now)
    /\ UNCHANGED <<now, real, admits>>

\* current_requests: prunes the deque too, then returns its length.
CurrentRequests ==
    /\ requests' = Prune(requests, now)
    /\ UNCHANGED <<now, real, admits>>

\* Time passes between calls.
Tick ==
    /\ real < MaxTime
    /\ now' = now + 1
    /\ real' = real + 1
    /\ UNCHANGED <<requests, admits>>

\* An NTP correction steps time.time() (within 0..MaxTime).
ClockStep ==
    /\ \E d \in ClockSteps : now + d \in 0..MaxTime /\ now' = now + d
    /\ UNCHANGED <<requests, real, admits>>

Next ==
    \/ TryAcquireGranted
    \/ TryAcquireDenied
    \/ CurrentRequests
    \/ Tick
    \/ ClockStep

Spec == Init /\ [][Next]_vars

-----------------------------------------------------------------------------
\* Admissions made in the closed window [from, to] of real time.
AdmitsIn(from, to) == Cardinality({k \in DOMAIN admits : admits[k] \in from..to})

\* The refinement mapping: the log of admissions is the history of
\* try_acquire's grants, its clock is real time (not time.time()).
Ideal == INSTANCE AdmissionLog WITH log <- admits, clock <- real

(***************************************************************************)
(* No over-admission: SlidingWindow implements AdmissionLog, the sliding   *)
(* window with no log to prune.  Every request try_acquire admits is one  *)
(* the ideal window admits at that real time, whatever the interleaving   *)
(* of calls, of the pruning that current_requests does, and of time.     *)
(***************************************************************************)
RefinesAdmissionLog == Ideal!Spec

(***************************************************************************)
(* No unjustified denial, with the clock allowed to step back: whenever   *)
(* try_acquire would refuse, max_requests requests were admitted in the   *)
(* last window_duration of real time stretched by how far time.time()     *)
(* now lags behind real time.  A step back keeps stale entries in the     *)
(* deque for at most that long; with a monotonic clock the stretch is 0.  *)
(***************************************************************************)
DenialJustifiedWithinSkew ==
    WouldDeny => AdmitsIn(real - WindowMs - (real - now), real) >= MaxRequests

=============================================================================
