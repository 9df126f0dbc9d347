---------------------------- MODULE AdmissionLog ----------------------------
(***************************************************************************)
(* What a sliding-window limiter promises, with no log to prune: a request *)
(* is admitted at real time t only while fewer than MaxRequests requests   *)
(* were admitted in the closed window [t - WindowMs, t].  SlidingWindow    *)
(* is checked to implement it.                                             *)
(***************************************************************************)
EXTENDS Integers, Sequences, FiniteSets

CONSTANTS MaxRequests, WindowMs, MaxTime

VARIABLES
    log,      \* the real time of every admission, in order
    clock     \* real time, in ms

InWindow(t) == Cardinality({k \in DOMAIN log : log[k] \in (t - WindowMs)..t})

Init == log = <<>> /\ clock = 0

Admit ==
    /\ InWindow(clock) < MaxRequests
    /\ log' = Append(log, clock)
    /\ UNCHANGED clock

Pass ==
    /\ clock < MaxTime
    /\ clock' = clock + 1
    /\ UNCHANGED log

Spec == Init /\ [][Admit \/ Pass]_<<log, clock>>

=============================================================================
