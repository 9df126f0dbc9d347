------------------------- MODULE MC_PerMethodLimiter -------------------------
EXTENDS PerMethodLimiter, TLC

\* Two register_method argument sets: a 1-token bucket refilled every
\* 3.33 ms and a 2-token bucket refilled every 2 ms.
MCRegistrations ==
    {[capacity |-> 1, rate |-> Rate(300, 1)],
     [capacity |-> 2, rate |-> Rate(500, 1)]}

\* Method names are only compared for equality.
MCSymmetry == Permutations(Methods)

=============================================================================
