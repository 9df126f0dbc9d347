--------------------------- MODULE MC_AdaptiveRetry ---------------------------
EXTENDS AdaptiveRetry

\* <<initial_rate, min_rate, max_rate>>: the spec's example (50, 5, 100), a
\* limiter pinned at one rate, and one whose range reaches below one
\* request per second; all satisfy min_rate <= initial_rate <= max_rate.
MCConstructions == {<<50, 5, 100>>, <<7, 7, 7>>, <<1, 0, 1>>}

=============================================================================
