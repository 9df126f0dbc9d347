-------------------------- MODULE MC_SlidingWindow --------------------------
EXTENDS SlidingWindow

\* An NTP correction that sets time.time() back 3 ms, more than a window.
MCStepBack == {-3}

\* One that sets it forward 3 ms.
MCStepForward == {3}

=============================================================================
