\* 2 requests per 2 ms window over 8 ms (four windows), with time.time()
\* stepping back 3 ms (more than a window) whenever it reads at least 3 ms,
\* any number of times.
CONSTANTS
    MaxRequests = 2
    WindowMs = 2
    ClockSteps <- MCStepBack
    MaxTime = 8
    MaxAdmits = 8

SPECIFICATION Spec
INVARIANT TypeOK
PROPERTY RefinesAdmissionLog
INVARIANT DenialJustifiedWithinSkew
