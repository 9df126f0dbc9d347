\* time.time() is a wall clock: besides ticking it may be stepped forward,
\* here by 3 ms, more than a window.
CONSTANTS
    MaxRequests = 2
    WindowMs = 2
    ClockSteps <- MCStepForward
    MaxTime = 6
    MaxAdmits = 4

SPECIFICATION Spec
PROPERTY RefinesAdmissionLog
