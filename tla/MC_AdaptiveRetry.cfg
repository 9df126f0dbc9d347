\* A shared limiter under three constructions; backoffs around the spec's
\* example (100, 30000), with a zero initial delay and an initial delay
\* equal to the cap.  Giving up takes 11 attempts, so up to 12 updates;
\* at most 6 operations end (7 successes keep the rates within TLC's
\* integers).
CONSTANTS
    Constructions <- MCConstructions
    MaxUpdates = 12
    InitialDelays = {0, 100, 30000}
    MaxDelays = {100, 30000}
    MaxAttempt = 15
    MaxOperations = 6

SPECIFICATION Spec
CONSTRAINT UpdateBound
INVARIANT TypeOK
INVARIANT GivesUpAfterFullSchedule
INVARIANT RateWithinBounds
