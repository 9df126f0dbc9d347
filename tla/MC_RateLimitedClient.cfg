\* Three callers contend for a 1-token bucket, two requests each.
CONSTANTS
    c1 = c1
    c2 = c2
    c3 = c3
    Callers = {c1, c2, c3}
    Capacity = 1
    RefillRate <- MCRefillRate
    Requests = 2

SPECIFICATION Spec
INVARIANT TypeOK
PROPERTY AllServed
