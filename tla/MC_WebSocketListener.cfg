\* Two subscription ids for the node to hand out, two notifications per
\* subscription, subscribes granted or refused.  When the node has nothing
\* more to send the listener waits in its async for loop: a state with no
\* step is where the real listener sits until it is interrupted.
CONSTANTS
    SubIds = {s1, s2}
    MaxEvents = 2
    None = None

SPECIFICATION Spec
CHECK_DEADLOCK FALSE
INVARIANT TypeOK
INVARIANT CountsMatch
