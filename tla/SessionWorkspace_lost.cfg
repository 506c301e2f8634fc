SPECIFICATION Spec
CONSTANTS
    Actors = {p1, p2}
    MaxCalls = 2
    MaxCrashes = 0
INVARIANT NoSessionLost
CHECK_DEADLOCK FALSE
