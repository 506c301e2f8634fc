SPECIFICATION Spec
CONSTANTS
    Actors = {p1}
    MaxCalls = 4
    MaxCrashes = 1
INVARIANTS
    NoSessionLost
    UnauditedBounded
PROPERTY
    ImplementsPool
CHECK_DEADLOCK FALSE
