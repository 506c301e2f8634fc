SPECIFICATION Spec
CONSTANTS
    Actors = {p1}
    MaxCalls = 5
    MaxCrashes = 0
INVARIANT ActiveWhenSelectable
CHECK_DEADLOCK FALSE
