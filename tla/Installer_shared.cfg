SPECIFICATION MCSpec
CONSTANTS
    Actors = {p1, p2}
    Versions = {"v1", "v2"}
    Installs <- MCInstalls
    MaxOps = 3
    MaxWrites = 1
    MaxFaults = 2
INVARIANTS
    OneMutator
    UserDataKept
    AllOrNothing
PROPERTIES
    LockGivenBack
    ImplementsRelease
CHECK_DEADLOCK FALSE
