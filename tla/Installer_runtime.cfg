SPECIFICATION Spec
CONSTANTS
    Actors = {p1, p2}
    Versions = {"v1", "v2"}
    Installs <- MCInstalls
    MaxOps = 2
    MaxWrites = 0
    MaxFaults = 0
INVARIANT SnapshotWithoutRuntime
CHECK_DEADLOCK FALSE
