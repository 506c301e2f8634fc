SPECIFICATION MCSpec
CONSTANTS
    Actors = {p1}
    Updaters = {u1, u2}
    Versions = {"r1", "r2", "r3"}
    Newest = "r3"
    Precedes <- MCPrecedes
    Installers = {"macos_installer", "windows_installer"}
    Installs <- MCInstalls
    MaxOps = 2
    MaxWrites = 0
    MaxFaults = 2
INVARIANTS
    SealedTrees
    FeedTrue
    UpdateEnds
    Vouched
SYMMETRY Symmetry
CHECK_DEADLOCK FALSE
