SPECIFICATION MCSpec
CONSTANTS
    Actors = {server, p1, p2}
    Callers = {p1, p2}
    Server = server
    Targets = {"release", "memory"}
    MinEvidence = 2
    ReadLimit = 2
INVARIANTS
    TurnsCounted
    MemoryKept
    RunsBacked
    IndexPairsEntries
    DryRunsEnd
    WorkBacked
    WelcomeWhole
    SelfChecksLeaveNothing
    RestartRevokes
CHECK_DEADLOCK FALSE
SYMMETRY Symmetry
