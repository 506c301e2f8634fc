SPECIFICATION MCSpec
CONSTANTS
    Actors = {p1, p2}
    Lanes = {"install", "update"}
    Ttls = {1}
    Window = 2
    Reports <- MCReports
    Servers = {s1, s2}
    Others = {cli}
    Users = {u1, u2}
    Workflows = {"review", "order"}
    MaxSecond = 2
    MaxReceipts = 1
    MaxWrites = 3
    MaxStops = 1
INVARIANTS
    NewestWholePackage
    EvidenceBacked
    IndexFollowsLedger
    InvocationCovered
    CriticalForgottenOnlyByWindow
    RecordsKept
    ReceiptSpentOnce
PROPERTY
    OwnerDecisionsKept
CHECK_DEADLOCK FALSE
SYMMETRY Symmetry
