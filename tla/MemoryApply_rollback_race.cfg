SPECIFICATION Spec
CONSTANTS
    c1 = c1
    c2 = c2
    None = None
    Actors = {p1, p2}
    Cand = {c1, c2}
    Consent <- MCConsent
    Kinds <- MCKinds
    MaxCalls <- RewriteCalls
    MaxCrashes = 0
    ContractLimit = 3
    ReadLimit = 2
    ReplayLimit = 1
    StampWidth = 4
INVARIANTS
    RolledBackStaysOut
CHECK_DEADLOCK FALSE
