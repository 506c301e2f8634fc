SPECIFICATION MCSpec
CONSTANTS
    c1 = c1
    c2 = c2
    None = None
    Actors = {p1}
    Cand = {c1, c2}
    Consent <- MCConsent
    Kinds <- MCKinds
    MaxCalls <- SerialCalls
    MaxCrashes = 1
    ContractLimit = 3
    ReadLimit = 2
    ReplayLimit = 1
    StampWidth = 4
INVARIANTS
    TypeOK
    RolledBackStaysOut
    OnlyConsentedCells
    NewestUndoable
    OrphansBounded
PROPERTY
    ImplementsLifecycle
CHECK_DEADLOCK FALSE
