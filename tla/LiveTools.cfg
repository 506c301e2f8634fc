SPECIFICATION MCSpec
CONSTANT
    Actors = {p1, p2}
INVARIANTS
    RestorePoint
    AppliedStays
    
    SealHonest
    SettingsKept
CHECK_DEADLOCK FALSE
SYMMETRY Symmetry
