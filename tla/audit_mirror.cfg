SPECIFICATION Spec
CONSTANTS
    i1 = i1
    i2 = i2
    s1 = s1
    s2 = s2
    a1 = a1
    a2 = a2
    Items = {i1, i2}
    Sessions = {s1, s2}
    Attempts = {a1, a2}
    MaxVersion = 3
    MaxFaults = 2
SYMMETRY Symmetric
INVARIANTS
    TypeOK
    ApprovedReachedSheet
PROPERTIES
    SyncedMatches
    SheetNeverGoesBack
CHECK_DEADLOCK FALSE
