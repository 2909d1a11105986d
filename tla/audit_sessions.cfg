SPECIFICATION Spec
CONSTANTS
    i1 = i1
    i2 = i2
    o1 = o1
    o2 = o2
    k1 = k1
    k2 = k2
    Items = {i1, i2}
    Obs = {o1, o2}
    Screens = {k1}
    Temporary = Temporary
    MaxSessions = 2
    MaxWrites = 1
    MaxStamp = 2
SYMMETRY Symmetric
INVARIANTS
    TypeOK
    OneDraft
    DraftFreezesStaff
    ConfirmedRowsStay
    ConfirmedAsShown
    ConfirmationStands
    DecidedOnAllRows
PROPERTIES
    SubmittedCountStays
CHECK_DEADLOCK FALSE
