SPECIFICATION Spec
CONSTANTS
    b1 = b1
    b2 = b2
    NoBridge = NoBridge
    Bridges = {b1, b2}
    MaxAttempts = 3
    MaxVersion = 3
    MaxFaults = 1
    MaxLate = 1
INVARIANTS
    TypeOK
    DuplicateOnlyWhenLate
    DeliveredIsShown
PROPERTIES
    FreshGeneration
    SilentAfterAck
    NoticeAppears
    RemindersRepeat
CHECK_DEADLOCK FALSE
