SPECIFICATION Spec
CONSTANTS
    p1 = p1
    p2 = p2
    f1 = f1
    c1 = c1
    c2 = c2
    Photos = {p1, p2}
    Forms = {f1}
    Calls = {c1, c2}
    MaxFaults = 1
SYMMETRY Symmetric
INVARIANTS
    NothingUnsentBlocks
