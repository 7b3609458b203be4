SPECIFICATION ExitSpec
CONSTANTS
    Tid = {t1, t2}
    Dso = {d1}
    NoDso = NoDso
    Key = {k1}
    Capacity = 2
    MaxDtor = 3
    MaxCall = 2
SYMMETRY Symmetry
INVARIANTS
    EachOnce
    FinalizedAreGone
PROPERTIES
    IsDtorList
CHECK_DEADLOCK FALSE
