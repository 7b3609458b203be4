SPECIFICATION ExitSpec
CONSTANTS
    Tid = {t1}
    Dso = {d1}
    NoDso = NoDso
    Key = {k1}
    Capacity = 2
    MaxDtor = 1
    MaxCall = 1
INVARIANTS
    GoneIsEmpty
CHECK_DEADLOCK FALSE
