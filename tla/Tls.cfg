SPECIFICATION Spec
CONSTANTS
    t1 = t1
    t2 = t2
    Thread = {t1, t2}
    Addr = {3, 6, 9, 12}
    NoKey = NoKey
    Value = {v1}
    Null = Null
    Golden = 5
    Radix = 16
    Base = 2
    Step = 2
    Slack = {0}
    MaxOwn <- MCMaxOwn
    Programs <- MCPrograms
INVARIANTS
    RefsCounted
    HalfEmpty
PROPERTIES
    IsTlsMap
CHECK_DEADLOCK FALSE
