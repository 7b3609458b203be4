SPECIFICATION Spec
CONSTANTS
    Thread = {t1, t2, t3}
    Value = {0, 1}
    ValueInit = 0
    Undesired = {0, 1}
INVARIANT ChangeIsSeen
CHECK_DEADLOCK FALSE
