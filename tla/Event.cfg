SPECIFICATION FairSpec
CONSTANTS
    Thread = {t1, t2, t3, t4}
    Value = {0, 1, 2}
    ValueInit = 0
    Undesired = {0}
INVARIANTS
    ChangeIsSeen
PROPERTIES
    SleepsProperly
    ChangeEndsWaits
CHECK_DEADLOCK FALSE
