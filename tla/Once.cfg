SPECIFICATION FairSpec
CONSTANTS
    Thread = {t1, t2, t3, t4}
INVARIANTS
    NoLostWakeup
PROPERTIES
    SleepsProperly
    IsOnceCell
    ReadyEndsWaits
    AbortPassesOn
