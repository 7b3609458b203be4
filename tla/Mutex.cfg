SPECIFICATION FairSpec
CONSTANTS
    Thread = {t1, t2, t3}
    NSlot = 2
    NFailMax = 1
    SpinThreshold = 1
    SpinUnit = 1
INVARIANTS
    TypeOK
    MutualExclusion
    NoLostWakeup
PROPERTIES
    SleepsProperly
    IsTimedLock
    UnlockReturns
    SomebodyLocks
