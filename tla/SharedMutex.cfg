SPECIFICATION SharedFairSpec
CONSTANTS
    Thread = {t1, t2, t3}
    ShareValues = 4
    WordValues = 32
PROPERTIES
    SleepsProperly
    IsSharedLock
    ReadersDrain
