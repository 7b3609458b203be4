SPECIFICATION FairSpec
CONSTANTS
    Thread = {t1, t2, t3, t4}
    ValueInit = 1
    ValueMax = 2
    PostMax = 2
PROPERTIES
    SleepsProperly
    IsCountingSem
    SignalReturns
    TokensReachSleepers
CHECK_DEADLOCK FALSE
