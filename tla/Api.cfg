SPECIFICATION ASpec
CONSTANTS
    Thread = {t1, t2, t3}
    None = none
    Kinds = {"none", "mutex", "rwlock", "rc", "plain", "timed"}
    MaxDepth = 2
    MaxItems = 2
INVARIANTS
    ClientViewIsTrue
    OwnerIsHolder
    NoItemForgotten
PROPERTIES
    SleepsProperly
SYMMETRY Alike
CHECK_DEADLOCK FALSE
