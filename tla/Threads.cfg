SPECIFICATION Spec
CONSTANTS
    Thread = {main, t1, t2}
    Main = main
    Block = {b1, b2}
    MainSt = mainSt
    OomSt = oomSt
    None = none
    Bad = bad
    MaxMade = 1
    MaxOwn = 1
SYMMETRY Alike
CHECK_DEADLOCK FALSE
INVARIANTS
    RefsCounted
    NothingLost
    CodeHasArguments
    NoneForgotten
PROPERTIES
    FreedIsEmpty
    JoinGetsResult
