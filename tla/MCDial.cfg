\* One dial over every route.
CONSTANT
    Routes = {"direct", "socks", "http", "https"}
SPECIFICATION FairSpec
INVARIANTS
    NothingLeaks
    NoDeadlineLeft
PROPERTIES
    LateCancelHarmless
    DialReturns
CHECK_DEADLOCK FALSE
