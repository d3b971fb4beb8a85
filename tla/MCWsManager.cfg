SPECIFICATION FairSpec
CONSTANTS
    Conns = {c1, c2, c3}
    NoOne = NoOne
    MayFail = TRUE
INVARIANTS TypeOK OrderlyUse ListIsExact AllReleased
PROPERTIES CallsReturn
CHECK_DEADLOCK FALSE
