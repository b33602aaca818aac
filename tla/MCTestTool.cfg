SPECIFICATION FairSpec
CONSTANTS
    Times <- Pictures
    SecondLen = 4
    MaxCache = 3
    Unreadable = {5}
    Modes <- AllModes
INVARIANTS
    TestTypeOK
    AllReported
    CacheReleased
    RecordsMatch
PROPERTIES
    PromiseKept
    TestEnds
CHECK_DEADLOCK FALSE
