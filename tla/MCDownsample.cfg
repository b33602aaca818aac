SPECIFICATION FairSpec
CONSTANTS
    Times <- Stream
    SecondLen = 4
    MaxCache = 3
    Unreadable = {}
    Modes <- Downsampled
PROPERTIES
    TestEnds
CHECK_DEADLOCK FALSE
