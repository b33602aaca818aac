SPECIFICATION FairSpec
CONSTANTS
    Times <- Pictures
    SecondLen = 4
    MaxCache = 3
    Unreadable = {5}
    Modes <- LostEnd
PROPERTIES
    AgentStops
CHECK_DEADLOCK FALSE
