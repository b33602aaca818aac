SPECIFICATION PluginSpec
CONSTANTS
    c1 = c1
    c2 = c2
    p1 = p1
    Requesters = {c1, c2}
    Pollers = {p1}
    Sizes = {1, 2}
    Budget = 3
    Images = 2
    MaxSessions = 2
INVARIANTS
    InitMeansImpl
CHECK_DEADLOCK FALSE
