SPECIFICATION FairSpec
CONSTANTS
    MaxConns = 2
    Calls = {}
    MaxFails = 0
CHECK_DEADLOCK FALSE
PROPERTY GoneShown
