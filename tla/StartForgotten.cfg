SPECIFICATION FairSpec

CONSTANTS
    p1 = p1
    p2 = p2
    q1 = q1
    t1 = t1
    Publics = {p1, p2}
    Requests = {q1}
    Procs = {t1}
    Free = Free
    MaxCalls = 2
    MaxCount = 4
    MaxFaults = 0
    MaxOverlaps = 3

CHECK_DEADLOCK FALSE

PROPERTIES
    AuthorizedNotForgotten
