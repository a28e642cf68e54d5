SPECIFICATION FairSpec

CONSTANTS
    p1 = p1
    q1 = q1
    q2 = q2
    t1 = t1
    t2 = t2
    Publics = {p1}
    Requests = {q1, q2}
    Procs = {t1, t2}
    Free = Free
    MaxCalls = 3
    MaxCount = 4
    MaxFaults = 1
    MaxOverlaps = 3

CHECK_DEADLOCK FALSE

INVARIANTS
    TypeOK
    ChargedWasPaid
    SentOncePerTrigger
    RetriesBounded

PROPERTIES
    StartSpec
    QueuedIsSettled
