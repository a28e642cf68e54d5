SPECIFICATION FairSpec
CONSTANTS
    MaxConns = 3
    Calls = {m1}
    MaxFails = 1
CHECK_DEADLOCK FALSE
INVARIANT TypeOK
INVARIANT RegisteredIsServed
INVARIANT AnswersAreTracked
INVARIANT ReachableUnlessOverlapped
PROPERTY GoneShownUnlessOverlapped
PROPERTY ServedShown
