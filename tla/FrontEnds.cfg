SPECIFICATION FrontSpec
CONSTANTS
    RowValues = {"default", "x"}
    Puts = {"u1", "u2"}
    Tabs = {"t1", "t2"}
    Slots = {"q1", "q2"}
    MaxAttempts = 2
    MaxCodes = 2
    Lifetime = 1
    Capacity = 3
    MaxClock = 3
    MaxPushes = 4
    Energies = {1234}
    Entries = {"q1"}
    MaxRequests = 2
    MaxStreams = 3
CHECK_DEADLOCK FALSE
INVARIANT FrontTypeOK
INVARIANT OwnWritesShown
INVARIANT NoneStranded
INVARIANT GuessesBounded
INVARIANT SettingsCurrent
INVARIANT SiteViewsAgree
INVARIANT ChartsFaithful
INVARIANT HomePageSettles
PROPERTY AnnouncedIsShown
PROPERTY UntouchedKept
PROPERTY EditReachesRow
PROPERTY UntouchedSettingKept
