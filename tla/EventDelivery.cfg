SPECIFICATION FairSpec
CONSTANTS
    MaxStream = 2
    BatchSize = 2
    MaxEvents = 4
    MaxFaults = 2
CHECK_DEADLOCK FALSE
INVARIANT TypeOK
INVARIANT PostedOnceInOrder
INVARIANT NoneVanishes
PROPERTY CourseSpec
PROPERTY CdrBilledUnlessFault
