SPECIFICATION Spec
CONSTANTS
    MaxStream = 2
    BatchSize = 2
    MaxEvents = 2
    MaxFaults = 1
CHECK_DEADLOCK FALSE
PROPERTY UnbilledStaysPending
