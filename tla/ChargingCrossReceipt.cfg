SPECIFICATION Spec
CONSTANTS
    a = a
    b = b
    l1 = l1
    l2 = l2
    s1 = s1
    s2 = s2
    s3 = s3
    p1 = p1
    ChargePoints = {a, b}
    Loops = {l1, l2}
    CpOf <- TwoChargers
    Sessions = {s1, s2}
    Publics = {p1}
    NoCp = NoCp
    NoSession = NoSession
    Rfid = Rfid
    InitialReadings = {1}
    MaxTxn = 2
    MaxRegister = 2
    MaxFails = 0
CHECK_DEADLOCK FALSE
INVARIANT ReceiptShowsOwnSession
