SPECIFICATION FairSpec
CONSTANTS
    a = a
    b = b
    l1 = l1
    l2 = l2
    s1 = s1
    s2 = s2
    s3 = s3
    p1 = p1
    ChargePoints = {a}
    Loops = {l1}
    CpOf <- OneCharger
    Sessions = {s1}
    Publics = {}
    NoCp = NoCp
    NoSession = NoSession
    Rfid = Rfid
    InitialReadings = {1}
    MaxTxn = 1
    MaxRegister = 1
    MaxFails = 1
CHECK_DEADLOCK FALSE
PROPERTY CompletedGetsCdr
