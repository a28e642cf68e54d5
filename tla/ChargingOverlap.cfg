SPECIFICATION Spec
CONSTANTS
    a = a
    b = b
    l1 = l1
    l2 = l2
    s1 = s1
    s2 = s2
    s3 = s3
    p1 = p1
    ChargePoints = {a}
    Loops = {l1, l2}
    CpOf <- OverlappingLoops
    Sessions = {s1, s2}
    Publics = {}
    NoCp = NoCp
    NoSession = NoSession
    Rfid = Rfid
    InitialReadings = {1}
    MaxTxn = 2
    MaxRegister = 3
    MaxFails = 1
CHECK_DEADLOCK FALSE
SYMMETRY OverlapSymmetry
INVARIANT TypeOK
INVARIANT AtMostOneCdr
INVARIANT CdrBillsFinalEnergy
INVARIANT BillingInv
PROPERTY CompletedIsFinal
PROPERTY ActiveEnergyGrows
PROPERTY LedgerSpec
