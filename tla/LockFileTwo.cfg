SPECIFICATION FairSpec
CONSTANTS
    Proc = {p1, p2}
    NrReqId = 2
    Types = {"read", "write"}
    Patience = {"once", "long", "forever"}
    Permanent = {p2}
    AutoLocked = {p1}
    MayCrash = TRUE
INVARIANTS TypeOK FlagsSound Exclusive
PROPERTIES AskingKeepsReadLock RequestReturns
