SPECIFICATION FairSpec
CONSTANTS
    Proc = {p1, p2}
    NrReqId = 2
    Types = {"read", "write"}
    Patience = {"forever"}
    Permanent = {}
    AutoLocked = {p1}
    MayCrash = FALSE
PROPERTY RequestHeard
