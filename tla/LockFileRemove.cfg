SPECIFICATION Spec
CONSTANTS
    Proc = {p1, p2}
    NrReqId = 2
    Types = {"write"}
    Patience = {"forever"}
    Permanent = {}
    AutoLocked = {}
    MayCrash = FALSE
PROPERTY RemovesOwnRequest
