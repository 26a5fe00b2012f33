SPECIFICATION Spec
CONSTANTS
    Proc = {p1, p2}
    Modes = {"user"}
    DataMan = {d1, d2}
    MaxChange = 3
    Attempts = {"once", "forever"}
    MaxWait = "forever"
    Kinds = {"read", "write"}
    Undeterred = TRUE
    MayCrash = "clean"
INVARIANT AccessFresh
PROPERTY IsSharedTable
