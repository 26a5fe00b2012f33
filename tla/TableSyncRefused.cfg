SPECIFICATION Spec
CONSTANTS
    Proc = {p1, p2}
    Modes = {"user"}
    DataMan = {d1}
    MaxChange = 3
    Attempts = {"once"}
    MaxWait = "forever"
    Kinds = {"read", "write", "keyword"}
    Undeterred = TRUE
    MayCrash = "never"
INVARIANT AccessFresh
