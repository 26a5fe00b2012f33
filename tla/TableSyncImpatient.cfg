SPECIFICATION Spec
CONSTANTS
    Proc = {p1, p2}
    Modes = {"auto"}
    DataMan = {d1}
    MaxChange = 2
    Attempts = {"once"}
    MaxWait = "once"
    Kinds = {"read", "write"}
    Undeterred = TRUE
    MayCrash = "never"
INVARIANT AccessLocked
