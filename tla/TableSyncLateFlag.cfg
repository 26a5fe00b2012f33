SPECIFICATION Spec
CONSTANTS
    Proc = {p1, p2}
    Modes = {"auto"}
    DataMan = {d1}
    MaxChange = 2
    Attempts = {"forever"}
    MaxWait = "forever"
    Kinds = {"read", "write", "column"}
    Undeterred = TRUE
    MayCrash = "never"
INVARIANT UpdatesLocked
