SPECIFICATION Spec
CONSTANTS
    Proc = {p1, p2}
    Modes = {"auto", "user"}
    DataMan = {d1}
    MaxChange = 3
    Attempts = {"forever"}
    MaxWait = "forever"
    Kinds = {"read", "write", "keyword"}
    Undeterred = FALSE
    MayCrash = "clean"
INVARIANTS TypeOK AccessFresh CountersTell UpdatesLocked
PROPERTY IsSharedTable
