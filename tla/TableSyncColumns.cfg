SPECIFICATION Spec
CONSTANTS
    Proc = {p1, p2}
    Modes = {"auto", "user"}
    DataMan = {d1}
    MaxChange = 2
    Attempts = {}
    MaxWait = "forever"
    Kinds = {"column", "columnKeyword"}
    Undeterred = TRUE
    MayCrash = "never"
INVARIANTS AccessLocked LockHonest
