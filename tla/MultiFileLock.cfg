SPECIFICATION Spec
CONSTANTS
    Proc = {p1, p2}
    Names = {a, b}
    Values = {x, y}
    Zero = Zero
    Gap = Gap
    Absent = Absent
    None = None
    BlockSize = 2
    MaxBlocks = 2
    MaxSize = 3
    MaxChange = 5
    UseODirect = FALSE
    MayCrash = FALSE
    Resyncs = FALSE
INVARIANT SeesFlushed
SYMMETRY Interchangeable
