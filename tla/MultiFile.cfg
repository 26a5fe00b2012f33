SPECIFICATION Spec
CONSTANTS
    Proc = {p1}
    Names = {a, b}
    Values = {x, y}
    Zero = Zero
    Gap = Gap
    Absent = Absent
    None = None
    BlockSize = 2
    MaxBlocks = 3
    MaxSize = 3
    MaxChange = 5
    UseODirect = FALSE
    MayCrash = TRUE
    Resyncs = FALSE
INVARIANTS TypeOK BlocksUnshared ReadsContent
PROPERTY IsVirtualFiles
SYMMETRY Interchangeable
