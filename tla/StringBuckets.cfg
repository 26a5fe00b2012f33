SPECIFICATION Spec
CONSTANTS
    tiny = tiny
    brief = brief
    lengthy = lengthy
    shape = shape
    array = array
    Scalars = {s}
    Arrays = {a}
    Strings = {tiny, brief, lengthy}
    Shapes = {shape}
    Filled = {array}
    Size <- MCSize
    Nothing = Nothing
    Garbage = Garbage
    RowsPerBucket = 2
    BucketLength = 4
    NearlyFull = 2
    ShortLength = 1
    MaxBuckets = 4
    MaxRows = 2
    ArrayRowsStay = TRUE
    ShapeOnce = TRUE
INVARIANTS HoldsWhatWasPut BytesCounted
