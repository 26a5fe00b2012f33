SPECIFICATION Spec
CONSTANTS
    Data = {zero, x}
    Fresh = zero
    MaxBuckets = 3
    MaxLRU = 20
    Sizes = {2, 3}
    Forgetful = TRUE
INVARIANT CachedWhereKnown
