SPECIFICATION Spec
CONSTANTS
    Data = {zero, x}
    Fresh = zero
    MaxBuckets = 3
    MaxLRU = 3
    Sizes = {0, 1, 2}
    Forgetful = FALSE
INVARIANTS TypeOK CachedWhereKnown FreeListSound
PROPERTIES IsStore LastUsedSurvives
