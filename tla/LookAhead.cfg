SPECIFICATION Spec
CONSTANTS
    NoBuffer = NoBuffer
    MaxNBuffers = 2
    MaxWrites = 2
    MaxSelects = 1
    MaxRestarts = 2
    MayRove = FALSE
    Layout <- TwoChunks
INVARIANTS TypeOK RingInOrder NothingFails MoreIsRight WritesDone
PROPERTIES IsIterator CallsReturn
CHECK_DEADLOCK FALSE
