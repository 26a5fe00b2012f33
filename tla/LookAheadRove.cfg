SPECIFICATION Spec
CONSTANTS
    NoBuffer = NoBuffer
    MaxNBuffers = 2
    MaxWrites = 0
    MaxSelects = 0
    MaxRestarts = 1
    MayRove = TRUE
    Layout <- TwoChunks
INVARIANT RoverServed
CHECK_DEADLOCK FALSE
