SPECIFICATION Spec
CONSTANTS
    MaxFrame = 1
    MaxPushes = 2
    MaxFlushes = 1
    Buffers = 2
    Reorders = FALSE
INVARIANT
    FlushLetsCatchUp
CHECK_DEADLOCK FALSE
