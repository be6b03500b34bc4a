SPECIFICATION DevicesSpec
CONSTANTS
    MaxFrame = 2
    MaxPushes = 3
    MaxFlushes = 2
    Buffers = 2
    Reorders = TRUE
    MaxToggles = 2
    MaxBroken = 2
    MaxLaunches = 2
INVARIANTS
    InfoKept
    OneBufferLost
    CameraOwned
PROPERTIES
    ShowsInOrder
\* The decoder is destroyed; threads that meet in the camera end its model.
CHECK_DEADLOCK FALSE
