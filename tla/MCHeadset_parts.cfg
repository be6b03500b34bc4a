CONSTANTS
    MaxFrame = 1
    MaxPushes = 3
    MaxFlushes = 1
    Buffers = 1
    Reorders = FALSE
    Windows = {w1, w2}
    NoWindow = NoWindow
    MaxStarts = 2
    MaxCallbacks = 3
    MaxFailures = 1
    MaxFovs = 1
    RingLength = 3
    WarpDepth = 2
    MaxStreams = 2
    MaxSleeps = 2
    MaxSwitches = 1
    MaxUpdates = 2
    Servers = {local, s1}
    Local = local
    NoServer = NoServer
    MaxEdits = 2
    MaxChanges = 1
    MaxRestarts = 1
    UiSettings = 1
    Values = {0, 1, 2}
    MaxSets = 2
    MaxDeaths = 1
SPECIFICATION HeadsetSpec
INVARIANTS
    WindowsHeld
    OneReadPerSwap
    WarpUndisturbed
    FileFollows
PROPERTIES
    DecoderServes
    SurfaceShown
    LoopPictureFollows
    PanelFollows
    ServersShown
\* The decoder is destroyed; the app is stopped for good when no start is left.
CHECK_DEADLOCK FALSE
