\* The bound on the frames stops the decoders, never the render thread.  The
\* gap is short enough for five frames to open it.
SPECIFICATION Spec
CONSTANTS
    MaxFrame = 4
    MaxStores = 5
    MaxSessions = 2
    FlushGap = 2
INVARIANTS
    SlotsSuffice
    RingOfSession
    FlushOnlyWhenBehind
