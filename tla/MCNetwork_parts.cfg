CONSTANTS
    Pins <- MCPins
    ServerPin = "right"
    Fallback = "000000"
    Addresses = 2
    SM_MODULUS = 23
    SM_ORDER = 11
    SM_GENERATOR = 2
    Hash <- MCHash
    SecretNumbers = {3, 7}
    Exponents = {1, 6, 11}
    Nonces = {0, 4}
    output_buffer_capacity = 2
    Wrap = 16
    Fill = 1
    Low = 1
    High = 2
    MaxRequest = 1
    MaxSize = 2
    MaxPackets = 2
    MaxEvents = 2
    Senders = {t1, t2}
    Nobody = Nobody
    MaxControl = 3
    MaxUnits = 2
    Batch = 2
    MaxDatagrams = 3
    Buffers = 3
    Streams = {0, 1}
    Raw = {1}
    MaxFrame = 4
    LastShard <- MCLastShard
    MaxSessions = 2
SPECIFICATION NetworkSpec
INVARIANTS
    NetworkTypeOK
    OkAgrees
    PinsCompared
    OverlapNeeded
    KeystreamAligned
    HeldIntact
    WholeFrames
    PushedWasSent
PROPERTIES
    NobodyWaits
    HeardInOrder
    PacketsDelivered
    PushesInOrder
    FramesPushed
\* The attempt ends, the object is gone, everything sent has arrived, the last session is over.
CHECK_DEADLOCK FALSE
