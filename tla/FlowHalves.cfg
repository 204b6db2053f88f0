CONSTANTS
    StreamCapacity = 1
    ReplayLimit = 2
    ReplayChunkLimit = 2
    SourcePayloads = {1}
    StreamPayload = 2
    AdaptiveModes = {FALSE}
    MaxAckRanges = 2
    FlowBuffer = 2
    Nodelays = {TRUE}
    WriteSizes = {1, 2}
    TotalBytes = 2
    Events = {"full", "reset", "disable"}
    MaxFeedbackOffset = 2
    MaxPeerOffset = 3
    PeerBytes = {0}
    MaxBytes = 2
    MaxChunks = 1
    ReceiveWindow = 2
    MaxReceiveRanges = 1
    MaxFramePayload = 1
    ReadSizes = {1}
    MemoryPressure = {FALSE}
SPECIFICATION HalvesSpec
INVARIANTS RetainedExact ReceivedExact
PROPERTY HeldUntilAcknowledged
CHECK_DEADLOCK FALSE
