CONSTANTS
    StreamCapacity = 1
    ReplayLimit = 3
    ReplayChunkLimit = 3
    SourcePayloads = {0, 1}
    StreamPayload = 2
    AdaptiveModes = {FALSE, TRUE}
    MaxAckRanges = 2
    FlowBuffer = 2
    Nodelays = {TRUE}
    WriteSizes = {1}
    TotalBytes = 1
    Events = {"disable", "flush", "reset", "drop"}
    MaxBytes = 2
    MaxChunks = 4
    ReceiveWindow = 2
    MaxReceiveRanges = 2
    MaxFramePayload = 2
    ReadSizes = {2}
    MemoryPressure = {FALSE, TRUE}
SPECIFICATION LinkSpec
INVARIANT FlushMeansSent
PROPERTY IsPipe
CHECK_DEADLOCK FALSE
