CONSTANTS
    StreamCapacity = 1
    ReplayLimit = 3
    ReplayChunkLimit = 3
    SourcePayloads = {1}
    StreamPayload = 2
    AdaptiveModes = {FALSE}
    MaxAckRanges = 1
    FlowBuffer = 3
    Nodelays = {TRUE}
    WriteSizes = {3}
    TotalBytes = 3
    Events = {}
    MaxBytes = 3
    MaxChunks = 4
    ReceiveWindow = 3
    MaxReceiveRanges = 1
    MaxFramePayload = 2
    ReadSizes = {3}
    MemoryPressure = {FALSE}
SPECIFICATION LinkSpec
INVARIANT Survives
CHECK_DEADLOCK FALSE
