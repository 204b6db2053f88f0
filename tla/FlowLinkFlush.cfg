CONSTANTS
    StreamCapacity = 1
    ReplayLimit = 3
    ReplayChunkLimit = 3
    SourcePayloads = {1}
    StreamPayload = 2
    AdaptiveModes = {FALSE}
    MaxAckRanges = 2
    FlowBuffer = 2
    Nodelays = {TRUE}
    WriteSizes = {1}
    TotalBytes = 1
    Events = {"flush"}
    MaxBytes = 2
    MaxChunks = 4
    ReceiveWindow = 2
    MaxReceiveRanges = 2
    MaxFramePayload = 2
    ReadSizes = {2}
    MemoryPressure = {FALSE}
SPECIFICATION FairSpec
PROPERTY FlushCompletes
CHECK_DEADLOCK FALSE
