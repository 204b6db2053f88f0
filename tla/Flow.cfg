CONSTANTS
    StreamCapacity = 1
    ReplayLimit = 2
    ReplayChunkLimit = 2
    SourcePayloads = {1}
    StreamPayload = 2
    AdaptiveModes = {FALSE}
    MaxAckRanges = 2
    FlowBuffer = 2
    Nodelays = {TRUE, FALSE}
    WriteSizes = {1, 2}
    TotalBytes = 3
    Events = {}
    MaxBytes = 2
    MaxChunks = 3
    MaxRanges = 1
    MaxOffset = 4
    ByteValues = {0, 1}
    ReceiveWindow = 2
    MaxReceiveRanges = 2
    MaxFramePayload = 2
    ReadSizes = {2}
    MemoryPressure = {FALSE}
    Width = 4
    Hosts <- MCHosts
    MaxTokenLength = 3
    MinSymbolSize = 4
    MaxSpan = 20
    DecoderWindows = {8, 9}
    MaxRangeCount = 2
    SOURCE_DATAGRAM = 12
    REPAIR_DATAGRAM = 13
    MaxSourceRecords = 2
    MaxSymbolLength = 40
    LocalCapabilities <- MCCapabilities
    FrameOffsets <- MCOffsets
    Ports = {255}
    TokenLengths = {3}
    InitialLengths = {4}
    MaxTaskFrames = 2
    FlowBufferBytes = 4
    MAX_OPEN_FRAME_BYTES = 5
    MAX_EARLY_OPEN_OVERHEAD = 26
    PayloadOverhead = 3
    CONTROL_DECODE_BATCH = 1
    CONTROL_READ_CHUNK = 30
    SymbolIds = {65535}
    FlowIds = {64}
    RecordOffsets <- MCRecordOffsets
    Payloads <- MCPayloads
    RecordCounts = {1, 2}
    Seeds = {1}
    MaxChanges = 1
    SymbolSizes = {40, 41}
SPECIFICATION FlowSpec
INVARIANTS NoByteLost ShutdownConfirmed Exact FirstByteWins  DatagramsExact
PROPERTY IsPipe
CHECK_DEADLOCK FALSE
