SPECIFICATION PartsSpec
CONSTANTS
    PathModes = {"off", "failover"}
    RetryLimit = 2
    EventCapacity = 3
    StatusLimit = 3
    Sessions = {1, 2}
    ClientTokens = {"quicp", "other"}
    QUICP_PROFILE = "quicp"
    HeaderUnits = 2
    MessageUnits = 3
    Params = {"old", "new"}
    ReceiveKinds = {"batch", "windivert"}
    PayloadLengths = {1, 2, 3}
    MaxArrivals = 4
    ReceiveSlots = 2
    BufferLength = 2
    GRO_SEGMENTS = 2
    RECV_BATCH_SIZE = 3
    CHANNEL_CAPACITY = 1
    MAX_DECODE_REJECTS_PER_POLL = 2
    Senders = {s1, s2}
    Shapes <- MCShapes
    MaxTransmits = 3
    SEND_BATCH_SIZE = 2
    InitialSequence = 13
    Modulus = 16
    Transient = FALSE
    Clients = {client}
    Servers = {server}
    Operations = {a}
    PanicTasks = {"driver"}
    MaxFlows = 2
    MaxRequests = 2
INVARIANTS  HandshakeAgrees  NumbersTile HandleReaches FlowsClaimed
PROPERTIES LossNoticed HandshakeEnds PacketsHandled  
CHECK_DEADLOCK FALSE
