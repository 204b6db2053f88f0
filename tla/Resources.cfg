SPECIFICATION ResourcesSpec
CONSTANTS
    Width = 2
    Reduction = 3
    Symbols = {0, 1, 2}
    Payload <- ThePayload
    Size <- TheSizes
    MaxSymbols = 2
    MaxRows = 2
    MaxSymbolBytes = 2
    MemoryLimit = 46
    f1 = f1
    f2 = f2
    Flows = {f1, f2}
    RecordsOf <- TheRecords
    Repairs <- TheRepairs
    PreOpenSymbols = 2
    FlowCapacity = 3
    Identities = {1}
    Nonces = {1}
    Capabilities <- MCCapabilities
    KeptTokens <- MCKeptTokens
    Profiles <- MCProfiles
    MaxTime = 1
    MaxEpoch = 1
    max_attempts = 1
    Calls = {c1, c2}
    PeerOf <- MCPeerOf
    max_active = 2
    EarlyLimit = 1
    ServerAdaptive = TRUE
    ServerRequires = TRUE
    Slots = {b1, b2}
    HostCalls = {h1, h2}
    Owners = {o1, o2}
    Lengths = {1, 2, 3}
    OutputSizes = {1, 2}
    mtu = 2
    max_packets_per_poll = 2
INVARIANTS ChargesExact NoneStranded Recovers  DeliveredOnce OneOwner Intact
PROPERTY AdmittedOnce
SYMMETRY CallsAlike
CHECK_DEADLOCK FALSE
