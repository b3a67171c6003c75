SPECIFICATION BridgeSpec
CONSTANTS
    Messages = {m1, i1}
    Inbounds = {i1}
    PipeLimit = 1
    None = None
    Chats = {}
    Peers = {p1}
    MaxChunks = 2
    MaxIntents = 2
    MaxRows = 3
    Batch = 2
    Concurrency = 2
    MaxRenewals = 1
    MaxFaults = 1
    MaxStops = 1
INVARIANTS
    ProtocolAgrees
PROPERTIES
    NothingIsForgotten
CHECK_DEADLOCK FALSE
