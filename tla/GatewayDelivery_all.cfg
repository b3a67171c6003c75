SPECIFICATION Spec
CONSTANTS
    Messages = {m1, m2}
    Chats = {c1}
    Peers = {p1}
    MaxChunks = 2
    MaxIntents = 2
    MaxRows = 3
    Batch = 2
    Concurrency = 2
    MaxRenewals = 1
    MaxFaults = 1
    MaxStops = 1
INVARIANTS
    RowTellsOutcome
    ChunksInOrder
    LiveClaimsHold
    QueueNeverStuck
PROPERTIES
    NeverRepeatedInDoubt
CHECK_DEADLOCK FALSE
