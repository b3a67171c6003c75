SPECIFICATION FairSpec
CONSTANTS
    Conns = {c1, c2}
    MaxPauses = 1
    MaxCrashes = 1
INVARIANTS
    OneSequencePerConnection
    FinalAfterAccepted
    ClaimFollowsWorker
PROPERTIES
    AckNeverTruncates
    ImplementsContract
    ResultReachesAClient
CHECK_DEADLOCK FALSE
