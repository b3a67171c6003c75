SPECIFICATION FairSpec
CONSTANTS
    Conns = {c1, c2}
    Slots = 2
    EventLimit = 2
    ByteLimit = 1
    MaxEvents = 1
    MaxLeaves = 0
PROPERTIES
    EverySessionEnds
CHECK_DEADLOCK FALSE
