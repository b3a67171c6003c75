SPECIFICATION Spec
CONSTANTS
    Procs = {p1, p2}
    NoProc = NoProc
    Latest = 1
    MaxStops = 2
    Clients = {c1, c2}
INVARIANTS
    SocketLeadsToHolder
    MetadataNeverAhead
PROPERTIES
    EveryRequestIsRead
