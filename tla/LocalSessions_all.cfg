SPECIFICATION Spec
CONSTANTS
    Conns = {c1, c2}
    Slots = 2
    EventLimit = 2
    ByteLimit = 1
    MaxEvents = 2
    MaxLeaves = 1
INVARIANTS
    MissingIsDefinitive
    NoSilentLoss
    BudgetIsExact
CHECK_DEADLOCK FALSE
