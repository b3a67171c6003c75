SPECIFICATION FairActorsSpec
CONSTANTS
    Actors = {a, d}
    Default = d
    Tools = {bash}
    Events = {e1, e2}
    MaxChanges = 4
    MaxCrashes = 1
INVARIANTS
    OneQuantumPerActor
    DeletedLeavesNothing
PROPERTIES
    NothingOnceDisabled
    TasksFollowTable
CHECK_DEADLOCK FALSE
