SPECIFICATION Spec
CONSTANTS
    MaxSeq = 4
    MaxWork = 4
    MaxRun = 4
    Audiences = {private}
    ActorPrivate = private
    Inputs = {"local", "cancel", "tool"}
    AttachLimit = 2
    ModelSteps = 2
    FailureLimit = 2
    MaxFaults = 3
    MaxCrashes = 1
INVARIANTS
    TablesInStep
    RunAndWorkAgree
    RunnerOwnsRun
    AttachedInOrder
    AcquiredActorHasWork
PROPERTIES
    OnlyReattachmentSkipsRecovery
    OnlyTwoEndsStopDaemon
CHECK_DEADLOCK FALSE
