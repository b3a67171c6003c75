SPECIFICATION Spec
CONSTANTS
    MaxSeq = 4
    MaxWork = 4
    MaxRun = 4
    Audiences = {private, chat}
    ActorPrivate = private
    Inputs = {"local", "gateway", "webhook", "cancel"}
    AttachLimit = 8
    ModelSteps = 2
    FailureLimit = 2
    MaxFaults = 0
    MaxCrashes = 1
INVARIANTS
    PendingWorkIsOpen
PROPERTIES
    CancelSettlesItsTargets
CHECK_DEADLOCK FALSE
