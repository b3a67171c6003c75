SPECIFICATION FairSpec
CONSTANTS
    MaxSeq = 3
    MaxWork = 3
    MaxRun = 3
    Audiences = {private, chat}
    ActorPrivate = private
    Inputs = {"local", "gateway"}
    AttachLimit = 8
    ModelSteps = 2
    FailureLimit = 3
    MaxFaults = 1
    MaxCrashes = 1
PROPERTIES
    EveryRequestSettles
CHECK_DEADLOCK FALSE
