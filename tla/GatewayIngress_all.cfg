SPECIFICATION FairSpec
CONSTANTS
    Actors = {a, d}
    Default = d
    Tools = {}
    Events = {1, 2, 11, 12}
    MaxChanges = 3
    MaxCrashes = 1
    MaxUpdate = 2
    Contents <- MCContents
    s1 = s1
    s2 = s2
    k1 = k1
    Subjects = {s1, s2}
    Linked = {s1}
    Codes = {k1}
    Hooks = {11, 12}
    AttemptLimit = 1
    None = None
INVARIANTS
    LinksAreEarned
    LatestOnly
PROPERTIES
    NeverSkipped
    EveryUpdateIsHandled
CHECK_DEADLOCK FALSE
