SPECIFICATION FairSpec
CONSTANTS
    Contents = {c1, c2}
    MaxFiles = 2
    MaxBatch = 2
    MaxDeletions = 1
    MaxCrashes = 1
INVARIANTS
    ReferencedFileStays
PROPERTIES
    StorageConverges
CHECK_DEADLOCK FALSE
