SPECIFICATION Spec
CONSTANTS
    MaxWrites = 2
    SyncWrites = {2}
    BufferSize = 2
    CompactionTrigger = 1
    StopTrigger = 2
    MaxFaults = 1
    MaxCrashes = 1
    MaxTroubles = 2
    MaxReaders = 0
INVARIANTS
    NothingLostWithProcess
CHECK_DEADLOCK FALSE
