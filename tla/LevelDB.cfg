SPECIFICATION FairSpec
CONSTANTS
    MaxWrites = 3
    SyncWrites = {2}
    BufferSize = 1
    CompactionTrigger = 1
    StopTrigger = 2
    MaxFaults = 2
    MaxCrashes = 2
    MaxTroubles = 2
    MaxReaders = 1
INVARIANTS
    TypeOK
    ProcessMayDie
    MachineMayDie
    ReadsFindWrites
    NeededFilesExist
    NumbersFresh
PROPERTIES
    WritesReturn
