\* moray.js: findRecordsToMigrate calls back with "any error that occurred".
SPECIFICATION FairSpec
CONSTANTS
    Buckets <- TwoBuckets
    Models = {"vms"}
    Keys = {k1, k2}
    k1 = k1
    k2 = k2
    NewVersion = 3
    LostIndexes = {}
    Chunks = 1
    MaxFaults = 1
    DataVersion = 1
    ChunkSize = 1
    FindErrors = TRUE
    MaxReconnects = 0
    MaxWrites = 0
PROPERTY StartupEnds
CHECK_DEADLOCK FALSE
