\* The process starts on buckets of any version, with two records at any
\* version; moray fails once, its client connects once more, a request writes.
SPECIFICATION FairSpec
CONSTANTS
    Buckets <- TwoBuckets
    Models = {"vms"}
    Keys = {k1, k2}
    k1 = k1
    k2 = k2
    NewVersion = 3
    LostIndexes = {1}
    Chunks = 1
    MaxFaults = 1
    DataVersion = 2
    ChunkSize = 1
    FindErrors = FALSE
    MaxReconnects = 1
    MaxWrites = 1
INVARIANTS
    TypeOK
    SearchSeesAll
    HealthyIsSetUp
PROPERTIES
    MigratesIndexed
    WritesKept
    StartupEnds
