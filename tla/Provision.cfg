\* Two VMs are created and destroyed on two servers, on a network that wants a
\* NAT zone and with a shared volume; one task of any kind fails.
SPECIFICATION Spec
CONSTANTS
    v1 = v1
    v2 = v2
    s1 = s1
    s2 = s2
    Vms = {v1, v2}
    Servers = {s1, s2}
    Docker = {v1}
    Kinds = {"create", "destroy"}
    MaxJobs = 2
    MaxFaults = 1
    MaxCancels = 0
    ExpireHeld = FALSE
    FabricNetwork = 1
    Mounting = {v1, v2}
    MaxVolumeDeletes = 1
    SyncGets = FALSE
    WaitsGiveUp = FALSE
    FailingTasks = {"acquireVMTicket", "acquireFabricTickets", "getAllocation",
        "waitOnAllocationTicket", "putVmInMoray", "provisionNics", "provision",
        "cnapi", "putVm", "createNat",
        "getNetwork", "natZone", "waitForFabricNatProvisions", "loadVolume",
        "reserveVolume", "createVolume", "volume", "addVolumesReferences",
        "getFabricNatNics", "listNics", "zoneAction",
        "refreshVmOnError", "removeVolumesReferences", "destroyNat"}
INVARIANTS
    TypeOK
    NicsSettle
    NoOvercommit
    TicketsReleased
    MountedVolumeKept
    FailedIsGone
SYMMETRY Symmetry
