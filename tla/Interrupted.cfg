\* Two requests on one VM; a task of any kind fails or loses its answer, a job
\* is canceled, tickets expire and the callers of add_nics give up.
SPECIFICATION FairSpec
CONSTANTS
    v1 = v1
    s1 = s1
    Vms = {v1}
    Servers = {s1}
    Docker = {v1}
    Kinds = {"create", "destroy", "addNics"}
    MaxJobs = 2
    MaxFaults = 1
    MaxCancels = 1
    ExpireHeld = TRUE
    FabricNetwork = 2
    Mounting = {}
    MaxVolumeDeletes = 0
    SyncGets = FALSE
    WaitsGiveUp = TRUE
    FailingTasks = {"acquireVMTicket", "acquireFabricTickets", "getAllocation",
        "waitOnAllocationTicket", "putVmInMoray", "provisionNics", "provision",
        "cnapi", "putVm", "cleanupNics", "removeNics", "createNat",
        "getNetwork", "natZone", "waitForFabricNatProvisions",
        "getFabricNatNics", "listNics", "zoneAction",
        "markVmAsDestroyed", "refreshVm",
        "refreshVmOnError", "destroyNat",
        "waitTask", "answer", "createJob", "releaseVMTicket",
        "releaseVMTicketIgnoringErr", "acquireAllocationTicket",
        "waitOnVMTicket", "checkUpdated", "releaseFabricNatTickets"}
PROPERTY JobsEnd
