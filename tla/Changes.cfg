\* Two requests of any kind overlap on a VM that runs or is stopped, some of them
\* beside GETs that refresh its record.
SPECIFICATION SpecExisting
CONSTANTS
    v1 = v1
    s1 = s1
    Vms = {v1}
    Servers = {s1}
    Docker = {v1}
    Kinds = {"create", "destroy", "addNics", "removeNics", "updateNics",
        "start", "stop", "kill", "reboot", "reprovision", "update",
        "snapshot", "deleteSnapshot", "rollback"}
    MaxJobs = 2
    FailingTasks = {}
    MaxFaults = 0
    MaxCancels = 0
    ExpireHeld = FALSE
    FabricNetwork = 2
    Mounting = {v1}
    MaxVolumeDeletes = 1
    SyncGets = TRUE
    WaitsGiveUp = FALSE
INVARIANT OneTaskPerVm
 
CONSTRAINT FewGets
