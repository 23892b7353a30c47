SPECIFICATION SpecSynced
CONSTANTS
  Servers = {s1, s2}
  NoServer = NoServer
  MaxJobs = 20
  MaxRecords = 6
  Requested = {"begin", "sync", "pause", "switch", "abort", "rollback", "finalize"}
  Automatic = {FALSE}
  MaxRequests = 4
  MaxOpen = 1
  MaxFaults = 1
  MaxUserActions = 0
  ExpireHeld = FALSE
SYMMETRY ServerSymmetry
INVARIANTS OneRuns PrimaryIsCurrent
