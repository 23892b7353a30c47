SPECIFICATION SpecSynced
CONSTANTS
  Servers = {s1, s2}
  NoServer = NoServer
  MaxJobs = 10
  MaxRecords = 2
  Requested = {"begin", "sync", "pause", "switch", "abort", "rollback", "finalize"}
  Automatic = {FALSE}
  MaxRequests = 1
  MaxOpen = 1
  MaxFaults = 0
  MaxUserActions = 1
  ExpireHeld = TRUE
SYMMETRY ServerSymmetry
INVARIANTS AtMostOneVisible
