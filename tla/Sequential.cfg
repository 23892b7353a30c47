SPECIFICATION Spec
CONSTANTS
  Servers = {s1, s2}
  NoServer = NoServer
  MaxJobs = 24
  MaxRecords = 6
  Requested = {"begin", "sync", "pause", "switch", "abort", "finalize"}
  Automatic = {TRUE,FALSE}
  MaxRequests = 5
  MaxOpen = 1
  MaxFaults = 1
  MaxUserActions = 0
  ExpireHeld = FALSE
SYMMETRY ServerSymmetry
INVARIANTS TypeOK RetryLeavesNoTarget VmAtPrimary
