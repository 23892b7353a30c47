SPECIFICATION FairSpecSynced
CONSTANTS
  Servers = {s1, s2}
  NoServer = NoServer
  MaxJobs = 12
  MaxRecords = 3
  Requested = {"begin", "sync", "pause", "switch", "abort", "rollback", "finalize"}
  Automatic = {FALSE}
  MaxRequests = 2
  MaxOpen = 2
  MaxFaults = 0
  MaxUserActions = 0
  ExpireHeld = FALSE
INVARIANTS AtMostOneVisible SomeVisible NoOrphan RunningHasJob ProtectedByTicket
PROPERTIES RemovesOnlyHidden PromotesCurrent AlwaysSettles
