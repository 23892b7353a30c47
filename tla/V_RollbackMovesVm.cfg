SPECIFICATION SpecSwitched
CONSTANTS
  Servers = {s1, s2}
  NoServer = NoServer
  MaxJobs = 10
  MaxRecords = 2
  Requested = {"rollback"}
  Automatic = {FALSE}
  MaxRequests = 1
  MaxOpen = 1
  MaxFaults = 0
  MaxUserActions = 0
  ExpireHeld = FALSE
SYMMETRY ServerSymmetry
INVARIANTS VmAtPrimary
