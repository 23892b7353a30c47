\* Two waits on two jobs: a listen call that ends, an error of the API at the
\* limit, notifications lost or late, timers that fire in any order.
SPECIFICATION FairSpec
CONSTANTS
  WfJobs = {j1, j2}
  Waits = {w1, w2}
  NoWfJob = NoWfJob
  MaxListenErrors = 1
  ErrorLimit = 1
  AttemptLimit = 1
  MaxApiErrors = 1
INVARIANTS TypeOK HandlersAreWaits PolledUntilAnswered NoListenLeft
PROPERTIES AnsweredAsPromised KeptWhileWaited EveryWaitEnds ListenCallEnds
