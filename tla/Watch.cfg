\* A watch of two actions, the first already under way or the only one, with a
\* progress event and a restart, a DELETE of the record or a failing lookup.
SPECIFICATION FairSpec
CONSTANTS
    w1 = w1
    Watches = {w1}
    Attempts = 2
    MaxActions = 1
    MaxEvents = 1
    MaxFaults = 1
INVARIANTS
    TypeOK
    EntriesInOrder
PROPERTY WatchEnds
