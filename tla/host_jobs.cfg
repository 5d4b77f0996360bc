SPECIFICATION FairSpec
CONSTANTS
    j1 = j1
    Jobs = {j1}
    MaxFaults = 2
    MaxLocks = 1
    MaxInFlight = 1
INVARIANTS
    RefusedNeverRan
    ResultKept
    StoppedMeansKilled
    NothingRunsLocked
PROPERTIES
    EveryJobSettles
    BlockedHostGetsLocked
CHECK_DEADLOCK FALSE
