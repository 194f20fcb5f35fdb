SPECIFICATION FairSpec
CONSTANTS
    MaxUid = 2
    MaxFaults = 2
CHECK_DEADLOCK FALSE
INVARIANT StartIsComplete
INVARIANT StopReachesAll
INVARIANT StaleOnlyIfMissed
PROPERTY ObjectsGoAway
PROPERTY StartCompletes
