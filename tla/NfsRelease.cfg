SPECIFICATION FairSpec
CONSTANTS
    Clones = {c1, c2}
    Requests = {r1, r2}
    Configured = 16
    MaxFaults = 2
INVARIANT ThreadsRestored
INVARIANT SharesRestored
INVARIANT OutageIsOwned
PROPERTY OutageEnds
