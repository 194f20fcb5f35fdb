SPECIFICATION FairSpec
CONSTANTS
    Names = {n1, n2}
    Orphans = {n2}
    MaxUid = 2
    Reused = {n1}
    Shared = {n2}
    OtherTypes = {n1}
    MaxFaults = 1
    Collectors = {g1}
    Resets = {r1}
INVARIANT FreshNameKeepsClone
PROPERTY GCHitsOnlyLateComers
PROPERTY OrphansCollected
