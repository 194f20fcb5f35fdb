SPECIFICATION Spec
CONSTANTS
    Requests = {r1, r2}
    Ops = {"take", "nameless", "overwrite", "delete", "gc", "reset", "clone", "unclone"}
    Prefixes = {base}
    AutoName = auto
    Clones = {c1}
    Keep = 1
    PerMinute = 2
    MaxId = 3
    MaxNow = 3
    MaxFaults = 1
CHECK_DEADLOCK FALSE
SYMMETRY Symmetry
INVARIANT NameSurvivesOverwrite
PROPERTY CollectsTheOldest
PROPERTY ResetRemoves
PROPERTY OverwriteRenews
