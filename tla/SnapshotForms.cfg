SPECIFICATION Spec
CONSTANTS
    None = None
    Types = {mysql, postgres}
    First = mysql
    Names = {base, snap}
    Base = base
    MaxLists = 2
    MaxChoices = 2
    MaxFaults = 1
INVARIANT BranchHasSnapshot
INVARIANT FormOffersItsType
INVARIANT ListFollowsFilter
PROPERTY DeletesWhatWasConfirmed
CHECK_DEADLOCK FALSE
