SPECIFICATION Spec
CONSTANTS
    MaxVersion = 3
    MaxPolls = 2
    MaxCalls = 1
    MaxForms = 2
    MaxVisits = 2
    MaxFaults = 1
INVARIANT AskedOnce
INVARIANT BusyHasCall
PROPERTY ReloadsAreNewer
PROPERTY EventuallyFresh
