SPECIFICATION Spec
CONSTANTS
    None = None
    Snapshots = {base}
    MaxOpens = 2
    MaxRequests = 2
    MaxVisits = 1
    MaxFaults = 1
INVARIANT NamelessOnlyIfCrossed
INVARIANT ForgottenOnlyIfMissed
INVARIANT SpinnerIsPolled
CHECK_DEADLOCK FALSE
