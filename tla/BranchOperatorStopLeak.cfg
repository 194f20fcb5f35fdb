SPECIFICATION Spec
CONSTANTS
    MaxUid = 2
    MaxFaults = 1
    LateRequests = FALSE
    StopErrors = TRUE
INVARIANT CleanupGuaranteed
CHECK_DEADLOCK FALSE
