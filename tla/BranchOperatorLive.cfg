SPECIFICATION FairSpec
CONSTANTS
    MaxUid = 2
    MaxFaults = 1
    LateRequests = TRUE
    StopErrors = TRUE
PROPERTY ReadyUntilDeleted
PROPERTY DeletionCompletes
PROPERTY CreationCompletes
PROPERTY ExpiryHonoured
CHECK_DEADLOCK FALSE
