SPECIFICATION Spec
CONSTANTS
    MaxUid = 2
    MaxFaults = 2
    LateRequests = FALSE
    StopErrors = FALSE
INVARIANT CleanupGuaranteed
INVARIANT ReadyIsBacked
INVARIANT NoLostWakeup
PROPERTY ExpiryHitsTheExpired
PROPERTY ImplementsLifecycle
PROPERTY ImplementsFleet
CHECK_DEADLOCK FALSE
