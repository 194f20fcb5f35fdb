SPECIFICATION Spec
CONSTANTS
    MaxUid = 2
    MaxFaults = 0
CHECK_DEADLOCK FALSE
INVARIANT ReadyIsServed
