CONSTANTS
    MaxUsers = 3
    StartUsers = 1
    StopAfter = 4
    MaxPool = 3
    TdmMap = TRUE
SPECIFICATION Spec
INVARIANTS TypeOK UserOnce PoolSufficient
PROPERTIES Refilled
CHECK_DEADLOCK FALSE
