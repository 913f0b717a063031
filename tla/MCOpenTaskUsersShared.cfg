CONSTANTS
    MaxUsers = 3
    StartUsers = 1
    StopAfter = 4
    MaxPool = 4
    TdmMap = TRUE
SPECIFICATION Spec
INVARIANTS AlwaysUserOnce
CHECK_DEADLOCK FALSE
