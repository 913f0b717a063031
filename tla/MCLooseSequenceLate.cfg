CONSTANTS
    Scenarios <- Some
    MaxLen = 4
    Calls = 1
    Copies = 2
    MaxStrays = 0
    StrayCalls = {}
    LateOptionals = TRUE
    None = None
SPECIFICATION Spec
PROPERTY OrderlyCallsSucceed
CHECK_DEADLOCK FALSE
