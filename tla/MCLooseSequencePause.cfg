CONSTANTS
    Scenarios <- PauseBeforeMessage
    MaxLen = 5
    Calls = 1
    Copies = 2
    MaxStrays = 0
    StrayCalls = {}
    LateOptionals = FALSE
    None = None
SPECIFICATION Spec
PROPERTY OrderlyCallsSucceed
CHECK_DEADLOCK FALSE
