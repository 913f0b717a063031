CONSTANTS
    Scenarios <- Some
    MaxLen = 5
    Calls = 2
    Copies = 2
    MaxStrays = 1
    StrayCalls = {2}
    LateOptionals = FALSE
    None = None
SPECIFICATION Spec
INVARIANTS TypeOK NeverWaitsInVain
PROPERTIES OrdersSpec OrderlyCallsSucceed
CHECK_DEADLOCK FALSE
