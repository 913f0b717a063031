CONSTANTS
    Scenarios <- Some
    MaxLen = 4
    Calls = 2
    Copies = 2
    MaxStrays = 1
    StrayCalls = {1}
    LateOptionals = FALSE
    None = None
SPECIFICATION Spec
INVARIANT NeverWaitsInVain
CHECK_DEADLOCK FALSE
