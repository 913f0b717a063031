CONSTANTS
    Calls = {c1, c2}
    OpenTask = opentask
    Report = report
    NoTask = null
    Modes <- Client
    MaxSchedLoops = 3
    StopAfter = 2
    MaxResets = 1
SPECIFICATION Spec
PROPERTY QAgainForces
CHECK_DEADLOCK FALSE
