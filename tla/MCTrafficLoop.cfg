CONSTANTS
    Calls = {c1, c2}
    OpenTask = opentask
    Report = report
    NoTask = null
    Modes <- Both
    MaxSchedLoops = 3
    StopAfter = 2
    MaxResets = 1
SPECIFICATION Spec
INVARIANTS TypeOK
PROPERTIES OnlyQuietExits QuietExit TurnForAll
CHECK_DEADLOCK FALSE
