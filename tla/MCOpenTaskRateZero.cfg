CONSTANTS
    Rates = {0, 1, 3}
    StartRate = 1
    rate_period_ms = 2
    DurationFactor = 1
    Limits = {0, 2}
    StopAfter = 4
    MaxTick = 6
SPECIFICATION Spec
PROPERTIES AlwaysTrafficFlows
CHECK_DEADLOCK FALSE
