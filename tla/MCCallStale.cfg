CONSTANTS
    Agent = {"uac", "uas"}
    Server = {"uas"}
    Peer <- Peers
    Configurations <- Plain
    MaxRetrans = 1
    MaxCalls = 1
SPECIFICATION Spec
INVARIANTS SuccessAlwaysMeansAnswered
CHECK_DEADLOCK FALSE
