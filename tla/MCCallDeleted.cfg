CONSTANTS
    Agent = {"uac", "uas"}
    Server = {"uas"}
    Peer <- Peers
    Configurations <- Failing
    MaxRetrans = 1
    MaxCalls = 1
SPECIFICATION Spec
INVARIANTS NoUseAfterDelete
CHECK_DEADLOCK FALSE
