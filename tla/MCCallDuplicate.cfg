CONSTANTS
    Agent = {"uac", "uas"}
    Server = {"uas"}
    Peer <- Peers
    Configurations <- Transactions
    MaxRetrans = 1
    MaxCalls = 1
SPECIFICATION Spec
PROPERTIES DuplicateNeverFails
CHECK_DEADLOCK FALSE
