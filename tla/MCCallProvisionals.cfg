CONSTANTS
    Agent = {"uac", "uas"}
    Server = {"uas"}
    Peer <- Peers
    Configurations <- Provisionals
    MaxRetrans = 1
    MaxCalls = 1
SPECIFICATION Spec
PROPERTIES ProvisionalsInAnyOrder
CHECK_DEADLOCK FALSE
