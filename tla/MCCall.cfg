CONSTANTS
    Agent = {"uac", "uas"}
    Server = {"uas"}
    Peer <- Peers
    Configurations <- Covered
    MaxRetrans = 1
    MaxCalls = 2
SPECIFICATION Spec
INVARIANTS TypeOK SuccessMeansAnswered NoRetransAfterAnswer RetransUntilAnswered NoSilentWait
PROPERTIES AbortRespectsAnswer CallsEnd
CHECK_DEADLOCK FALSE
