CONSTANTS
    c1 = c1
    c2 = c2
    c3 = c3
    s1 = s1
    s2 = s2
    s3 = s3
    Calls = {c1, c2, c3}
    Addresses = {main, s1, s2, s3}
    Main = main
    Multiplex = s1
    MaxFd = 3
    Configurations <- Closecon
SPECIFICATION Spec
PROPERTY ClosesOnlyItsCalls
CHECK_DEADLOCK FALSE
