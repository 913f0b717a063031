CONSTANTS
    m1 = m1
    m2 = m2
    Messages = {m1, m2}
    Traffics <- Both
    Capacity = 4
    ReadSize = 3
    MaxQueue = 2
    MaxBreaks = 2
SPECIFICATION Spec
INVARIANTS TypeOK NoBufferReplaced
PROPERTIES ChannelSpec Arrives
CHECK_DEADLOCK FALSE
