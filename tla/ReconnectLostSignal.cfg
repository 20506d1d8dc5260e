SPECIFICATION FairSpec
CONSTANTS
    Conns = {c1, c2}
    NoConn = NoConn
    Coordinator = Coordinator
    Timeouts = {FALSE}
    RateLimit = 2
    IceLimit = 2
    NegotiationLimit = 2
    MaxFaults = 1
PROPERTY LostSignalReconnects
CHECK_DEADLOCK FALSE
