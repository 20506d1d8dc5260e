SPECIFICATION FairSpec
CONSTANTS
    Conns = {c1, c2}
    NoConn = NoConn
    Coordinator = Coordinator
    Timeouts = {TRUE, FALSE}
    RateLimit = 2
    IceLimit = 2
    NegotiationLimit = 2
    MaxFaults = 1
PROPERTY ReconnectEnds
PROPERTY RejoinLimitEnds
CHECK_DEADLOCK FALSE
