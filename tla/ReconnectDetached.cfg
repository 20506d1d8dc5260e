SPECIFICATION Spec
CONSTANTS
    Conns = {c1, c2}
    NoConn = NoConn
    Coordinator = Coordinator
    Timeouts = {FALSE}
    RateLimit = 2
    IceLimit = 2
    NegotiationLimit = 2
    MaxFaults = 1
INVARIANT JoinedIsEnabled
CHECK_DEADLOCK FALSE
