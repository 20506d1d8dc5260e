SPECIFICATION Spec
CONSTANTS
    Conns = {c1, c2, c3}
    NoConn = NoConn
    Coordinator = Coordinator
    Timeouts = {TRUE}
    RateLimit = 2
    IceLimit = 2
    NegotiationLimit = 2
    MaxFaults = 2
SYMMETRY Symmetry
INVARIANT NoLeakedConnection
INVARIANT SlotStaysOpen
CHECK_DEADLOCK FALSE
