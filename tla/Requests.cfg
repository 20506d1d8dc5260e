SPECIFICATION Suite
CONSTANTS
    Edges = {e1, e2}
    NoEdge = NoEdge
    MaxRetries = 4
    Limit = 2
    Window = 3
    End = 8
    Sessions = {s1, s2}
    Types = {"video"}
    Policies <- SomePolicies
    None = None
    MaxEpochs = 2
    MaxSpent = 3
    MaxLoads = 3
    Users = {"ann", "bob"}
    Kinds = {"Static", "Provider", "ServerMinted"}
    Lifetime = 1
    Skew = 0
    LastSecond = 1
    MaxTries = 3
    Backoffs = {1, 3}
    BodyLimit = 1
INVARIANT RequestBudget
INVARIANT EdgesAreReported
INVARIANT Agrees
INVARIANT SubscriptionsSettle
INVARIANT HeldIsWanted
INVARIANT ParticipantsFollow
INVARIANT RetriesAreBounded
PROPERTY KeepsWindow
PROPERTY NewestTokenStays
CHECK_DEADLOCK FALSE
SYMMETRY Symmetry
