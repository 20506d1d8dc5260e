SPECIFICATION Suite
CONSTANTS
    Callers = {c1, c2}
    Tracks = {a, b, c}
    Simulcast = {c}
    NumOptions = 2
    None = None
    MaxCalls = 3
    Faults = 1
    Swaps = 1
    Events = 1
    Sources = {"signal", "publisher"}
    MaxBuffer = 2
    Overflow = Overflow
    MaxRecords = 4
    MaxReportFaults = 2
    MaxSockets = 4
    MaxJoins = 2
    MaxConns = 2
    MaxCandidates = 3
    MaxOffers = 2
    MaxLinks = 3
    MaxFrames = 3
    ResponseTimeout = 2
    Remotes = {r1, r2}
    MaxReports = 3
    MaxResponses = 2
INVARIANT SendersAreReused
INVARIANT RevokedIsStopped
INVARIANT HoldEnds
INVARIANT PublishedIsHeard
INVARIANT TraceIsWhole
INVARIANT IdIsOfOpenSocket
INVARIANT CandidatesArrive
INVARIANT HealthIsTrue
INVARIANT RosterFollows
CHECK_DEADLOCK FALSE
SYMMETRY Symmetry
