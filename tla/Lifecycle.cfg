SPECIFICATION Spec
CONSTANTS
    Joins = {j1, j2}
    Leaves = {l1, l2}
    Reconnects = {r1, r2}
    Publishers = {p1}
    Enders = {e1}
    MaxJoinRetries = 1
    Free = Free
SYMMETRY Symmetry
CONSTRAINT Meetings
INVARIANT TypeOK
INVARIANT SlotRespectsLeave
INVARIANT SlotMatchesState
INVARIANT CallStateOfLatestJoin
INVARIANT ReturnedLeaveStoppedTracks
INVARIANT OneReconnectPerGeneration
PROPERTY StateDiagram
CHECK_DEADLOCK FALSE
