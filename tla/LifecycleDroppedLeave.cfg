SPECIFICATION Spec
CONSTANTS
    Joins = {j1, j2}
    Leaves = {l1}
    Reconnects = {}
    Publishers = {p1}
    Enders = {}
    MaxJoinRetries = 1
    Free = Free
SYMMETRY Symmetry
INVARIANT LeaveStopsTracks
CHECK_DEADLOCK FALSE
