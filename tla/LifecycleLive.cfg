SPECIFICATION FairSpec
CONSTANTS
    Joins = {j1, j2}
    Leaves = {l1}
    Reconnects = {}
    Publishers = {p1}
    Enders = {}
    MaxJoinRetries = 1
    Free = Free
PROPERTY JoiningEnds
PROPERTY LeaveCompletes
CHECK_DEADLOCK FALSE
