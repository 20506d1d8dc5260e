SPECIFICATION Suite
CONSTANTS
    Writers = {w1}
    Forwarders = {f1}
    FrameLen = 2
    Capacity = 2
    FilterDelay = 1
    Pace = TRUE
    MaxWrites = 3
    MaxFlushes = 1
    MaxControls = 1
    Readers = {r1}
    Interval = 2
    Stall = 3
    MaxReady = 1
    None = None
    MaxLosses = 2
    MaxFaults = 1
PROPERTY WrittenAudio
PROPERTY StallEnds
CHECK_DEADLOCK FALSE
