SPECIFICATION Suite
CONSTANTS
    SeqSpace = 4
    TsSpace = 32
    FrameLen = 2
    Random = 27
    Source = 9
    None = None
    End = 3
    Takeovers = 1
    MaxLost = 3
    Tasks = {t1, t2}
    Encodings = {1, 2}
    KeyInterval = 4
    SlotLen = 3
    Steps = {1, 2}
    MaxFrames = 3
    MaxControls = 2
    MaxFilled = 2
    OpusLen = 2
    AudioSeqSpace = 10
    First = 8
    Writers = {w1, w2}
    Forwarders = {f1}
    PacerFrame = 2
    Capacity = 2
    FilterDelay = 1
    Pace = TRUE
    MaxWrites = 3
    MaxFlushes = 1
    PacerControls = 1
    Interval = 2
    Stall = 3
    MaxReady = 1
    MaxLosses = 2
    MaxFaults = 1
    Readers = {r1, r2}
    Packets = 5
    Silences = 1
    Faults = 1
    PidModulus = 8
    Tl0Modulus = 4
    TsModulus = 8
    MaxPayload = 30
    Sizes = {1, 60}
    MaxSpatial = 2
    TimeSteps = {1, 3}
    MaxTime = 8
    Dims <- SomeDims
    DefaultDims <- SmallDims
    MaxEdge = 14
    Bitrates = {2}
    Caps = {1000}
    Factors = {0, 2}
    Limits = {2, 3}
    MaxSteps = 3
    Rates = {2, 3}
    MaxChannels = 2
    Values <- SomeValues
    MaxPcmFrames = 3
INVARIANT PictureRecovers
INVARIANT LossIsConcealed
INVARIANT StreamIsReadable
INVARIANT LayersFit
INVARIANT SamplesAreKept
PROPERTY StreamContinues
PROPERTY LineStaysWhole
CHECK_DEADLOCK FALSE
SYMMETRY Symmetry
