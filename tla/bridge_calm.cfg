SPECIFICATION CalmSpec
CONSTANTS
    NaN = NaN
    Unready = Unready
    Blank = Blank
    HistoryLength = 1
    HistoryPeriod = 0
    PubPeriod = 2
    MaxActionAge = 3
    InvalidMode = "hold"
    Layouts = {1}
    LayoutHashes = {1, 2}
    ModelIds = {1}
    EnableDefault = TRUE
    Scale = 2
    ClipMin = 0
    ClipMax = 5
    EnableInputs = {Unready}
    FlatHoldInputs = {Unready}
    ResetInputs = {Unready}
    NonFinite = {}
    MaxNow = 8
    MaxStep = 1
    MaxSequence = 5
    Latency = 1
INVARIANTS
    CalmLoopDrives
    MismatchIsLatched
PROPERTIES
    RefusalIsFinal
