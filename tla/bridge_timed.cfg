SPECIFICATION Spec
CONSTANTS
    NaN = NaN
    Unready = Unready
    Blank = Blank
    HistoryLength = 3
    HistoryPeriod = 3
    PubPeriod = 2
    MaxActionAge = 3
    InvalidMode = "nan"
    Layouts = {1}
    LayoutHashes = {1}
    ModelIds = {1}
    EnableDefault = FALSE
    Scale = 2
    ClipMin = 0
    ClipMax = 5
    EnableInputs = {1}
    FlatHoldInputs = {0, 1}
    ResetInputs = {Unready}
    NonFinite = {}
    MaxNow = 8
    MaxStep = 7
    MaxSequence = 5
INVARIANTS
    AppendNeverThrows
PROPERTIES
    KeepsCadence
    WindowMatchesLog
    FeedbackIsExecution
