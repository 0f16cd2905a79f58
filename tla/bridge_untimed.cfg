SPECIFICATION Spec
CONSTANTS
    NaN = NaN
    Unready = Unready
    Blank = Blank
    HistoryLength = 2
    HistoryPeriod = 0
    PubPeriod = 2
    MaxActionAge = 3
    InvalidMode = "nan"
    Layouts = {1}
    LayoutHashes = {1}
    ModelIds = {1}
    EnableDefault = FALSE
    Scale = 2
    ClipMin = 0
    ClipMax = 5
    EnableInputs = {0, 1}
    FlatHoldInputs = {0, 1}
    ResetInputs = {Unready, 0, 1}
    NonFinite = {NaN}
    MaxNow = 6
    MaxStep = 2
    MaxSequence = 3
INVARIANTS
    TypeOK
    DrivesOnlyCurrent
    ControlIsRegainedAfresh
    ExecutesTheAnswer
    HealthyMeansDrivable
PROPERTIES
    WindowMatchesLog
    FeedbackIsExecution
