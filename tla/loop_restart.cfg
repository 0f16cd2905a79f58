SPECIFICATION LoopSpec
CONSTANTS
    NaN = NaN
    Unready = Unready
    Blank = Blank
    HistoryLength = 1
    HistoryPeriod = 0
    PubPeriod = 1
    MaxActionAge = 2
    InvalidMode = "nan"
    Layouts = {7}
    LayoutHashes = {7}
    ModelIds = {1, 2, 3, 4, 5}
    EnableDefault = FALSE
    Scale = 1
    ClipMin = 0
    ClipMax = 9
    EnableInputs = {0, 1}
    FlatHoldInputs = {Unready}
    ResetInputs = {Unready}
    NonFinite = {}
    MaxNow = 3
    MaxStep = 1
    MaxSequence = 3
    ObsSize = 1
    ActionSize = 1
    MaxBoots = 1
    Models <- MCModels
INVARIANTS
    DrivenByOwnObservation
