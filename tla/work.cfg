SPECIFICATION Spec
CONSTANTS
    Lead = {l1}
    Worker = {w1, w2}
    Free = Free
    Day = {1, 2}
    Note = {n1}
    NoNote = NoNote
    AutoStop = TRUE
    Threshold = 2
    MaxVersion = 3
    MaxPages = 1
    MaxRows = 3
SYMMETRY WorkerSymmetry
INVARIANTS
    LeadIsConsistent
    VersionIdentifiesStatus
PROPERTIES
    StoppedIsLeftAlone
    AutoStopFires
    HistoryIsFinal
