SPECIFICATION Spec
CONSTANTS
    Worker = {w1, w2}
    Nobody = Nobody
    NoDigest = NoDigest
    NoPlan = NoPlan
    NoEntry = NoEntry
    Chunks = 2
    MaxDate = 0
    MaxDecision = 0
    MaxEdits = 0
CHECK_DEADLOCK FALSE
SYMMETRY ImportWorkerSymmetry
PROPERTY
    CancelledIsFinal
