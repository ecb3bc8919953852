SPECIFICATION Spec
CONSTANTS
    Worker = {w1, w2}
    Nobody = Nobody
    NoDigest = NoDigest
    NoPlan = NoPlan
    NoEntry = NoEntry
    Chunks = 2
    MaxDate = 1
    MaxDecision = 1
    MaxEdits = 1
CHECK_DEADLOCK FALSE
SYMMETRY ImportWorkerSymmetry
INVARIANTS
    BatchIsConsistent
    
PROPERTIES
    WritesNeedTheirStatus
