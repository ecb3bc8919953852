CONSTANTS
    Edit = {e1, e2, e3}
    Absent = Absent
    NoEdit = NoEdit
    ChunkSize = 1
    UndoSize = 2
    MaxAttempts = 2
SYMMETRY Alike
SPECIFICATION Spec
INVARIANTS
    JournalIsComplete
    EditsStay
CHECK_DEADLOCK FALSE
