SPECIFICATION Spec
CONSTANTS
    Blank = Blank
    Phones = {1, 2, 3}
    Codes = {"S1"}
    Existing <- Owned1AndUnowned
    MaxCustomers = 3
    MaxOps = 3
    Files <- SomeFiles
    OrderNos = {"N1"}
    Pushes <- SomePushes
    StatusMap <- Returned
    MaxJobs = 3
    Teams = {"A", "B"}
    Fallback = "A"
    Sources <- TwoSources
    Staff <- ThreeStaff
    Desks = {2, 3}
    ChunkSize = 2
    MaxTime = 1
INVARIANTS
    
    FilesConverge
    
    
PROPERTIES
    MainKeepsStatus
    RerunAddsNoLead
    TeamChangesHold
CHECK_DEADLOCK FALSE
