CONSTANTS
    Leads = 2
    Staff = {s1, s2}
    Worker = {w1, w2}
    Nobody = Nobody
    Free = Free
    Policy <- OneOfEach
    Assignees = {s2}
    MaxOrders = 3
    MaxSaves = 3
SPECIFICATION Spec
INVARIANTS
    CopiesAreExact
    NoQuantityLost
PROPERTIES
    AssignmentReachesEveryOrder
    EveryRequestEnds
CHECK_DEADLOCK TRUE
