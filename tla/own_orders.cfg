SPECIFICATION Spec
CONSTANTS
    Lead = {l1}
    Worker = {w1, w2}
    Free = Free
    User = {u1, u2}
    NoUser = NoUser
    NoLead = NoLead
    Members <- MCMembers
    Policy <- MCExclusive
    FormToggles = TRUE
    UserDeletion = TRUE
    ScriptedPosts = FALSE
    MaxInactive = 1
    MaxPages = 0
    MaxTime = 2
    MaxSegments = 2
    MaxVersion = 3
SYMMETRY FullSymmetry
INVARIANTS
    TypeOK
    SegmentsTile
    RowMatchesOpenSegment
    OrderDecisionStands
PROPERTIES
    StaleOrderMovesNothing
    ExclusiveIsNeverStolen
    HistoryIsKept
