SPECIFICATION Spec
CONSTANTS
    Lead = {l1}
    Worker = {w1, w2}
    Free = Free
    User = {u1, u2}
    NoUser = NoUser
    NoLead = NoLead
    Members <- MCMembers
    Policy <- MCExclusive
    FormToggles = FALSE
    UserDeletion = FALSE
    ScriptedPosts = TRUE
    MaxInactive = 2
    MaxPages = 0
    MaxTime = 0
    MaxSegments = 2
    MaxVersion = 2
SYMMETRY FullSymmetry
PROPERTIES
    InactiveIsStoredAsNobody
