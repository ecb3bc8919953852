SPECIFICATION Spec
CONSTANTS
    Lead = {l1, l2}
    Worker = {w1, w2}
    Free = Free
    User = {u1, u2}
    NoUser = NoUser
    NoLead = NoLead
    Members <- MCMembers
    Policy <- MCLatest
    FormToggles = FALSE
    UserDeletion = FALSE
    ScriptedPosts = FALSE
    MaxInactive = 1
    MaxPages = 1
    MaxTime = 0
    MaxSegments = 2
    MaxVersion = 2
SYMMETRY LeadSymmetry
INVARIANTS
    RoutingFollowsCaretaker
    VersionIdentifiesOwner
PROPERTIES
    AssignOwnerMovesEveryLead
