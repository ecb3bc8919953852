CONSTANTS
    People <- MCPeople
    Staff <- MCStaff
    StaffName <- MCStaffName
    AliasName = "Old"
    MappedUser = 2
    SharedPhone = 8
    OddStatus = "Odd"
    Files <- MCFiles
    Seeds <- MCSeeds
    Batch = {b1, b2}
    MaxChanges = 2
    Blank = Blank
SYMMETRY Alike
SPECIFICATION Spec
PROPERTY
    ReopenedIsStale
CHECK_DEADLOCK FALSE
