SPECIFICATION Spec
CONSTANTS
    Blank = Blank
    Leads = 3
    RowSet <- SomeRows
    Viewers <- SomeViewers
    Requests <- SomeRequests
    PageSize = 1
    Start = 201
    MaxTicks = 1
    MaxChanges = 1
INVARIANTS
    TypeOK
    EachIsListedOnce
    FiltersAreTheBadges
PROPERTY
    OnlyWantedAreListed
CHECK_DEADLOCK FALSE
