SPECIFICATION Spec
CONSTANTS
    ann = ann
    bob = bob
    Reader = ann
    OtherUser = bob
    None = None
    MaxNodes = 5
    MaxDepth = 3
    FirstDay = 0
    LastDay = 50
    Definition <- MCDefinition
    FirstRows <- MCFirstRows
    Clock <- MCClock
    PageSize = 2
    MaxChanges = 1
CHECK_DEADLOCK FALSE
INVARIANTS
    DashboardAgreesWithLists
PROPERTIES
    AnswersMeanTheFilter
    PagesHoldEachOnce
    BoardShowsEachMatchOnce
