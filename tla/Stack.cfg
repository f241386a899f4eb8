SPECIFICATION FairSpec
CONSTANTS
    m1 = m1
    m2 = m2
    Members <- TwoMembers
    Settings <- AllSettings
    Beat = 1
    Stale = 2
    Grace = 2
INVARIANTS NoMemberOutlivesStack DeadMemberNoticed
PROPERTIES ClosedStaysClosed StackStops MemberEndStops
CHECK_DEADLOCK FALSE
