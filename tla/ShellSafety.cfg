SPECIFICATION FairSpec
CONSTANTS
    Pid = {p1, p2, p3, p4}
    NoPid = NoPid
INVARIANTS
    TypeOK
    StrayOnlyAfterInterrupt
    ReportsOnce
PROPERTIES
    KeepsTerminal
    RoomOpenedInTurn
    FetchReleasesTerminal
CHECK_DEADLOCK FALSE
