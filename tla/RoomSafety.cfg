SPECIFICATION FairSpec
CONSTANTS
    Creates = {c1}
    Joins = {j1, j2}
    Views = {v1}
    User = {u1, u2}
    NoUser = NoUser
    MaxConnections = 2
INVARIANTS
    TypeOK
    PoolConserved
    AcknowledgedIsStored
    LaterJoinRefused
PROPERTIES
    BookSpec
    EveryRequestEnds
CHECK_DEADLOCK FALSE
