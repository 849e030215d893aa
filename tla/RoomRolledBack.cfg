SPECIFICATION Spec
CONSTANTS
    Creates = {c1}
    Joins = {j1, j2}
    Views = {v1}
    User = {u1, u2, u3}
    NoUser = NoUser
    MaxConnections = 2
PROPERTIES
    RolledBackLeavesNothing
CHECK_DEADLOCK FALSE
