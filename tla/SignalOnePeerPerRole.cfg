SPECIFICATION Spec
CONSTANTS
    Senders = {s1, s2, s3}
    Receivers = {r1}
    Data = {offer}
    NoPeer = NoPeer
    NoData = NoData
    MaxTexts = 0
SYMMETRY Symmetry
INVARIANTS
    OnePeerPerRole
CHECK_DEADLOCK FALSE
