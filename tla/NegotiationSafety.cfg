SPECIFICATION Spec
CONSTANTS
    Gatherers = {"sender", "receiver"}
    MaxOps = 1
    MaxWire = 1
INVARIANTS
    TypeOK
    NoEarlyCandidate
    ReadyInOrder
    SenderCandidatesInTime
