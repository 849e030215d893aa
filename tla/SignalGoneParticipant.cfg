SPECIFICATION FairSpec
CONSTANTS
    Senders = {s1}
    Receivers = {r1}
    Data = {offer}
    NoPeer = NoPeer
    NoData = NoData
    MaxTexts = 1
PROPERTIES
    GoneParticipantLeaves
CHECK_DEADLOCK FALSE
