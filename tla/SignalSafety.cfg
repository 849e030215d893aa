SPECIFICATION FairSpec
CONSTANTS
    Senders = {s1, s2}
    Receivers = {r1}
    Data = {offer}
    NoPeer = NoPeer
    NoData = NoData
    MaxTexts = 1
INVARIANTS
    TypeOK
    ActiveIsRegistered
    RequestIsFromRegistered
    NoticesTrackPeer
    QuietWhenPeerGone
PROPERTIES
    RendezvousSpec
    SessionsSettle
CHECK_DEADLOCK FALSE
