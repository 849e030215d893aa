SPECIFICATION FairSpec
CONSTANTS
    Browser = {b1}
    Tab = {t1, t2, t3}
    NoWks = NoWks
INVARIANTS
    TypeOK
    NeverTurnedAway
    LaterTabsShareUser
    IdentityIsStable
    TokenlessIsNobody
PROPERTIES
    EveryLoginEnds
