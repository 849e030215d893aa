SPECIFICATION FairSpec
CONSTANTS
    Gatherers = {}
    MaxOps = 2
    MaxWire = 1
INVARIANTS
    OfferHasMedia
PROPERTIES
    RepeatsOnlyAhead
    OfferIsAnswered
