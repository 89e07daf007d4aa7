SPECIFICATION Spec
CONSTANTS
    U64Max = 20
    ScanLimit = 16
    Attempts = {1, 2}
    Keys = {k1, k2}
    Feeds <- MCFeeds
    NoAtt = NoAtt
    Staleness = 1
    Funds = 1
    Lifetime = 1
    MaxSlot = 1
INVARIANTS ExpiredIsSettled DoneMeansDeposited OtherVenueMeansListed
PROPERTY OutcomeShown
