SPECIFICATION FairSpec
CONSTANTS
    r1 = r1
    r2 = r2
    r3 = r3
    i1 = i1
    i2 = i2
    Request <- MCRequests
    Image <- MCImages
    NoImage = NoImage
    Nobody = Nobody
    MaxInflight = 1
    TTL = 1
    MaxTime = 3
INVARIANTS
    RightImage
    NeverWaits
    CacheFresh
PROPERTIES
    KeptForTTL
    EveryRequestAnswered
CHECK_DEADLOCK FALSE
