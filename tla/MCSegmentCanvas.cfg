SPECIFICATION FairSpec
CONSTANTS
    o1 = o1
    o2 = o2
    o3 = o3
    Op <- MCOps
    None = None
    Blank = Blank
    MAX_RETRY = 1
INVARIANTS
    ClickIsForPicture
    MasksOnPictureInTurn
    UrlsInStep
    ExpiredIsForPicture
    CanvasShowsState
PROPERTY SpinnerStops
CHECK_DEADLOCK FALSE
