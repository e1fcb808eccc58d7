\* Two images, two workers, two request goroutines and the sweeper.
SPECIFICATION FairSpec
CONSTANTS
    Image = {i1, i2}
    Worker = {w1, w2}
    NoWorker = NoWorker
    Caller = {g1, g2}
    Sweeper = sweeper
    NoImage = NoImage
    NoEntry = NoEntry
    TTL = 1
    MaxTime = 3
PROPERTIES
    NoLiveEntryLost
    EverySessionEnds
    GaugeConverges
