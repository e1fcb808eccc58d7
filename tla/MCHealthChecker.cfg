SPECIFICATION FairSpec
CONSTANTS
    w1 = w1
    w2 = w2
    Worker <- MCWorkers
    UnhealthyThreshold = 2
    HealthyThreshold = 2
INVARIANT
    FlagFollowsRuns
PROPERTIES
    ThresholdsRespected
    ImplementsMembership
    DeadIsRemoved
    ReadyReturns
