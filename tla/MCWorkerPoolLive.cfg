\* Liveness under FairSpec: two workers stopped one after the other, the first with two
\* consumers, so that one stalled client leaves a consumer for the other request.
SPECIFICATION FairSpec
CONSTANTS
    NWorkers = 2
    MaxInflight <- MCTwoOne
    MaxQueue <- MCOneEach
    r1 = r1
    r2 = r2
    r3 = r3
    Request <- MCTwo
    NoRequest = NoRequest
PROPERTIES
    ImplementsBroker
    EveryRequestReturns
    ShutdownTerminates
