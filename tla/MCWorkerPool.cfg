\* Safety: two workers with one slot each, the first with two consumers, three requests.
SPECIFICATION Spec
CONSTANTS
    NWorkers = 2
    MaxInflight <- MCTwoOne
    MaxQueue <- MCOneEach
    r1 = r1
    r2 = r2
    r3 = r3
    Request <- MCThree
    NoRequest = NoRequest
SYMMETRY MCSymmetry
INVARIANTS
    WaitersAreServed
    NoLostJob
    NoDuplicateJob
    WriterAlive
    AnsweredOnReturn
    Backpressure
    GracefulStop
