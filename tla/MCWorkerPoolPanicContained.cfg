SPECIFICATION Spec
CONSTANTS
    NWorkers = 1
    MaxInflight <- MCOneEach
    MaxQueue <- MCOneEach
    r1 = r1
    r2 = r2
    r3 = r3
    Request <- MCTwo
    NoRequest = NoRequest
INVARIANT
    PanicContained
