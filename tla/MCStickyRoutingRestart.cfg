SPECIFICATION Spec
CONSTANTS
    w1 = w1
    w2 = w2
    i1 = i1
    i2 = i2
    q1 = q1
    q2 = q2
    NoWorker = NoWorker
    NoImage = NoImage
    Worker <- MCWorkers
    Image <- MCImages
    Request <- MCRequests
SYMMETRY MCSymmetry
INVARIANT RestartIsGone
