SPECIFICATION FairSpec
CONSTANTS
    p1 = p1
    p2 = p2
    Poll <- MCPolls
    NWorkers = 2
INVARIANT SummaryJustified
PROPERTIES
    BadgeTurnsGreen
    BadgeTurnsRed
