SPECIFICATION Spec
CONSTANTS
    c1 = c1
    c2 = c2
    c3 = c3
    c4 = c4
    Candidates <- MCCandidates
    Parallel = 2
INVARIANTS
    TypeOK
    NoSendOnClosed
    SendNeverBlocks
    NoResultLost
PROPERTIES
    FetchReturns
    ImplementsAtomicFetch
CHECK_DEADLOCK FALSE
