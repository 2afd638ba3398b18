SPECIFICATION FairSpec
CONSTANTS
    c1 = c1
    c2 = c2
    c3 = c3
    Start = 5
    HeapSize = 26
    Client <- MCClient
    Requests <- MCRequests
INVARIANTS TypeOK Tiling FirstFit ExactBlocksDisjoint
PROPERTIES MarkedForever MallocReturns
