SPECIFICATION Spec
CONSTANTS
    Ptr = {p1, p2, p3}
    Null = Null
    Junk = Junk
    heapbase = 1
    heapsize = 12
    MM_NNODES = 3
    MaxReq = 3
    Alignment = {2}
SYMMETRY MCSymmetry
INVARIANTS ChunksTile FreeListsExact BestFit Coalesced BlocksIntact NoLeak
