CONSTANTS
    o1 = o1
    o2 = o2
    o3 = o3
    b1 = b1
    b2 = b2
    b3 = b3
    Objs <- MCObjs
    Blocks <- MCBlocks
    BinCounts = {1, 2}
    NULL = NULL
SYMMETRY Symmetry
SPECIFICATION Spec
INVARIANTS
    OwnershipExclusive
    PhysicalBinCountMatches
CHECK_DEADLOCK FALSE
