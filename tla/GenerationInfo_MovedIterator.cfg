CONSTANTS
    WordBits = 5
    SlotsPerBin = 14
    FullNum = 7
    FullDen = 8
    RehashNum = 7
    RehashDen = 16
    GenBits = 2
    RehashProbability = 16
    ClearReuseBelow = 20
    MaxSize = 15
    ReserveSizes = {1, 15, 17}
    BucketCounts = {0, 5}
SPECIFICATION Spec
INVARIANT MovedIteratorFailsGenerationCheck
