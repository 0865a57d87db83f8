\* One allocated bin at the start, release build.
CONSTANTS
    WordBits = 8
    SlotsPerBin = 2
    FullNum = 7
    FullDen = 8
    RehashNum = 7
    RehashDen = 16
    k1 = k1
    k2 = k2
    Keys = {k1, k2}
    Hash <- MCHash
    InitBins = 1
    MaxBins = 4
    MaxSize = 3
    Asserts = FALSE
    ReserveSizes = {1, 5, 7}
    BucketCounts = {0}
    NoKey = NoKey
SPECIFICATION Spec
INVARIANT ResizeReadsOnlyLiveBins
\* A fault stops the program and Destroy ends the object: both leave no step.
CHECK_DEADLOCK FALSE
