CONSTANTS
    WordBits = 7
    SlotsPerBin = 14
    FullNum = 7
    FullDen = 8
    RehashNum = 7
    RehashDen = 16
    MaxBins = 6
    MaxSize = 40
    GroupWidth = 8
    LayoutWordBits = 12
    CacheLineSize = 64
    MaxSlotSize = 32
    SlotAligns = {1, 2, 4, 8, 16, 32}
SPECIFICATION Spec
INVARIANTS
    TypeOK
    H1OrderPreserving
    BinCountForLoadFits
    GrowthAndCapacity
    ProbeSeqVisitsEveryBucket
    CapacityEncodingExact
    LayoutMatchesStruct
    SwissArrayLayoutSound
    BucketLayoutSound
    BucketHeaderExact
    SwissSlotsInsideAllocation
    ConvertRewritesEachControlOnce
