CONSTANTS
    WordBits = 7
    SlotsPerBin = 14
    FullNum = 7
    FullDen = 8
    RehashNum = 7
    RehashDen = 16
    MaxBins = 1
    MaxSize = 40
    GroupWidth = 8
    LayoutWordBits = 12
    CacheLineSize = 64
    MaxSlotSize = 1
    SlotAligns = {1}
SPECIFICATION Spec
INVARIANT GrowthRehashObeysCapacityLaw
