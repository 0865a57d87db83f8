--------------------------- MODULE MCGraveyardHash ---------------------------
(***************************************************************************)
(* Model-checks the pure arithmetic of the table over every input in small *)
(* ranges.  A state is either a choice of a hash, a logical bin count and  *)
(* a table size (GraveyardHash, SwissCapacity; slotType is NoSlotType),  *)
(* or a choice of a slot type and a physical bin count (BinLayout, over a *)
(* size_t of LayoutWordBits bits; hash and size are 0).  Every choice is  *)
(* an initial state; Next rehashes the key, or reallocates the bins of    *)
(* the same slot type.  The same sizes serve as the growth and capacity   *)
(* arguments of SwissCapacity, and the bin count as a bucket count of     *)
(* probe_seq.                                                              *)
(***************************************************************************)
EXTENDS SwissCapacity, FiniteSets

CONSTANTS
    MaxBins,        \* largest logical or physical bin count tried
    MaxSize,        \* largest table size tried
    LayoutWordBits, \* width of size_t in the layout arithmetic
    CacheLineSize,  \* Policy::cache_line_size (ABSL_CACHELINE_SIZE)
    MaxSlotSize,    \* largest sizeof(slot_type) tried
    SlotAligns      \* the alignof(slot_type) values tried (powers of 2)

BL == INSTANCE BinLayout WITH WordBits <- LayoutWordBits

\* sizeof of a C++ type is a positive multiple of its alignment.
SlotTypes == {s \in (1 .. MaxSlotSize) \X SlotAligns : s[1] % s[2] = 0}
NoSlotType == <<0, 0>>

VARIABLES hash, bins, size, slotType
vars == <<hash, bins, size, slotType>>

sz == slotType[1]
al == slotType[2]

Init ==
    \/ /\ hash \in SizeT
       /\ bins \in 0 .. MaxBins /\ size \in 0 .. MaxSize
       /\ slotType = NoSlotType
    \/ /\ hash = 0 /\ size = 0
       /\ slotType \in SlotTypes /\ bins \in 1 .. MaxBins

\* Give the key another hash.
ChooseHash ==
    /\ slotType = NoSlotType
    /\ \E h \in SizeT : hash' = h
    /\ UNCHANGED <<bins, size, slotType>>

\* Allocate a table of another size for the same slot type.
ChooseBinCount ==
    /\ slotType \in SlotTypes
    /\ \E n \in 1 .. MaxBins : bins' = n
    /\ UNCHANGED <<hash, size, slotType>>

Next == ChooseHash \/ ChooseBinCount

Spec == Init /\ [][Next]_vars

(***************************************************************************)
(* Every operator yields a value of its C++ type: H2 fits the 7-bit h2_    *)
(* field below kEmpty (the ctrl_t constructor asserts h2 < kEmpty), and    *)
(* the sizes are size_t values.  Every offset the bin accessors compute   *)
(* is aligned for what is stored there.                                   *)
(***************************************************************************)
TypeOK ==
    /\ H2(hash) \in 0 .. (kEmpty - 1)
    /\ bins > 0 => H1(hash, bins) \in SizeT
    /\ BinCountForLoad(size) \in SizeT
    /\ SizeAfterRehash(size) \in SizeT
    /\ slotType \in SlotTypes =>
          /\ BL!kSearchDistanceStart % BL!kSearchDistanceAlign = 0
          /\ BL!kValueStart(sz, al) % al = 0
          /\ BL!kBinSize(sz, al) % BL!kAlignment(al) = 0

(***************************************************************************)
(* H1 maps every hash to a bin of the table, and it preserves the order of *)
(* hashes: a larger hash never lands in an earlier bin.  Graveyard hashing *)
(* keeps the ordered elements of a bin run sorted by H1 and stops a find   *)
(* after search_distance bins on that basis (part_001 312-328).            *)
(***************************************************************************)
H1OrderPreserving ==
    bins > 0 =>
        /\ H1(hash, bins) < bins
        /\ \A other \in SizeT :
               hash <= other => H1(hash, bins) <= H1(other, bins)

(***************************************************************************)
(* BinCountForLoad gives enough bins, and no more than needed: size        *)
(* elements fit in the bins at the full utilization 7/8 (or in the single  *)
(* bin when they fit in one), and one bin fewer would not do.              *)
(***************************************************************************)
BinCountForLoadFits ==
    LET n == BinCountForLoad(size) IN
    /\ size = 0 => n = 0
    /\ size > 0 /\ size <= SlotsPerBin => n = 1
    /\ size > SlotsPerBin =>
           /\ size * FullDen <= n * SlotsPerBin * FullNum
           /\ (n - 1) * SlotsPerBin * FullNum < size * FullDen

(***************************************************************************)
(* The capacity law of a growth rehash: when prepare_insert finds          *)
(* growth_left() = 0 at size s and resizes, the new bins hold the s        *)
(* elements at no more than the rehashed utilization 7/16, so the table    *)
(* has room to grow again.  Only sizes at which growth_left() reaches 0    *)
(* matter: ResetGrowthLeft (part_001 1357) sets it to capacity_ - size_,   *)
(* and capacity_ is a whole number of bins, so it reaches 0 when size is a *)
(* multiple of SlotsPerBin.                                                *)
(***************************************************************************)
GrowthRehashObeysCapacityLaw ==
    size > 0 /\ size % SlotsPerBin = 0 =>
        size * RehashDen <= GrowthResizeBins(size) * SlotsPerBin * RehashNum

(***************************************************************************)
(* The load factor and its inverse agree (quadratic_probing.h 1046-1072): *)
(* for a growth g, NormalizeCapacity(GrowthToLowerboundCapacity(g)) is a  *)
(* valid capacity whose growth is at least g, and the next smaller valid  *)
(* capacity's is not; growth equals capacity only below one group.  Read *)
(* back, a valid capacity of at least a group is what its growth asks    *)
(* for.  About the C++ truncation of (growth - 1) / 7 and the 8-wide      *)
(* special cases at 7.                                                    *)
(***************************************************************************)
GrowthAndCapacity ==
    LET c == NormalizeCapacity(GrowthToLowerboundCapacity(size))
        v == NormalizeCapacity(size)
    IN  /\ IsValidCapacity(c) /\ CapacityToGrowth(c) >= size
        /\ (c + 1 < GroupWidth) = (CapacityToGrowth(c) = c)
        /\ size # 0 /\ c > 1 => CapacityToGrowth(c \div 2) < size
        /\ v + 1 >= GroupWidth =>
               NormalizeCapacity(GrowthToLowerboundCapacity(CapacityToGrowth(v))) = v

(***************************************************************************)
(* probe_seq (quadratic_probing.h 403-422) started at any bucket below    *)
(* bucket_count visits every bucket in bucket_count steps, wrapping at    *)
(* the end, so a probe finds a free bucket whenever one exists.           *)
(***************************************************************************)
ProbeSeqVisitsEveryBucket ==
    bins > 0 =>
        \A h1 \in 0 .. (bins - 1) :
            {ProbeIndex(h1, bins, i) : i \in 0 .. (bins - 1)} = 0 .. (bins - 1)

(***************************************************************************)
(* CommonFields::Capacity reads back every capacity its constructor       *)
(* accepts, and bucket_count() is the number of buckets that capacity     *)
(* needs: 0 for capacity 0 (as its comment says), one for a partial       *)
(* bucket, capacity / slots_per_bucket otherwise.  About the sign that    *)
(* tells the two encodings apart and the encoded 0 between them.          *)
(***************************************************************************)
CapacityEncodingExact ==
    EncodableCapacity(size) =>
        LET e == ToEncodedCapacity(size) IN
        /\ FromEncodedCapacity(e) = size
        /\ BucketCount(e) = (size + SlotsPerBin - 1) \div SlotsPerBin

(***************************************************************************)
(* Every offset the accessors compute is aligned for what is stored there. *)
(***************************************************************************)
(* The layout the part_000 tests (Uint64Offsets, MyStringOffsets) check    *)
(* for two slot types, for every slot type: ControlOf, SearchDistanceOf   *)
(* and SlotOf address the fields of element b of an array of C structs     *)
(* { ctrl_t ctrl[14]; search_distance_t sd; slot_type slots[14]; }, and    *)
(* SizeOf is the size of that array.  The struct is laid out by the        *)
(* language rule, written here with plain arithmetic.                      *)
(***************************************************************************)
RoundUp(x, m) == ((x + m - 1) \div m) * m
StructSdOffset == RoundUp(SlotsPerBin * BL!kCtrlSize, BL!kSearchDistanceAlign)
StructSlotsOffset == RoundUp(StructSdOffset + BL!kSearchDistanceSize, al)
StructSize ==
    RoundUp(StructSlotsOffset + SlotsPerBin * sz,
            BL!MaxOf(BL!kCtrlAlign, BL!MaxOf(BL!kSearchDistanceAlign, al)))

LayoutMatchesStruct ==
    slotType \in SlotTypes =>
    /\ BL!SizeOf(bins, sz, al) = bins * StructSize
    /\ \A b \in 0 .. (bins - 1) :
         /\ BL!ControlOf(b, sz, al) = b * StructSize
         /\ BL!SearchDistanceOf(b, sz, al) = b * StructSize + StructSdOffset
         /\ \A i \in 0 .. (SlotsPerBin - 1) :
              BL!SlotOf(b, i, sz, al) = b * StructSize + StructSlotsOffset + i * sz

(***************************************************************************)
(* The swiss backing array InitializeSlots carves from one allocation of  *)
(* AllocSize bytes keeps its parts apart for every capacity, including    *)
(* the unnormalized bucket counts the constructor passes and the 0        *)
(* resize_to_size sets: the control bytes (with quadratic_probing.h's     *)
(* cloned bytes for 8- and 16-wide groups) and the generation byte end    *)
(* before the slots, and the slots are aligned and padded by less than    *)
(* one alignment.                                                         *)
(***************************************************************************)
SwissArrayLayoutSound ==
    slotType \in SlotTypes =>
    \A c \in 0 .. (bins * SlotsPerBin), gb \in {0, 1} :
        /\ LET so == BL!SlotOffset(c, al, gb)
               used == BL!GenerationOffset(c) + BL!NumGenerationBytes(gb)
           IN  /\ so % al = 0
               /\ used <= so /\ so - used < al
        /\ \A w \in {8, 16} :
              LET so == BL!QpSlotOffset(c, al, gb, w)
                  used == BL!QpGenerationOffset(c, w) + BL!NumGenerationBytes(gb)
              IN  /\ so % al = 0
                  /\ used <= so /\ so - used < al

(***************************************************************************)
(* quadratic_probing.h's BucketPointer addresses, in an array of bins     *)
(* buckets, a header, control bytes and slots that tile the array without *)
(* overlap, with the header at an even offset for its uint16_t loads.    *)
(* The slots, packed after the 2 + slots_per_bucket header and control    *)
(* bytes with no padding, are all aligned for their type (given an array *)
(* aligned for it) exactly when alignof(slot_type) divides those 16       *)
(* bytes: the run tries alignments up to 32, and for 32 the slots are     *)
(* misaligned.  The header and control bytes of a bucket, all that an    *)
(* empty table may read, fit the kEmptyData array a default BucketPointer *)
(* points at.  About the 2 + offset and slots_per_bucket + 2 + offset *   *)
(* sizeof of GetCtrl and GetSlot and the stride of operator++/operator+.  *)
(***************************************************************************)
BucketBytes(b) ==
    {BL!BucketOf(b, sz) + j : j \in 0 .. (BL!kBucketHeaderSize - 1)}
    \cup {BL!BucketCtrlOf(b, i, sz) : i \in 0 .. (SlotsPerBin - 1)}
    \cup {BL!BucketSlotOf(b, i, sz) + j : i \in 0 .. (SlotsPerBin - 1), j \in 0 .. (sz - 1)}

BucketLayoutSound ==
    slotType \in SlotTypes =>
    /\ Cardinality(UNION {BucketBytes(b) : b \in 0 .. (bins - 1)})
           = bins * BL!BucketStride(sz)
    /\ \A b \in 0 .. (bins - 1) :
          /\ BucketBytes(b) \subseteq 0 .. (bins * BL!BucketStride(sz) - 1)
          /\ BL!BucketOf(b, sz) % BL!kBucketHeaderSize = 0
    /\ (\A b \in 0 .. (bins - 1), i \in 0 .. (SlotsPerBin - 1) :
           BL!BucketSlotOf(b, i, sz) % al = 0)
       <=> (BL!kBucketHeaderSize + SlotsPerBin) % al = 0
    /\ BL!BucketCtrlOf(0, SlotsPerBin - 1, sz) < BL!kEmptyDataSize

(***************************************************************************)
(* The BucketPointer header: SetSearchDistance stores any distance up to  *)
(* its assert's bound so that SearchDistance reads it back, whatever the  *)
(* header held, and never changes IsLast; so in an array whose buckets    *)
(* were reset by SetNotLastAndSearchDistanceToZero and whose last bucket  *)
(* alone has bit 15 (as the constructor's SetLast, declared nowhere, is   *)
(* meant to leave it), operator++ steps from each bucket to the next and  *)
(* from the last to nullptr, for every search distance written since.     *)
(* About the ~kSearchDistanceMask of SetSearchDistance and the >> 15 of   *)
(* IsLast, which destroy_slots' walk relies on to stop.                   *)
(***************************************************************************)
HeaderSamples == {0, 1, BL!kSearchDistanceMask, 2^15, 2^15 + 1, 2^16 - 1}
DistanceSamples == {0, 1, 2^14, BL!kSearchDistanceMask}

WalkHeader(b, d) ==
    BL!SetSearchDistance(IF b = bins - 1 THEN 2^15
                         ELSE BL!SetNotLastAndSearchDistanceToZero, d)

BucketHeaderExact ==
    slotType \in SlotTypes =>
    /\ \A h \in HeaderSamples, d \in DistanceSamples :
          /\ BL!SearchDistance(BL!SetSearchDistance(h, d)) = d
          /\ BL!IsLast(BL!SetSearchDistance(h, d)) = BL!IsLast(h)
    /\ \A b \in 0 .. (bins - 1), d \in DistanceSamples :
          BL!BucketIncrement(BL!BucketOf(b, sz), WalkHeader(b, d), sz)
              = IF b = bins - 1 THEN BL!kNullBucket ELSE BL!BucketOf(b + 1, sz)

(***************************************************************************)
(* In the swiss backing array of every valid capacity that fits the bins  *)
(* allocated, SlotAddress from the slot offset puts each of the capacity  *)
(* slots on its alignment, past the control and generation bytes and     *)
(* wholly inside AllocSize, and NextSlot and PrevSlot step between        *)
(* neighbours.  About the slot * slot_size of raw_hash_set.cc's           *)
(* SlotAddress against SlotOffset and AllocSize of part_001.              *)
(***************************************************************************)
SwissSlotsInsideAllocation ==
    slotType \in SlotTypes =>
    \A c \in {n \in 1 .. (bins * SlotsPerBin) : IsValidCapacity(n)}, gb \in {0, 1} :
        LET so == BL!SlotOffset(c, al, gb)
            Slot(i) == BL!SlotAddress(so, i, sz)
        IN  /\ \A i \in 0 .. (c - 1) :
                  /\ Slot(i) % al = 0
                  /\ BL!GenerationOffset(c) + BL!NumGenerationBytes(gb) <= Slot(i)
                  /\ Slot(i) + sz <= BL!AllocSize(c, sz, al, gb)
            /\ \A i \in 0 .. (c - 2) :
                  /\ BL!NextSlot(Slot(i), sz) = Slot(i + 1)
                  /\ BL!PrevSlot(Slot(i + 1), sz) = Slot(i)

(***************************************************************************)
(* ConvertDeletedToEmptyAndFullToDeleted rewrites each of the capacity    *)
(* control bytes of the table's normalised capacity exactly once, to the *)
(* byte one group conversion gives.  The bytes tried are part_001's       *)
(* bit-field ctrl_t (byte = is_disordered + 2 * h2): empty 0xFE, a full   *)
(* h2 0 (converted twice it would end 0x80, not 0xFE) and a full,         *)
(* disordered h2 64.  About the loop's pos < ctrl + capacity bound and    *)
(* its kWidth stride.  What the converted bytes mean in that encoding,   *)
(* and the bytes written at and past ctrl[capacity], are hazards of the   *)
(* README, not claims of this property.                                   *)
(***************************************************************************)
ConvertRewritesEachControlOnce ==
    slotType = NoSlotType =>
    LET c == NormalizeCapacity(size)
    IN  \A byte \in {254, 0, 129} :
           LET ctrl == [i \in 0 .. (c + GroupWidth) |-> IF i < c THEN byte ELSE 254]
               out == ConvertDeletedToEmptyAndFullToDeleted(ctrl, c)
           IN  \A i \in 0 .. (c - 1) : out[i] = ConvertedByte(byte)
=============================================================================
