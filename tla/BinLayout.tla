------------------------------ MODULE BinLayout ------------------------------
(***************************************************************************)
(* The memory layout of HashTableMemory (src/unnamed/part_001 396-586).   *)
(* One bin is kSlotsPerBin control bytes, then a search_distance_t, then  *)
(* kSlotsPerBin slots, each part aligned with AlignAs; bins follow one     *)
(* another every kBinSize bytes from memory_.  Pure operators of the slot  *)
(* type's size and alignment.                                              *)
(***************************************************************************)
EXTENDS Integers, Bitwise

CONSTANTS
    WordBits,       \* width of size_t
    SlotsPerBin,    \* kSlotsPerBin
    CacheLineSize   \* Policy::cache_line_size (ABSL_CACHELINE_SIZE)

WordSize == 2^WordBits

\* sizeof and alignof of ctrl_t and search_distance_t, as part_000
\* static_asserts them (a one-byte bit-field struct, a two-byte one).
kCtrlSize == 1
kCtrlAlign == 1
kSearchDistanceSize == 2
kSearchDistanceAlign == 2

MaxOf(a, b) == IF a >= b THEN a ELSE b

(***************************************************************************)
(* AlignAs rounding one past the aligned size: adds align instead of       *)
(* align - 1, so an already aligned size moves up.                         *)
(***************************************************************************)
AlignAsPastEnd(size, align) == (size + align) & ((WordSize - align) % WordSize)
\* AlignAs masking with ~align, the one's complement, instead of ~align + 1.
AlignAsOnesComplement(size, align) == (size + align - 1) & (WordSize - 1 - align)

(***************************************************************************)
(* part_001 334-336: (size + align - 1) & (~align + 1) in size_t; ~align+1 *)
(* is the two's complement of align.                                       *)
(***************************************************************************)
AlignAs(size, align) == (size + align - 1) & ((WordSize - align) % WordSize)

\* part_001 414-425: the offsets of the three parts of a bin and its size.
kCtrlStart == 0
kSearchDistanceStart ==
    AlignAs(kCtrlStart + SlotsPerBin * kCtrlSize, kSearchDistanceAlign)
kValueStart(slotSize, slotAlign) ==
    AlignAs(kSearchDistanceStart + kSearchDistanceSize, slotAlign)
kBinSize(slotSize, slotAlign) ==
    AlignAs(kValueStart(slotSize, slotAlign) + SlotsPerBin * slotSize, kCtrlAlign)
kAlignment(slotAlign) ==
    MaxOf(kCtrlAlign, MaxOf(kSearchDistanceAlign, slotAlign))

(***************************************************************************)
(* part_001 463-484 and 576-583: byte offsets from memory_ of the control  *)
(* bytes, the search distance and a slot of bin b (Bin(b) is memory_ +     *)
(* b * kBinSize), and SizeOf() for a number of physical bins.              *)
(***************************************************************************)
ControlOf(b, slotSize, slotAlign) ==
    b * kBinSize(slotSize, slotAlign) + kCtrlStart
SearchDistanceOf(b, slotSize, slotAlign) ==
    b * kBinSize(slotSize, slotAlign) + kSearchDistanceStart
SlotOf(b, i, slotSize, slotAlign) ==
    b * kBinSize(slotSize, slotAlign) + kValueStart(slotSize, slotAlign) + i * slotSize
SizeOf(bins, slotSize, slotAlign) == bins * kBinSize(slotSize, slotAlign)

(***************************************************************************)
(* part_001 456-462: the alignment AllocateMemory passes to aligned_alloc: *)
(* the cache line for more than 4 bins, the natural alignment otherwise.   *)
(***************************************************************************)
AllocAlignment(bins, slotAlign) ==
    IF bins > 4 THEN MaxOf(CacheLineSize, kAlignment(slotAlign))
    ELSE kAlignment(slotAlign)

(***************************************************************************)
(* The swiss backing array InitializeSlots allocates for CommonFields     *)
(* (part_001 1409-1430): capacity + 1 control bytes (NumClonedBytes is 0, *)
(* 1355), the generation byte when generations are enabled (genBytes,     *)
(* NumGenerationBytes 294-298), then the slots at slot_align.             *)
(***************************************************************************)
NumClonedBytes == 0
NumGenerationBytes(genBytes) == genBytes

GenerationOffset(capacity) == capacity + 1 + NumClonedBytes

\* SlotOffset leaving out NumGenerationBytes().
SlotOffsetNoGeneration(capacity, slotAlign, genBytes) ==
    AlignAs(capacity + 1 + NumClonedBytes, slotAlign)

SlotOffset(capacity, slotAlign, genBytes) ==
    (capacity + 1 + NumClonedBytes + NumGenerationBytes(genBytes) + slotAlign - 1)
        & ((WordSize - slotAlign) % WordSize)

AllocSize(capacity, slotSize, slotAlign, genBytes) ==
    SlotOffset(capacity, slotAlign, genBytes) + capacity * slotSize

(***************************************************************************)
(* raw_hash_set.cc 110-127: the address of the ith slot and the slots     *)
(* either side of one, in uintptr_t arithmetic.                           *)
(***************************************************************************)
\* SlotAddress one slot too far on (slot + 1 for slot).
SlotAddressPastSlot(slotArray, slot, slotSize) ==
    (slotArray + (slot + 1) * slotSize) % WordSize

SlotAddress(slotArray, slot, slotSize) == (slotArray + slot * slotSize) % WordSize

NextSlot(slot, slotSize) == (slot + slotSize) % WordSize

PrevSlot(slot, slotSize) == (slot - slotSize) % WordSize

(***************************************************************************)
(* The same backing array in quadratic_probing.h (1003-1009, 1200-1221),  *)
(* whose NumClonedBytes is Group::kWidth - 1: the control bytes end with  *)
(* a copy of the first group's, so a group load from any control byte     *)
(* stays inside the array.                                                *)
(***************************************************************************)
QpNumClonedBytes(groupWidth) == groupWidth - 1

QpGenerationOffset(capacity, groupWidth) == capacity + 1 + QpNumClonedBytes(groupWidth)

QpSlotOffset(capacity, slotAlign, genBytes, groupWidth) ==
    (capacity + 1 + QpNumClonedBytes(groupWidth) + NumGenerationBytes(genBytes)
        + slotAlign - 1) & ((WordSize - slotAlign) % WordSize)

QpAllocSize(capacity, slotSize, slotAlign, genBytes, groupWidth) ==
    QpSlotOffset(capacity, slotAlign, genBytes, groupWidth) + capacity * slotSize

(***************************************************************************)
(* quadratic_probing.h's BucketPointer<slots_per_bucket, SlotType>       *)
(* (534-584), slots_per_bucket = SlotsPerBin: a bucket is a uint16_t      *)
(* header (search distance in bits 0-14, IsLast in bit 15), then          *)
(* slots_per_bucket control bytes, then slots_per_bucket slots, packed    *)
(* with no padding.  Offsets from the first bucket's bucket_start_.       *)
(***************************************************************************)
kBucketHeaderSize == 2     \* the uint16_t SearchDistance and IsLast read

\* The step of operator++ and operator+.
BucketStride(slotSize) == SlotsPerBin + 2 + SlotsPerBin * slotSize

\* operator+(b) on the first bucket.
BucketOf(b, slotSize) == b * BucketStride(slotSize)

\* GetCtrl(offset): bucket_start_[2 + offset].
BucketCtrlOf(b, i, slotSize) == BucketOf(b, slotSize) + 2 + i

\* GetSlot forgetting the two header bytes.
BucketSlotNoHeader(b, i, slotSize) == BucketOf(b, slotSize) + SlotsPerBin + i * slotSize

\* GetSlot(offset): bucket_start_ + slots_per_bucket + 2 + offset * sizeof.
BucketSlotOf(b, i, slotSize) == BucketOf(b, slotSize) + SlotsPerBin + 2 + i * slotSize

\* kEmptyData[max_slots_per_bucket + 2], the bucket an empty table points at.
kEmptyDataSize == SlotsPerBin + 2

(***************************************************************************)
(* The bucket header, a uint16_t (550-565): SearchDistance() is its low   *)
(* 15 bits, IsLast() bit 15; SetSearchDistance keeps bit 15 (~mask is     *)
(* taken in int) and stores the distance, truncated to 16 bits by the     *)
(* assignment; SetNotLastAndSearchDistanceToZero stores 0.                *)
(***************************************************************************)
kSearchDistanceMask == 2^15 - 1
kHeaderSize == 2^16

SearchDistance(header) == header & kSearchDistanceMask

\* SetSearchDistance forgetting to clear the old distance bits.
SetSearchDistanceNoClear(header, distance) == (header | distance) % kHeaderSize

SetSearchDistance(header, distance) ==
    ((header & (kHeaderSize - 1 - kSearchDistanceMask)) | distance) % kHeaderSize

SetNotLastAndSearchDistanceToZero == 0

IsLast(header) == header \div 2^15

(***************************************************************************)
(* operator++ (566-573): nullptr after the last bucket, else the next     *)
(* bucket one stride on.  kNullBucket stands for nullptr among offsets.   *)
(***************************************************************************)
kNullBucket == -1

BucketIncrement(at, header, slotSize) ==
    IF IsLast(header) = 1 THEN kNullBucket ELSE at + BucketStride(slotSize)
=============================================================================
