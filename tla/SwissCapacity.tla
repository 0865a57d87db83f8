---------------------------- MODULE SwissCapacity ----------------------------
(***************************************************************************)
(* The capacity arithmetic of quadratic_probing.h's swiss table           *)
(* (src/absl/container/internal/quadratic_probing.h, "qp" below):        *)
(* valid capacities 2^m - 1, the 7/8 load factor and its inverse, and the *)
(* linear probe sequence over buckets.  Pure operators over a size_t of   *)
(* WordBits bits (from GraveyardHash).  Group::kWidth is GroupWidth: 16    *)
(* for the SSE2 group, 8 for the NEON and portable groups, where           *)
(* CapacityToGrowth and GrowthToLowerboundCapacity special-case 7.        *)
(***************************************************************************)
EXTENDS GraveyardHash, Integers, Bitwise

CONSTANT GroupWidth     \* Group::kWidth

ASSUME GroupWidth \in {8, 16}

Wrap(x) == x % WordSize

\* C++ integer division of a signed value truncates toward zero.
TruncDiv(a, b) == IF a < 0 THEN -((-a) \div b) ELSE a \div b

\* countl_zero of a size_t: WordBits less the bit width of n.
BitWidth(n) == CHOOSE w \in 0 .. WordBits : n < 2^w /\ (w = 0 \/ 2^(w - 1) <= n)
CountlZero(n) == WordBits - BitWidth(n)

\* qp 1014-1017: a non-zero 2^m - 1.
IsValidCapacity(n) == (Wrap(n + 1) & n) = 0 /\ n > 0

\* qp 1019-1023.
NextCapacity(n) == Wrap(n * 2 + 1)

\* qp 1035-1038: ~size_t{} >> countl_zero(n), or 1 for 0.
NormalizeCapacity(n) == IF n # 0 THEN (WordSize - 1) \div 2^CountlZero(n) ELSE 1

\* CapacityToGrowth without the kWidth == 8 case: x - x/8 is 7 at 7.
CapacityToGrowthPlain(capacity) == capacity - capacity \div 8

\* qp 1046-1058: capacity * 7/8, with 6 for 7 on 8-wide groups.
CapacityToGrowth(capacity) ==
    IF GroupWidth = 8 /\ capacity = 7 THEN 6 ELSE capacity - capacity \div 8

(***************************************************************************)
(* qp 1060-1072: growth * 8/7, computed as growth + (int64(growth)-1)/7   *)
(* with C++ truncation, so 0 maps to 0; 8 for 7 on 8-wide groups.         *)
(***************************************************************************)
GrowthToLowerboundCapacity(growth) ==
    IF GroupWidth = 8 /\ growth = 7 THEN 8
    ELSE Wrap(growth + TruncDiv(growth - 1, 7))

\* probe_seq::next (qp 411-416) without the wrap back to bucket 0.
ProbeNextNoWrap(index, bucket_count) == index + 1

\* probe_seq::next (qp 411-416): the next bucket, back to 0 at bucket_count.
ProbeNext(index, bucket_count) ==
    IF index + 1 = bucket_count THEN 0 ELSE index + 1

\* The bucket probe_seq(h1, bucket_count) is at after i calls of next().
RECURSIVE ProbeIndex(_, _, _)
ProbeIndex(h1, bucket_count, i) ==
    IF i = 0 THEN h1 ELSE ProbeNext(ProbeIndex(h1, bucket_count, i - 1), bucket_count)

(***************************************************************************)
(* CommonFields::Capacity (qp 961-988), slots_per_bucket = SlotsPerBin:   *)
(* the capacity kept in a ptrdiff_t as -capacity below one bucket, else   *)
(* as the bucket count; the constructor asserts a multiple of a bucket.   *)
(***************************************************************************)
ToEncodedCapacity(capacity) ==
    IF capacity < SlotsPerBin THEN -capacity ELSE capacity \div SlotsPerBin

FromEncodedCapacity(encoded) ==
    IF encoded <= 0 THEN -encoded ELSE Wrap(encoded * SlotsPerBin)

\* bucket_count() answering 1 for the encoded 0 too.
BucketCountNoZero(encoded) == IF encoded <= 0 THEN 1 ELSE encoded

\* bucket_count(): 1 for a capacity below one bucket, 0 for capacity 0.
BucketCount(encoded) == IF encoded < 0 THEN 1 ELSE encoded

\* The capacities the constructor's asserts accept.
EncodableCapacity(capacity) ==
    /\ capacity < 2^(WordBits - 1)
    /\ capacity < SlotsPerBin \/ capacity % SlotsPerBin = 0


(***************************************************************************)
(* raw_hash_set.cc 97-108: ConvertDeletedToEmptyAndFullToDeleted walks    *)
(* the control bytes a group at a time from ctrl while pos < ctrl +       *)
(* capacity, and each Group::ConvertSpecialToEmptyAndFullToDeleted stores *)
(* all GroupWidth lanes.  raw_hash_set.cc includes part_001, so Group is  *)
(* part_001's (956-960); its SSE2, NEON and portable conversions         *)
(* (820-831, 944-950) each map a byte with the top bit set to 0x80 and    *)
(* any other to 0xFE, lane by lane (GroupBits checks this on the word).  *)
(* NumClonedBytes() is 0 in part_001, so the memcpy copies nothing, and   *)
(* the sentinel restore is under #if 0.  A control array is a function    *)
(* from byte offsets to the bytes stored there.                           *)
(***************************************************************************)
ConvertedByte(b) == IF b >= 128 THEN 128 ELSE 254

\* One Group{pos}.ConvertSpecialToEmptyAndFullToDeleted(pos).
ConvertGroupAt(ctrl, pos) ==
    [i \in DOMAIN ctrl |->
        IF i \in pos .. (pos + GroupWidth - 1) THEN ConvertedByte(ctrl[i])
        ELSE ctrl[i]]

\* The loop stopping one group early (pos + kWidth < ctrl + capacity).
RECURSIVE ConvertGroupsShort(_, _, _)
ConvertGroupsShort(ctrl, pos, capacity) ==
    IF pos + GroupWidth >= capacity THEN ctrl
    ELSE ConvertGroupsShort(ConvertGroupAt(ctrl, pos), pos + GroupWidth, capacity)

RECURSIVE ConvertGroups(_, _, _)
ConvertGroups(ctrl, pos, capacity) ==
    IF pos >= capacity THEN ctrl
    ELSE ConvertGroups(ConvertGroupAt(ctrl, pos), pos + GroupWidth, capacity)

ConvertDeletedToEmptyAndFullToDeleted(ctrl, capacity) ==
    ConvertGroups(ctrl, 0, capacity)

=============================================================================
