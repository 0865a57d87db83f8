---------------------------- MODULE GraveyardHash ----------------------------
(***************************************************************************)
(* Hash splitting and table sizing of graveyard raw_hash_set              *)
(* (src/unnamed/part_001).  Pure operators, no state.                      *)
(*                                                                         *)
(*   H1(hash, logical_bin_count)  bin number: high bits of hash * L        *)
(*   H2(hash)                     7-bit tag stored in the control byte     *)
(*   Ceil, BinCountForLoad        bins needed for a size at a load factor  *)
(*   SizeAfterRehash, resize      the sizes prepare_insert asks resize for *)
(*                                                                         *)
(* size_t is WordBits wide.  The code has a 64-bit branch (uint128        *)
(* product >> 64) and a 32-bit branch (uint64 product >> 32); both are     *)
(* "take the high word of the double-width product", which is what H1     *)
(* below computes for a word of WordBits bits.                             *)
(***************************************************************************)
EXTENDS Naturals

CONSTANTS
    WordBits,           \* width of size_t
    SlotsPerBin,        \* GraveyardCommonPolicy::kSlotsPerBin (14)
    FullNum, FullDen,   \* kFullUtilizationNumerator / Denominator (7/8)
    RehashNum, RehashDen \* kRehashedUtilizationNumerator / Denominator (7/16)

ASSUME WordBits \in Nat \ {0}
ASSUME SlotsPerBin \in Nat \ {0}
ASSUME \A x \in {FullNum, FullDen, RehashNum, RehashDen} : x \in Nat \ {0}

WordSize == 2^WordBits
SizeT == 0 .. (WordSize - 1)

\* The sentinel h2 value of an empty control byte (ctrl_t::kEmpty).
kEmpty == 127

(***************************************************************************)
(* Faulty variants of the definitions below, each a plausible slip in the  *)
(* code it stands beside.  A property is only worth checking if one of    *)
(* these breaks it.                                                        *)
(***************************************************************************)
\* H1 by modulo reduction, as swiss tables do: loses the order of bins.
H1Modulo(hash, logical_bin_count) ==
    IF logical_bin_count = 0 THEN 0 ELSE hash % logical_bin_count
\* H2 as the swiss-table 7-bit mask, which can produce kEmpty.
H2Mask(hash) == hash % 128
\* Ceil written as plain integer division.
CeilFloor(a, b) == a \div b

(***************************************************************************)
(* part_001 321-328: the product of hash and the logical bin count,        *)
(* shifted right by the width of size_t.                                   *)
(***************************************************************************)
H1(hash, logical_bin_count) == (hash * logical_bin_count) \div WordSize

\* part_001 330-332.
H2(hash) == hash % 127

\* part_001 1187-1189: the ceiling of a/b.
Ceil(a, b) == (a + b - 1) \div b

(***************************************************************************)
(* part_001 1194-1206, BinCountForLoad<slots_per_bin, kNumerator,          *)
(* kDenominator>, instantiated with the full utilization (resize_to_size). *)
(***************************************************************************)
BinCountForLoad(size) ==
    IF size = 0 THEN 0
    ELSE IF size <= SlotsPerBin THEN 1
    ELSE Ceil(size * FullDen, SlotsPerBin * FullNum)

\* part_001 2662-2664: the size handed to resize when growing.
SizeAfterRehash(size) == Ceil(size * RehashNum, RehashDen)

(***************************************************************************)
(* part_001 2622-2627 resize(new_capacity) followed by the AllocateMemory  *)
(* of resize_to_size (2590-2593): the number of bins a resize allocates.   *)
(***************************************************************************)
ResizeBins(new_capacity) ==
    LET c == IF new_capacity = 0 THEN 1 ELSE new_capacity
    IN  BinCountForLoad(Ceil(c * FullNum, FullDen))

(***************************************************************************)
(* part_001 2711-2714: the resize prepare_insert does when growth_left()   *)
(* is 0 (and no bug-detection rehash happened): the bins it allocates.     *)
(***************************************************************************)
GrowthResizeBins(size) == ResizeBins(SizeAfterRehash(size))
=============================================================================
