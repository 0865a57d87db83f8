------------------------------ MODULE GroupBits ------------------------------
(***************************************************************************)
(* The control-byte groups (GroupPortableImpl, GroupSse2Impl and          *)
(* GroupAArch64Impl of quadratic_probing.h 586-785 and part_001 731-953)  *)
(* and the BitMask they return (bit_mask.h).  A group of Width control    *)
(* bytes is loaded little-endian into one word of 8 * Width bits.  The    *)
(* portable Match, MaskEmpty, MaskEmptyOrDeleted,                          *)
(* CountLeadingEmptyOrDeleted and ConvertSpecialToEmptyAndFullToDeleted   *)
(* work on the whole word with the carries and borrows between bytes that *)
(* entails; the SSE2 and NEON ones compare lane by lane.  Each result is  *)
(* checked against a definition over the control values byte by byte.    *)
(*                                                                         *)
(* Layout says how a control value is stored in its byte, and so which    *)
(* file's groups are meant:                                               *)
(*   "byte":     quadratic_probing.h's ctrl_t (440-451), one uint8_t:     *)
(*               kEmpty 0x80, full = the H2; deleted 0xFE and sentinel    *)
(*               0xFF as the group's comments name them;                  *)
(*   "bitfield": part_001's ctrl_t (343-363), {is_disordered_:1, h2_:7},  *)
(*               allocated from the low bit as the x86-64 and AArch64 ABIs *)
(*               do: byte = is_disordered + 2 * h2, empty h2 127.         *)
(***************************************************************************)
EXTENDS Integers, FiniteSets, Sequences, Bitwise, SequencesExt

CONSTANTS
    Width,      \* bytes in a group word (GroupPortableImpl::kWidth, 8)
    H2s,        \* the 7-bit H2 values of the full bytes and of the lookups
    Layout,     \* "byte" or "bitfield"
    Impls       \* the Group implementations checked

ASSUME Width \in 1 .. 3 /\ H2s \subseteq 0 .. 126
ASSUME Layout \in {"byte", "bitfield"}
ASSUME Impls \subseteq {"portable", "sse2", "ssse3", "neon"}

Shift == 3                    \* BitMask<uint64_t, kWidth, 3>
Bits == 8 * Width             \* sizeof(uint64_t) * 8, scaled
Modulus == 2^Bits
Ones == Modulus - 1
Lanes == 0 .. (Width - 1)
Lsbs == LET RECURSIVE L(_) L(i) == IF i = 0 THEN 0 ELSE 256 * L(i - 1) + 1
        IN  L(Width)
Msbs == 128 * Lsbs

\* Unsigned word arithmetic: subtraction, ~, << and >> on uint64_t.
Sub(a, b) == (a - b) % Modulus
Compl(a) == Ones - a
Shl(a, n) == (a * 2^n) % Modulus
Shr(a, n) == a \div 2^n

(***************************************************************************)
(* Control values, and the byte each layout stores for them.              *)
(***************************************************************************)
Empty == [kind |-> "empty", h2 |-> 127, dis |-> FALSE]
Deleted == [kind |-> "deleted", h2 |-> 127, dis |-> FALSE]
Sentinel == [kind |-> "sentinel", h2 |-> 127, dis |-> FALSE]
Full(h, d) == [kind |-> "full", h2 |-> h, dis |-> d]

CtrlValues ==
    IF Layout = "byte"
    THEN {Empty, Deleted, Sentinel} \cup {Full(h, FALSE) : h \in H2s}
    ELSE {Empty} \cup {Full(h, d) : h \in H2s, d \in BOOLEAN}

\* The int8_t values of the compiled-out enum class ctrl_t (453-458).
ByteOfCtrlSigned(c) ==
    CASE c.kind = "empty"    -> -128
      [] c.kind = "deleted"  -> -2
      [] c.kind = "sentinel" -> -1
      [] OTHER               -> c.h2

\* quadratic_probing.h ctrl_t: value_ with kEmpty = 0x80.
ByteOfCtrl(c) ==
    CASE c.kind = "empty"    -> 128
      [] c.kind = "deleted"  -> 254
      [] c.kind = "sentinel" -> 255
      [] OTHER               -> c.h2

\* part_001 ctrl_t: is_disordered_ in bit 0, h2_ in bits 1-7.
BitfieldByteOfCtrl(c) == (IF c.dis THEN 1 ELSE 0) + 2 * c.h2

StoredByte(c) ==
    IF Layout = "byte" THEN ByteOfCtrl(c) ELSE BitfieldByteOfCtrl(c)

\* GroupPortableImpl(pos): little_endian::Load64 of the group's bytes.
Load(g) == LET RECURSIVE W(_) W(i) == IF i = Width THEN 0
                                      ELSE StoredByte(g[i]) + 256 * W(i + 1)
           IN  W(0)

\* The byte of lane i of a word.
LaneByte(w, i) == (w \div 256^i) % 256

(***************************************************************************)
(* GroupPortableImpl's operations (quadratic_probing.h 736-783).          *)
(***************************************************************************)
MatchNoMaskOfX(w, h) ==
    LET x == w ^^ ((Lsbs * h) % Modulus) IN Sub(x, Lsbs) & Msbs

Match(w, h) ==
    LET x == w ^^ ((Lsbs * h) % Modulus) IN (Sub(x, Lsbs) & Compl(x)) & Msbs

MaskEmptyShiftSeven(w) == (w & Shl(Compl(w), 7)) & Msbs

MaskEmpty(w) == (w & Shl(Compl(w), 6)) & Msbs

MaskEmptyOrDeleted(w) == (w & Shl(Compl(w), 7)) & Msbs

\* countr_zero on uint64_t (the word width for 0).
RECURSIVE CountrZero(_)
CountrZero(x) ==
    IF x = 0 THEN Bits ELSE IF x % 2 = 1 THEN 0 ELSE 1 + CountrZero(x \div 2)

CountLeadingNoCompl(w) == CountrZero((w | Shr(w, 7)) & Lsbs) \div 8

CountLeadingEmptyOrDeleted(w) ==
    CountrZero((w | Compl(Shr(w, 7))) & Lsbs) \div 8

ConvertKeepLsbs(w) ==
    LET x == w & Msbs IN (Compl(x) + Shr(x, 7)) % Modulus

ConvertSpecialToEmptyAndFullToDeleted(w) ==
    LET x == w & Msbs IN ((Compl(x) + Shr(x, 7)) % Modulus) & Compl(Lsbs)

(***************************************************************************)
(* The SIMD groups.  Their vector instructions work lane by lane, so they *)
(* are written over the lane bytes; a result is rebuilt as the integer    *)
(* _mm_movemask_epi8 or vget_lane_u64 returns.                            *)
(***************************************************************************)
\* The byte as the int8_t lane of an __m128i or int8x8_t.
Signed(b) == IF b >= 128 THEN b - 256 ELSE b

\* _mm_movemask_epi8: bit i for every lane i of S.
LanesToInt(S) ==
    LET RECURSIVE M(_) M(i) == IF i = Width THEN 0
                               ELSE (IF i \in S THEN 2^i ELSE 0) + M(i + 1)
    IN  M(0)

\* The word whose lane i holds byte f[i] (vreinterpret_u64_u8, Store).
WordOfBytes(f) ==
    LET RECURSIVE W(_) W(i) == IF i = Width THEN 0 ELSE f[i] + 256 * W(i + 1)
    IN  W(0)

\* static_cast<char>(ctrl_t::kEmpty): 0x80 in quadratic_probing.h, 127 in part_001.
KEmptyByte == IF Layout = "byte" THEN 128 ELSE 127

\* part_001 777: the TODO constant the SSE2 group takes for kSentinel.
kSentinel == 42

\* _mm_cmpgt_epi8_fixed (part_001 765-774): a signed lane compare; the
\* -funsigned-char branch tests the sign of the saturated b - a instead.
CmpGtFixed(a, b) ==
    LET diff == Signed(b) - Signed(a)
    IN  diff < 0

\* _mm_sign_epi8(a, b): a negated, zeroed or kept by the sign of b, as a byte.
SignEpi8(a, b) ==
    IF Signed(b) < 0 THEN (256 - a) % 256 ELSE IF b = 0 THEN 0 ELSE a

\* GroupSse2Impl::Match (both files): lanes equal to the hash.
Sse2Match(w, h) == LanesToInt({i \in Lanes : LaneByte(w, i) = h})

\* quadratic_probing.h GroupSse2Impl::MaskEmptyInt: the lanes' sign bits
\* with SSSE3, else the lanes equal to kEmpty.
MaskEmptyInt(w, ssse3) ==
    IF ssse3 THEN LanesToInt({i \in Lanes : Signed(LaneByte(w, i)) < 0})
    ELSE LanesToInt({i \in Lanes : LaneByte(w, i) = KEmptyByte})

\* part_001 GroupSse2Impl::MaskEmpty: the sign bits of _mm_sign_epi8(ctrl,
\* ctrl) with SSSE3, else the lanes equal to kEmpty.
Sse2MaskEmpty(w, ssse3) ==
    IF ssse3
    THEN LanesToInt({i \in Lanes :
                       SignEpi8(LaneByte(w, i), LaneByte(w, i)) >= 128})
    ELSE LanesToInt({i \in Lanes : LaneByte(w, i) = KEmptyByte})

\* part_001 GroupSse2Impl::MaskEmptyOrDeleted: lanes below kSentinel.
Sse2MaskEmptyOrDeleted(w) ==
    LanesToInt({i \in Lanes : CmpGtFixed(kSentinel, LaneByte(w, i))})

\* part_001 GroupSse2Impl::CountLeadingEmptyOrDeleted.
Sse2CountLeadingEmptyOrDeleted(w) ==
    CountrZero(Sse2MaskEmptyOrDeleted(w) + 1)

\* part_001 GroupSse2Impl::ConvertSpecialToEmptyAndFullToDeleted: a lane
\* with the sign bit set becomes 0x80, any other 0x80 | 126.
Sse2Convert(w, ssse3) ==
    LET shuffle(b) == IF b >= 128 THEN 0 ELSE 126
        special(b) == CmpGtFixed(0, b)
    IN  WordOfBytes([i \in Lanes |->
            LET b == LaneByte(w, i) IN
            IF ssse3 THEN shuffle(b) + 128
            ELSE 128 + IF special(b) THEN 0 ELSE 126])

\* GroupAArch64Impl::Match: vceq_u8 lanes of 0xFF, masked to their msbs.
NeonMatch(w, h) ==
    WordOfBytes([i \in Lanes |-> IF LaneByte(w, i) = h THEN 255 ELSE 0]) & Msbs

\* GroupAArch64Impl::MaskEmpty: vceq_s8 with (int8_t)kEmpty, not masked.
NeonMaskEmpty(w) ==
    WordOfBytes([i \in Lanes |-> IF LaneByte(w, i) = KEmptyByte THEN 255 ELSE 0])

\* GroupAArch64Impl::ConvertSpecialToEmptyAndFullToDeleted.
NeonConvert(w) ==
    LET x == (2 * Lsbs) & Shr(w, 6)
    IN  ((x + 126 * Lsbs) % Modulus) | Msbs

(***************************************************************************)
(* NonIterableBitMask and BitMask (bit_mask.h 15-100) with Shift 3.       *)
(***************************************************************************)
RECURSIVE BitWidth(_)
BitWidth(x) == IF x = 0 THEN 0 ELSE 1 + BitWidth(x \div 2)

TrailingZeros(m) == CountrZero(m) \div 2^Shift

LowestBitSetUnshifted(m) == CountrZero(m)

LowestBitSet(m) == CountrZero(m) \div 2^Shift

HighestBitSet(m) == (BitWidth(m) - 1) \div 2^Shift

\* extra_bits = sizeof(T) * 8 - (SignificantBits << Shift), 0 here.
LeadingZeros(m) ==
    LET extra == Bits - Width * 2^Shift
    IN  (Bits - BitWidth(Shl(m, extra))) \div 2^Shift

\* operator++ with ^= for &=: keeps the bits below the lowest one.
AdvanceXor(m) == m ^^ Sub(m, 1)

\* operator++: clear the lowest set bit.
Advance(m) == m & Sub(m, 1)

\* for (i : mask): operator* until the mask equals end(), BitMask(0).
RECURSIVE Iterate(_)
Iterate(m) == IF m = 0 THEN <<>> ELSE <<LowestBitSet(m)>> \o Iterate(Advance(m))

\* The abstract bits of a mask: lanes whose top bit is set.
AbstractBits(m) == {i \in Lanes : LaneByte(m, i) \div 128 = 1}

\* The lanes of an _mm_movemask_epi8 result (BitMask<uint32_t, 16>, Shift 0).
IntBits(m) == {i \in Lanes : (m \div 2^i) % 2 = 1}

(***************************************************************************)
(* The lanes each implementation's operation reports.  Group is           *)
(* GroupSse2Impl (with or without SSSE3) on x86, GroupAArch64Impl on      *)
(* little-endian NEON and GroupPortableImpl elsewhere (part_001 955-961). *)
(* quadratic_probing.h's SSE2 group has only Match and MaskEmpty, and the *)
(* NEON MaskEmptyOrDeleted and CountLeadingEmptyOrDeleted name a          *)
(* ctrl_t::kSentinel neither ctrl_t declares, so they are not compiled.   *)
(***************************************************************************)
MatchOf(impl, w, h) ==
    CASE impl = "portable" -> Match(w, h)
      [] impl = "neon"     -> NeonMatch(w, h)
      [] OTHER             -> Sse2Match(w, h)

\* The Shift of the BitMask each Match returns: BitMask<uint64_t, kWidth, 3>
\* for the portable and NEON groups, BitMask<uint32_t, kWidth> for SSE2.
MaskShift(impl) == IF impl \in {"sse2", "ssse3"} THEN 0 ELSE Shift

\* The abstract bits of a mask of that BitMask type.
MaskLanes(impl, m) == IF MaskShift(impl) = 0 THEN IntBits(m) ELSE AbstractBits(m)

\* operator*, NonIterableBitMask::LowestBitSet of that BitMask type.
LowestBitSetOf(impl, m) == CountrZero(m) \div 2^MaskShift(impl)

MatchLanes(impl, w, h) == MaskLanes(impl, MatchOf(impl, w, h))

EmptyLanes(impl, w) ==
    CASE impl = "portable" -> AbstractBits(MaskEmpty(w))
      [] impl = "neon"     -> AbstractBits(NeonMaskEmpty(w))
      [] Layout = "byte"   -> IntBits(MaskEmptyInt(w, impl = "ssse3"))
      [] OTHER             -> IntBits(Sse2MaskEmpty(w, impl = "ssse3"))

EmptyOrDeletedImpls ==
    Impls \cap IF Layout = "byte" THEN {"portable"}
                ELSE {"portable", "sse2", "ssse3"}

ConvertImpls ==
    Impls \cap IF Layout = "byte" THEN {"portable", "neon"}
                ELSE {"portable", "sse2", "ssse3", "neon"}

EmptyOrDeletedLanes(impl, w) ==
    IF impl = "portable" THEN AbstractBits(MaskEmptyOrDeleted(w))
    ELSE IntBits(Sse2MaskEmptyOrDeleted(w))

CountLeadingOf(impl, w) ==
    IF impl = "portable" THEN CountLeadingEmptyOrDeleted(w)
    ELSE Sse2CountLeadingEmptyOrDeleted(w)

ConvertOf(impl, w) ==
    CASE impl = "portable" -> ConvertSpecialToEmptyAndFullToDeleted(w)
      [] impl = "neon"     -> NeonConvert(w)
      [] OTHER             -> Sse2Convert(w, impl = "ssse3")

(***************************************************************************)
(* The state: the group a probe loop looks at, the H2 it looks for, and   *)
(* the range-for over that group's Match(h2) (part_001 2868-2874 and the  *)
(* find loops): the Group implementation in use, the BitMask iterator     *)
(* `mask` and the lanes the loop body has seen so far.                    *)
(***************************************************************************)
VARIABLES group, hash, groupImpl, mask, yielded
vars == <<group, hash, groupImpl, mask, yielded>>

TypeOK ==
    /\ group \in [Lanes -> CtrlValues] /\ hash \in H2s /\ groupImpl \in Impls
    /\ \A i \in Lanes : StoredByte(group[i]) \in 0 .. 255
    /\ mask \in 0 .. Ones /\ yielded \in Seq(Lanes)

Init ==
    /\ group \in [Lanes -> CtrlValues] /\ hash \in H2s /\ groupImpl \in Impls
    /\ mask = MatchOf(groupImpl, Load(group), hash)
    /\ yielded = <<>>

\* A lookup with another H2 begins the loop over the group's Match, after
\* the last loop ended or returned on a hit.  Group g{pos} copies the bytes
\* into its word, so the group a loop walks never changes under it; Init
\* takes every group.
Lookup ==
    /\ hash' \in H2s
    /\ groupImpl' \in Impls
    /\ mask' = MatchOf(groupImpl', Load(group), hash')
    /\ yielded' = <<>>
    /\ UNCHANGED group

\* One turn of the range-for: it != end() (operator!=, BitMask(0)), the
\* body reads *it, then ++it.
Step ==
    /\ mask # 0
    /\ yielded' = Append(yielded, LowestBitSetOf(groupImpl, mask))
    /\ mask' = Advance(mask)
    /\ UNCHANGED <<group, hash, groupImpl>>

Next == Lookup \/ Step

\* A thread inside the loop always takes its next turn: weak fairness.
Spec == Init /\ [][Next]_vars /\ WF_vars(Step)

\* The word GroupPortableImpl holds for the current group.
Word == Load(group)

(***************************************************************************)
(* Every implementation's Match(h2) finds every full byte holding h2, and *)
(* its false positives are the ones the portable comment allows: only on  *)
(* full bytes, and only above a real match, where the borrow of x - lsbs  *)
(* comes from.  About the portable subtraction borrowing across lanes and *)
(* the lane compares of the SIMD groups against the stored byte.          *)
(***************************************************************************)
MatchSound ==
    \A impl \in Impls :
        LET got == MatchLanes(impl, Word, hash)
            real == {i \in Lanes : group[i].kind = "full" /\ group[i].h2 = hash}
        IN  /\ real \subseteq got
            /\ \A i \in got \ real :
                  group[i].kind = "full" /\ \E j \in real : j < i

(***************************************************************************)
(* Every implementation's MaskEmpty marks exactly the lanes whose control *)
(* value is empty.  About the ~ctrl << 6 trick, the sign-bit and kEmpty   *)
(* compares of the SIMD groups, and the byte an empty ctrl_t really is.   *)
(***************************************************************************)
EmptyMaskExact ==
    \A impl \in Impls :
        EmptyLanes(impl, Word) = {i \in Lanes : group[i].kind = "empty"}

(***************************************************************************)
(* MaskEmptyOrDeleted (portable, and part_001's SSE2 against kSentinel)  *)
(* marks exactly the empty and deleted lanes, and                         *)
(* CountLeadingEmptyOrDeleted is the length of the run of such lanes at   *)
(* the start of the group (the iterator's skip_empty_or_deleted advances  *)
(* by it).  About ~ctrl << 7 and ctrl >> 7 carrying bits between lanes.   *)
(***************************************************************************)
SkippableLane(i) == group[i].kind \in {"empty", "deleted"}

EmptyOrDeletedMasksExact ==
    \A impl \in EmptyOrDeletedImpls :
        /\ EmptyOrDeletedLanes(impl, Word) = {i \in Lanes : SkippableLane(i)}
        /\ CountLeadingOf(impl, Word) =
               Cardinality({i \in Lanes : \A j \in 0 .. i : SkippableLane(j)})

(***************************************************************************)
(* ConvertSpecialToEmptyAndFullToDeleted (portable, NEON and SSE2) turns *)
(* every special lane into                                                *)
(* kEmpty and every full lane into kDeleted, as DropDeletesWithoutResize  *)
(* needs; the addition of x >> 7 must not carry into the next lane.       *)
(***************************************************************************)
ConvertExact ==
    \A impl \in ConvertImpls, i \in Lanes :
        LaneByte(ConvertOf(impl, Word), i) =
            IF group[i].kind = "full" THEN ByteOfCtrl(Deleted) ELSE ByteOfCtrl(Empty)

(***************************************************************************)
(* Iterating a Match mask (operator*, operator++ until end()) yields its  *)
(* abstract bits in increasing order, and LowestBitSet, HighestBitSet,    *)
(* TrailingZeros and LeadingZeros agree with them.  About the Shift that  *)
(* turns bit positions into lane indices and m & (m - 1).                 *)
(***************************************************************************)
IterationExact ==
    LET m == Match(Word, hash)
        bits == AbstractBits(m)
    IN  /\ Iterate(m) = SetToSortSeq(bits, <)
        /\ m # 0 => /\ LowestBitSet(m) = Min(bits)
                    /\ TrailingZeros(m) = Min(bits)
                    /\ HighestBitSet(m) = Max(bits)
        /\ LeadingZeros(m) = IF m = 0 THEN Width ELSE Width - 1 - Max(bits)

(***************************************************************************)
(* The range-for over every Group's Match implements LaneSetIteration:    *)
(* mapped to the abstract bits of the BitMask still to come and the lanes *)
(* seen, each turn yields the lowest lane left and drops exactly it, and  *)
(* a loop not left early reaches end().  About operator++ (m & (m - 1))   *)
(* together with operator* (the Shift of each BitMask type), and the loop *)
(* condition against end() = BitMask(0).                                  *)
(***************************************************************************)
Iteration == INSTANCE LaneSetIteration WITH
    remaining <- MaskLanes(groupImpl, mask), out <- yielded

LaneSetIterationRefined == Iteration!Spec
=============================================================================
