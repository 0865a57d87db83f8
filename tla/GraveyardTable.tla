--------------------------- MODULE GraveyardTable ---------------------------
(***************************************************************************)
(* raw_hash_set over its bins (src/unnamed/part_001 1540-2923), in a build *)
(* with generations disabled: insert (find_or_prepare_insert,             *)
(* prepare_insert, emplace_at), clear, reserve and the destructor, with  *)
(* the resize they may run, on one table.  erase is left out: it calls  *)
(* erase(iterator), which names the iterator's ctrl_ and slot_, members   *)
(* the graveyard iterator lacks, so no erase compiles once instantiated.  *)
(*                                                                         *)
(* The table's fields are the record t: the bins of hashtable_memory_     *)
(* (physical bin count, control bytes, search_distance_t of each bin, the *)
(* object constructed in each slot) and the CommonFields counters.        *)
(* logical_bin_count_ is never assigned, so H1 is taken with 0 bins and   *)
(* every key starts at bin 0.  No constructor allocates                    *)
(* hashtable_memory_: InitBins = 0 is the table as constructed, and       *)
(* InitBins > 0 starts from bins allocated by AllocateMemory, to follow   *)
(* the operations past their first bin access.                            *)
(*                                                                         *)
(* aligned_alloc returns uninitialised bins.  The model takes the outcome *)
(* in which they read as the spec's fresh bins (empty control bytes,      *)
(* search distance 0, is_end on the last bin); every defect found is      *)
(* therefore reachable.  A failed assert or a memory error ends the run   *)
(* in `fault`.                                                             *)
(***************************************************************************)
EXTENDS GraveyardHash, FiniteSets, TLC

CONSTANTS
    Keys,       \* the keys inserted (value_type is the key)
    Hash,       \* Hash[k]: hasher()(k)
    InitBins,   \* physical bins held at the start (0: as constructed)
    MaxBins,    \* bound on the physical bin count
    MaxSize,    \* bound on size_
    Asserts,    \* TRUE: assert() is compiled in (no NDEBUG)
    ReserveSizes, \* arguments given to reserve
    BucketCounts, \* bucket_count arguments of the constructor
    NoKey       \* no object constructed in the slot

ASSUME Hash \in [Keys -> SizeT] /\ NoKey \notin Keys
ASSUME InitBins \in 0 .. MaxBins /\ Asserts \in BOOLEAN

\* logical_bin_count_ (part_001 585) has no assignment anywhere.
LogicalBinCount == 0

Wrap(x) == x % WordSize
SlotIdx == 0 .. (SlotsPerBin - 1)
BinIdx == 0 .. (MaxBins - 1)
Pos == BinIdx \X SlotIdx
NoPos == <<MaxBins, 0>>

\* ctrl_t (part_001 343-363): {is_disordered:1, h2:7}; h2 127 is empty.
CtrlEmpty == [dis |-> FALSE, h2 |-> kEmpty]
Ctrl == {CtrlEmpty} \cup [dis : BOOLEAN, h2 : 0 .. (kEmpty - 1)]
IsFull(c) == c.h2 # kEmpty
\* ctrl_t::H2() is declared bool: the stored tag converted to 0 or 1.
CtrlH2(c) == IF c.h2 # 0 THEN 1 ELSE 0

\* Bins as aligned_alloc leaves them, read as fresh bins (see above).
FreshCtrl == [p \in Pos |-> CtrlEmpty]
FreshEnd(n) == [b \in BinIdx |-> b = n - 1]
FreshDist == [b \in BinIdx |-> 0]
NoObjects == [p \in Pos |-> NoKey]

MinOf(S) == CHOOSE x \in S : \A y \in S : x <= y
Order(p) == p[1] * SlotsPerBin + p[2]
FirstPos(S) == CHOOSE p \in S : \A q \in S : Order(p) <= Order(q)

Faults == {"none", "Bin: bin_number >= physical_bin_count_",
           "find_first_empty: assert(!is_end)",
           "find_first_empty: read past the bin array",
           "find: read past the bin array",
           "emplace_at: constructed value does not match the lookup key",
           "resize_to_size: read of freed bins",
           "resize_to_size: hash of a destroyed element",
           "~HashTableMemory: memory_ != nullptr",
           "InitializeSlots: assert(c.capacity_)"}

VARIABLES
    t,          \* the table's fields (see TypeOK)
    inserted,   \* ghost: keys an insert reported in the table
    lost,       \* ghost: keys whose object was abandoned without destruction
    fault       \* "none", or the failed assert or memory error

vars == <<t, inserted, lost, fault>>

TypeOK ==
    /\ t.pbc \in 0 .. MaxBins
    /\ t.ctrl \in [Pos -> Ctrl] /\ t.isEnd \in [BinIdx -> BOOLEAN]
    /\ t.dist \in [BinIdx -> 0 .. (2^15 - 1)]
    /\ t.slot \in [Pos -> Keys \cup {NoKey}]
    /\ t.size \in 0 .. MaxSize /\ t.capacity \in SizeT /\ t.growthLeft \in SizeT
    /\ t.alive \in BOOLEAN
    /\ inserted \subseteq Keys /\ lost \subseteq Keys
    /\ fault \in Faults

\* ResetGrowthLeft (part_001 1357-1359): CapacityToGrowth is commented out.
ResetGrowthLeft(s) == [s EXCEPT !.growthLeft = Wrap(s.capacity - s.size)]

(***************************************************************************)
(* InitializeSlots (part_001 1432-1459): assert(c.capacity_), a control   *)
(* and slot array apart from the bins, and ResetCtrl (1363-1374), which   *)
(* writes two bytes of that array and ends with ResetGrowthLeft.          *)
(***************************************************************************)
InitializeSlots(s) ==
    [tab |-> ResetGrowthLeft(s),
     fault |-> IF Asserts /\ s.capacity = 0
               THEN "InitializeSlots: assert(c.capacity_)" ELSE "none"]

(***************************************************************************)
(* raw_hash_set(bucket_count) (part_001 1806-1815): capacity_ is the      *)
(* bucket count as given (NormalizeCapacity is commented out) and, when  *)
(* it is not 0, initialize_slots.  hashtable_memory_ gets no bins.        *)
(***************************************************************************)
Init ==
    /\ \E b \in BucketCounts :
        LET s0 == [pbc |-> InitBins, ctrl |-> FreshCtrl, isEnd |-> FreshEnd(InitBins),
                   dist |-> FreshDist, slot |-> NoObjects, size |-> 0, capacity |-> b,
                   growthLeft |-> 0, alive |-> TRUE]
        IN  t = IF b = 0 THEN s0 ELSE InitializeSlots(s0).tab
    /\ inserted = {} /\ lost = {} /\ fault = "none"

Running == fault = "none" /\ t.alive

(***************************************************************************)
(* find(key, hash) (part_001 2404-2424), has_element (2629-2647) and the  *)
(* search of find_or_prepare_insert (2671-2690): MakeBinPointer(H1), whose *)
(* Bin asserts H1 < physical_bin_count_, then the slots of the            *)
(* search_distance bins from there that are full, whose ctrl_t::H2()      *)
(* equals H2(hash) and whose element equals the key.  The first in bin    *)
(* and slot order, or NoPos for end().                                    *)
(***************************************************************************)
Lookup(s, k) ==
    LET h == Hash[k]
        h1 == H1(h, LogicalBinCount)
        scanned == {h1 + o : o \in 0 .. (s.dist[h1] - 1)}
        hits == {p \in Pos : /\ p[1] \in scanned /\ IsFull(s.ctrl[p])
                             /\ CtrlH2(s.ctrl[p]) = H2(h) /\ s.slot[p] = k}
    IN  IF h1 >= s.pbc
        THEN [pos |-> NoPos, fault |-> "Bin: bin_number >= physical_bin_count_"]
        ELSE IF \E b \in scanned : b >= s.pbc
        THEN [pos |-> NoPos, fault |-> "find: read past the bin array"]
        ELSE [pos |-> IF hits = {} THEN NoPos ELSE FirstPos(hits),
              fault |-> "none"]

(***************************************************************************)
(* HashTableMemory::find_first_empty (part_001 551-573): from bin H1,      *)
(* the first empty slot of a bin, else assert(!is_end) and the next bin.  *)
(* Without the assert the walk goes on past the last bin.                 *)
(***************************************************************************)
RECURSIVE FirstEmptyFrom(_, _, _, _)
FirstEmptyFrom(b, ctrl, isEnd, n) ==
    IF b >= n
    THEN [pos |-> NoPos, fault |-> "find_first_empty: read past the bin array"]
    ELSE LET empty == {i \in SlotIdx : ~IsFull(ctrl[<<b, i>>])} IN
         IF empty # {} THEN [pos |-> <<b, MinOf(empty)>>, fault |-> "none"]
         ELSE IF Asserts /\ isEnd[b]
         THEN [pos |-> NoPos, fault |-> "find_first_empty: assert(!is_end)"]
         ELSE FirstEmptyFrom(b + 1, ctrl, isEnd, n)

FindFirstEmpty(hash, ctrl, isEnd, n) ==
    LET h1 == H1(hash, LogicalBinCount) IN
    IF h1 >= n
    THEN [pos |-> NoPos, fault |-> "Bin: bin_number >= physical_bin_count_"]
    ELSE FirstEmptyFrom(h1, ctrl, isEnd, n)
(***************************************************************************)
(* The for loop of resize_to_size (part_001 2597-2617) over the slots of  *)
(* the first old bin: each full slot is hashed, given the first empty     *)
(* slot of the new bins with a disordered control byte, and transferred.  *)
(* r is [tab, pos, fault, lost], the new table being filled.              *)
(***************************************************************************)
RECURSIVE MoveFirstBin(_, _, _)
MoveFirstBin(i, old, r) ==
    LET p == <<0, i>>
        k == old.slot[p]
        d == FindFirstEmpty(Hash[k], r.tab.ctrl, r.tab.isEnd, r.tab.pbc)
    IN  IF i = SlotsPerBin \/ r.fault # "none" THEN r
        ELSE IF ~IsFull(old.ctrl[p]) THEN MoveFirstBin(i + 1, old, r)
        ELSE IF k = NoKey
        THEN [r EXCEPT !.fault = "resize_to_size: hash of a destroyed element"]
        ELSE IF d.fault # "none" THEN [r EXCEPT !.fault = d.fault]
        ELSE MoveFirstBin(i + 1, old,
                 [r EXCEPT !.tab.ctrl[d.pos] = [dis |-> TRUE, h2 |-> H2(Hash[k])],
                           !.tab.slot[d.pos] = k])

(***************************************************************************)
(* resize_to_size(new_size) (part_001 2590-2617).  The bins move out to   *)
(* old_memory, BinCountForLoad(new_size) fresh bins are allocated,        *)
(* capacity_ becomes GetLogicalBinCount (0) slots, and initialize_slots   *)
(* asserts it is not 0 and resets growth_left.  The loop starts           *)
(* with MakeBinPointer(0) on the old bins (Bin asserts 0 < their count)   *)
(* and, after the first bin: breaks if it is the end bin, and then        *)
(* ~HashTableMemory asserts the old memory_ is null (old objects left     *)
(* behind are never destroyed); otherwise Deallocate frees the old bins   *)
(* and the next iteration reads the freed second bin.                     *)
(***************************************************************************)
ResizeToSize(s, newSize) ==
    LET n == BinCountForLoad(newSize)
        init == InitializeSlots(
                    [s EXCEPT !.pbc = n, !.ctrl = FreshCtrl, !.isEnd = FreshEnd(n),
                              !.dist = FreshDist, !.slot = NoObjects,
                              !.capacity = LogicalBinCount * SlotsPerBin])
        moved == MoveFirstBin(0, s, [tab |-> init.tab, pos |-> NoPos,
                                     fault |-> "none", lost |-> {}])
        left == {s.slot[p] : p \in {q \in Pos : /\ s.slot[q] # NoKey
                                       /\ ~(q[1] = 0 /\ IsFull(s.ctrl[q]))}}
    IN  IF init.fault # "none" THEN [moved EXCEPT !.fault = init.fault]
        ELSE IF s.pbc = 0
        THEN [moved EXCEPT !.fault = "Bin: bin_number >= physical_bin_count_"]
        ELSE IF moved.fault # "none" THEN moved
        ELSE IF ~s.isEnd[0]
        THEN [moved EXCEPT !.fault = "resize_to_size: read of freed bins"]
        ELSE IF Asserts
        THEN [moved EXCEPT !.fault = "~HashTableMemory: memory_ != nullptr"]
        ELSE [moved EXCEPT !.lost = left]

\* resize(new_capacity) (part_001 2622-2627).
Resize(s, newCapacity) ==
    ResizeToSize(s, Ceil((IF newCapacity = 0 THEN 1 ELSE newCapacity) * FullNum,
                         FullDen))

(***************************************************************************)
(* prepare_insert(hash, h2) (part_001 2700-2722) with generations        *)
(* disabled, so should_rehash_for_bug_detection_on_insert is false: the   *)
(* first empty slot, a resize to SizeAfterRehash(size_) and a new search  *)
(* if growth_left() is 0, ++size_, growth_left() less one for the empty   *)
(* target.  The control byte MakeDisordered builds is discarded, so the   *)
(* target's control byte stays empty.                                     *)
(***************************************************************************)
PrepareInsert(s, k) ==
    LET h == Hash[k]
        t0 == FindFirstEmpty(h, s.ctrl, s.isEnd, s.pbc)
        grow == s.growthLeft = 0
        r == IF grow THEN Resize(s, SizeAfterRehash(s.size))
             ELSE [tab |-> s, pos |-> NoPos, fault |-> "none", lost |-> {}]
        tg == IF grow THEN FindFirstEmpty(h, r.tab.ctrl, r.tab.isEnd, r.tab.pbc)
              ELSE t0
        u == r.tab
    IN  IF t0.fault # "none"
        THEN [tab |-> s, pos |-> NoPos, fault |-> t0.fault, lost |-> {}]
        ELSE IF r.fault # "none" THEN r
        ELSE IF tg.fault # "none" THEN [r EXCEPT !.fault = tg.fault]
        ELSE [r EXCEPT !.pos = tg.pos,
                       !.tab.size = u.size + 1,
                       !.tab.growthLeft =
                           Wrap(u.growthLeft - IF IsFull(u.ctrl[tg.pos]) THEN 0 ELSE 1)]

\* A failed assert or memory error: the program stops.
Fail(msg) == fault' = msg /\ UNCHANGED <<t, inserted, lost>>
(***************************************************************************)
(* emplace_at(it, args) (part_001 2732-2739): the object is constructed   *)
(* in the slot (an object already there is overwritten, never destroyed), *)
(* then assert(find(value at it) == it).                                          *)
(***************************************************************************)
EmplaceAt(s, p, k) ==
    LET u == [s EXCEPT !.slot[p] = k]
    IN  [tab |-> u,
         over |-> {s.slot[p]} \ {NoKey},
         fault |-> IF Asserts /\ Lookup(u, k).pos # p
                   THEN "emplace_at: constructed value does not match the lookup key"
                   ELSE "none"]

(***************************************************************************)
(* find_or_prepare_insert(key) (part_001 2671-2692): the slot holding the *)
(* key, searched as find does, or else prepare_insert's target; `new`     *)
(* is the bool of the returned pair.                                      *)
(***************************************************************************)
FindOrPrepareInsert(s, k) ==
    LET f == Lookup(s, k)
    IN  IF f.fault # "none" \/ f.pos # NoPos
        THEN [tab |-> s, pos |-> f.pos, fault |-> f.fault, lost |-> {}, new |-> FALSE]
        ELSE [new |-> TRUE] @@ PrepareInsert(s, k)

\* emplace_at at the slot find_or_prepare_insert returned, when res.second.
EmplaceIfNew(r, k) ==
    IF r.fault # "none" \/ ~r.new THEN r
    ELSE LET e == EmplaceAt(r.tab, r.pos, k)
         IN  [r EXCEPT !.tab = e.tab, !.lost = @ \cup e.over, !.fault = e.fault]

\* EmplaceDecomposable (part_001 2536-2546).
EmplaceDecomposable(s, k) == EmplaceIfNew(FindOrPrepareInsert(s, k), k)

\* The table after an insert of k whose emplace returned r: a failed assert
\* or memory error stops the program with the table as it was.
ApplyInsert(r, k) ==
    IF r.fault # "none" THEN Fail(r.fault)
    ELSE /\ r.tab.pbc <= MaxBins
         /\ t' = r.tab
         /\ inserted' = inserted \cup {k}
         /\ lost' = lost \cup r.lost
         /\ UNCHANGED fault

(***************************************************************************)
(* insert(value) and its hinted, ranged and initializer-list overloads    *)
(* (part_001 2047-2121): emplace, which applies EmplaceDecomposable since *)
(* the value is its own key.                                              *)
(***************************************************************************)
Insert(k) ==
    /\ Running
    /\ t.size < MaxSize
    /\ ApplyInsert(EmplaceDecomposable(t, k), k)

\* destroy_slots (part_001 2028-2037): the objects of the full slots of the bins.
DestroySlots(s) ==
    [s EXCEPT !.slot = [p \in Pos |-> IF p[1] < s.pbc /\ IsFull(s.ctrl[p])
                                      THEN NoKey ELSE s.slot[p]]]

(***************************************************************************)
(* ClearBackingArray (raw_hash_set.cc 153-171): size_ 0, then on reuse    *)
(* ResetCtrl (growth_left = capacity_), else capacity_ and growth_left 0. *)
(* The bins and their control bytes are left as they were.                *)
(***************************************************************************)
ClearBackingArray(s, reuse) ==
    LET u == [s EXCEPT !.size = 0]
    IN  IF reuse THEN ResetGrowthLeft(u)
        ELSE [u EXCEPT !.capacity = 0, !.growthLeft = 0]

\* clear() (part_001 2009-2026): nothing at capacity() 0, else destroy_slots
\* and ClearBackingArray with reuse below capacity 128.
Clear ==
    /\ Running
    /\ IF t.capacity = 0 THEN UNCHANGED t
       ELSE t' = ClearBackingArray(DestroySlots(t), t.capacity < 128)
    /\ inserted' = {}
    /\ UNCHANGED <<lost, fault>>

(***************************************************************************)
(* reserve(n) (part_001 2354-2364): resize(n) when n > size() +           *)
(* growth_left(); reset_reserved_growth does nothing without generations. *)
(***************************************************************************)
Reserve(n) ==
    /\ Running
    /\ n > Wrap(t.size + t.growthLeft)
    /\ LET r == Resize(t, n)
       IN  /\ r.tab.pbc <= MaxBins
           /\ IF r.fault # "none" THEN Fail(r.fault)
              ELSE /\ t' = r.tab
                   /\ lost' = lost \cup r.lost
                   /\ UNCHANGED <<inserted, fault>>

(***************************************************************************)
(* ~raw_hash_set (part_001 1972-1982): with capacity() 0 it returns at    *)
(* once, and ~HashTableMemory (426-428) asserts memory_ is null when bins *)
(* are held; otherwise destroy_slots and the bins are freed.  Objects     *)
(* left in the slots are never destroyed.                                 *)
(***************************************************************************)
Destroy ==
    /\ Running
    /\ LET u == IF t.capacity = 0 THEN t ELSE DestroySlots(t)
       IN  IF t.capacity = 0 /\ t.pbc > 0 /\ Asserts
           THEN Fail("~HashTableMemory: memory_ != nullptr")
           ELSE /\ t' = [t EXCEPT !.alive = FALSE]
                /\ lost' = lost \cup ({u.slot[p] : p \in Pos} \ {NoKey})
                /\ UNCHANGED <<inserted, fault>>

(***************************************************************************)
(* raw_hash_set(raw_hash_set&& that) (part_001 1929-1937), on the table   *)
(* moved from: absl::exchange(that.common(), CommonFields{}) moves its    *)
(* CommonFields out (the CommonFields move constructor, 1116-1133, zeroes *)
(* size_, capacity_ and growth_left of the source) and assigns a fresh   *)
(* CommonFields{} to it.  hashtable_memory_ is not moved: the new table   *)
(* default-constructs its own, and the bins and the objects in them stay  *)
(* with the table moved from, which now reports itself empty.            *)
(***************************************************************************)
MovedFromCommon(s) == [s EXCEPT !.size = 0, !.capacity = 0, !.growthLeft = 0]

MoveFrom ==
    /\ Running
    /\ t' = MovedFromCommon(t)
    /\ inserted' = {}
    /\ UNCHANGED <<lost, fault>>

Next ==
    \/ \E k \in Keys : Insert(k)
    \/ \E n \in ReserveSizes : Reserve(n)
    \/ Clear
    \/ MoveFrom
    \/ Destroy

Spec == Init /\ [][Next]_vars
(***************************************************************************)
(* Operations on a table as its constructors leave it do not abort: the   *)
(* spec has find on a default-constructed table return end() and the      *)
(* first insert or reserve allocate the array.  About find_or_prepare_    *)
(* insert, find and resize_to_size reaching Bin on hashtable_memory_      *)
(* before anything allocates it.                                          *)
(***************************************************************************)
OperationsDoNotFault == fault = "none"

(***************************************************************************)
(* Round trip (spec section 8): while the table lives, every key an insert *)
(* reported and no later clear removed is found by find.  About  *)
(* prepare_insert leaving the target's control byte empty and nothing     *)
(* ever raising a bin's search distance above 0.                          *)
(***************************************************************************)
InsertedKeysFound ==
    Running => \A k \in inserted : Lookup(t, k).pos # NoPos

(***************************************************************************)
(* resize_to_size reads only bins that are still allocated: the loop over *)
(* the old bins must not call Deallocate before it has visited them all.  *)
(***************************************************************************)
ResizeReadsOnlyLiveBins == fault # "resize_to_size: read of freed bins"

(***************************************************************************)
(* Every object an insert constructs is destroyed by clear or the         *)
(* destructor, or moved by a resize: none is overwritten or abandoned.    *)
(* About emplace_at constructing over an object and resize_to_size and    *)
(* the destructor leaving objects behind in bins they give up.            *)
(***************************************************************************)
NoObjectAbandoned == lost = {}
=============================================================================
