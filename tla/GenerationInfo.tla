--------------------------- MODULE GenerationInfo ---------------------------
(***************************************************************************)
(* The counters of CommonFields and the generation / reserved-growth      *)
(* protocol of sanitizer builds (ABSL_SWISSTABLE_ENABLE_GENERATIONS), as   *)
(* raw_hash_set's operations drive them:                                   *)
(*                                                                         *)
(*   size_, capacity_, growth_left     CommonFields (part_001 1107-1170)   *)
(*   reserved_growth_, *generation_    CommonFieldsGenerationInfoEnabled   *)
(*                                     (part_001 972-1031)                 *)
(*   the generation an iterator copied HashSetIteratorGenerationInfo       *)
(*                                     (part_001 1054-1069)                *)
(*                                                                         *)
(* Operations: insert of a new key (prepare_insert with the resize and    *)
(* InitializeSlots it may call), reserve, clear                            *)
(* (ClearBackingArray) and taking an iterator.  The bins themselves are    *)
(* modelled in GraveyardTable; here only what these counters see.  size_t *)
(* is WordBits wide and GenerationType GenBits wide.                       *)
(*                                                                         *)
(* generation_ points into the swiss backing array InitializeSlots         *)
(* allocates, or at EmptyGeneration() (a zero) before the first one and    *)
(* after a clear that deallocates.  InitializeSlots never frees the array  *)
(* it replaces, so an old array keeps the generation it had; the one      *)
(* iterator followed here records whether its generation_ptr_ is the      *)
(* table's current array, and otherwise the value frozen in its array and *)
(* whether that array was freed (which ASan reports on use).               *)
(***************************************************************************)
EXTENDS GraveyardHash

CONSTANTS
    GenBits,            \* width of GenerationType (uint8_t: 8)
    RehashProbability,  \* RehashProbabilityConstant() (16)
    ClearReuseBelow,    \* clear() reuses the array when capacity < this (128)
    MaxSize,            \* bound on size_
    ReserveSizes,       \* arguments tried for reserve(n)
    BucketCounts        \* bucket_count arguments of the constructor

kReservedGrowthJustRanOut == WordSize - 1   \* numeric_limits<size_t>::max()
SentinelEmptyGeneration == 0
GenSize == 2^GenBits

\* Arithmetic in size_t.
Wrap(x) == x % WordSize

VARIABLES
    size,           \* size_
    capacity,       \* capacity_
    growthLeft,     \* growth_left()
    reserved,       \* reserved_growth_
    generation,     \* *generation_
    genIsEmpty,     \* generation_ == EmptyGeneration()
    it,             \* the iterator the user holds (see NoIterator)
    covered,        \* ghost: inserts still guaranteed by the last reserve
    lastMoved,      \* ghost: the last step moved to a new backing array
    ranOut          \* ghost: the last insert used up the last reserve

vars == <<size, capacity, growthLeft, reserved, generation, genIsEmpty, it,
          covered, lastMoved, ranOut>>

(***************************************************************************)
(* An iterator: taken, its copied generation_ (gen), whether its          *)
(* generation_ptr_ is the table's current array (current), else the value *)
(* left in its old array (held) and whether that array was freed; stale   *)
(* (ghost) says the table has since done something that invalidates it.  *)
(***************************************************************************)
NoIterator == [taken |-> FALSE, gen |-> 0, current |-> FALSE, held |-> 0,
               freed |-> FALSE, stale |-> FALSE]

TypeOK ==
    /\ size \in 0 .. MaxSize
    /\ capacity \in SizeT /\ growthLeft \in SizeT /\ reserved \in SizeT
    /\ generation \in 0 .. (GenSize - 1)
    /\ genIsEmpty \in BOOLEAN
    /\ it.taken \in BOOLEAN /\ it.gen \in 0 .. (GenSize - 1)
    /\ it.held \in 0 .. (GenSize - 1)
    /\ covered \in 0 .. MaxSize /\ lastMoved \in BOOLEAN /\ ranOut \in BOOLEAN

\* part_001 289-291: increment the uint8_t, and again if it became 0.
NextGeneration(g) ==
    LET n == (g + 1) % GenSize
    IN  IF n = SentinelEmptyGeneration THEN (n + 1) % GenSize ELSE n

\* raw_hash_set.cc 47-61: a thread-local counter XORed with its own
\* address, so any size_t value may come out of RandomSeed().
RandomSeed == SizeT

\* raw_hash_set.cc 65-73: a pointer to one of 1024 zero-initialised
\* generations, picked by RandomSeed(); each reads the sentinel 0.
EmptyGeneration == SentinelEmptyGeneration

\* should_rehash_for_bug_detection_on_insert without its first test.
ShouldRehashNoJustRanOut(r, cap) ==
    IF r > 0 THEN {FALSE}
    ELSE {H1(seed, cap) < RehashProbability : seed \in RandomSeed}

(***************************************************************************)
(* raw_hash_set.cc 76-88: the outcomes of                                   *)
(* should_rehash_for_bug_detection_on_insert, for every RandomSeed().     *)
(***************************************************************************)
ShouldRehashForBugDetection(r, cap) ==
    IF r = kReservedGrowthJustRanOut THEN {TRUE}
    ELSE IF r > 0 THEN {FALSE}
    ELSE {H1(seed, cap) < RehashProbability : seed \in RandomSeed}

(***************************************************************************)
(* part_001 996-1003 maybe_increment_generation_on_insert: the new         *)
(* reserved_growth_ and *generation_.                                      *)
(***************************************************************************)
\* maybe_increment_generation_on_insert bumping whatever the reservation.
MaybeIncrementAlways(r, g) ==
    LET r0 == IF r = kReservedGrowthJustRanOut THEN 0 ELSE r
    IN  [reserved |-> IF r0 > 0 THEN r0 - 1 ELSE r0,
         generation |-> NextGeneration(g)]

MaybeIncrementGenerationOnInsert(r, g) ==
    LET r0 == IF r = kReservedGrowthJustRanOut THEN 0 ELSE r
    IN  IF r0 > 0
        THEN [reserved |-> IF r0 - 1 = 0 THEN kReservedGrowthJustRanOut
                           ELSE r0 - 1,
              generation |-> g]
        ELSE [reserved |-> r0, generation |-> NextGeneration(g)]

\* part_001 1005-1007 reset_reserved_growth: reservation - size in size_t.
ResetReservedGrowth(n, sz) == Wrap(n - sz)

(***************************************************************************)
(* The capacity after resize(c): part_001 2622-2627 and resize_to_size     *)
(* 2590-2595, with capacity_ the allocated bins times kSlotsPerBin.        *)
(***************************************************************************)
ResizeCapacity(c) == ResizeBins(c) * SlotsPerBin

(***************************************************************************)
(* The iterator once the table has moved to a new backing array: an      *)
(* iterator into the old array keeps the generation g left there.         *)
(***************************************************************************)
LeaveArray(i, g) ==
    IF i.taken /\ i.current THEN [i EXCEPT !.current = FALSE, !.held = g]
    ELSE i

\* The iterator after an operation that invalidates iterators.
Invalidate(i) == IF i.taken THEN [i EXCEPT !.stale = TRUE] ELSE i

(***************************************************************************)
(* part_001 1806-1815 raw_hash_set(bucket_count): CommonFields{} is value- *)
(* initialised; a nonzero bucket_count becomes capacity_ unnormalised and *)
(* initialize_slots runs InitializeSlots (1433-1462), reading the zero of *)
(* EmptyGeneration() (raw_hash_set.cc 65-73) and resetting growth_left.   *)
(***************************************************************************)
Init ==
    /\ \E b \in BucketCounts :
         /\ capacity = b /\ growthLeft = b
         /\ generation = IF b = 0 THEN EmptyGeneration
                         ELSE NextGeneration(EmptyGeneration)
         /\ genIsEmpty = (b = 0)
    /\ size = 0 /\ reserved = 0
    /\ it = NoIterator /\ covered = 0 /\ lastMoved = FALSE /\ ranOut = FALSE

(***************************************************************************)
(* part_001 2700-2722 prepare_insert, for a key find_or_prepare_insert did *)
(* not find.  A bug-detection rehash resizes to capacity() (or            *)
(* SizeAfterRehash(size_) when growth_left() is 0); otherwise a           *)
(* growth_left() of 0 resizes to SizeAfterRehash(size_).  A resize runs   *)
(* resize_to_size (2590-2627), whose initialize_slots is InitializeSlots  *)
(* (1433-1462): a new swiss array whose generation is NextGeneration of   *)
(* the old one, and ResetGrowthLeft (1357-1359); the old array is never   *)
(* freed.  Then ++size_, growth_left() -= 1 (the slot find_first_empty    *)
(* returns is empty) and maybe_increment_generation_on_insert.  An insert *)
(* not covered by a reservation invalidates iterators.                     *)
(***************************************************************************)
Insert ==
    /\ size < MaxSize
    /\ \E rehashForBugDetection \in ShouldRehashForBugDetection(reserved, capacity) :
        LET moved == rehashForBugDetection \/ growthLeft = 0
            c == IF rehashForBugDetection /\ growthLeft > 0 THEN capacity
                 ELSE SizeAfterRehash(size)
            cap1 == IF moved THEN ResizeCapacity(c) ELSE capacity
            gl1 == IF moved THEN Wrap(cap1 - size) ELSE growthLeft
            gen1 == IF moved THEN NextGeneration(generation) ELSE generation
            m == MaybeIncrementGenerationOnInsert(reserved, gen1)
            i1 == IF moved THEN LeaveArray(it, generation) ELSE it
        IN  /\ size' = size + 1
            /\ capacity' = cap1
            /\ growthLeft' = Wrap(gl1 - 1)
            /\ reserved' = m.reserved
            /\ generation' = m.generation
            /\ genIsEmpty' = (genIsEmpty /\ ~moved)
            /\ it' = IF covered = 0 THEN Invalidate(i1) ELSE i1
            /\ covered' = IF covered > 0 THEN covered - 1 ELSE 0
            /\ ranOut' = (covered = 1)
            /\ lastMoved' = moved

(***************************************************************************)
(* part_001 2354-2364 reserve(n): resize(n) when n > size() +             *)
(* growth_left() (a size_t sum), then reset_reserved_growth(n), which is  *)
(* n - size_ in size_t (1148-1150, 1005-1007).  The reservation promises  *)
(* n - size() inserts without rehash; a resize invalidates iterators.     *)
(***************************************************************************)
Reserve(n) ==
    LET moved == n > Wrap(size + growthLeft)
        cap1 == IF moved THEN ResizeCapacity(n) ELSE capacity
    IN  /\ capacity' = cap1
        /\ growthLeft' = IF moved THEN Wrap(cap1 - size) ELSE growthLeft
        /\ generation' = IF moved THEN NextGeneration(generation) ELSE generation
        /\ genIsEmpty' = (genIsEmpty /\ ~moved)
        /\ reserved' = ResetReservedGrowth(n, size)
        /\ it' = IF moved THEN Invalidate(LeaveArray(it, generation)) ELSE it
        /\ covered' = IF n > size THEN n - size ELSE 0
        /\ lastMoved' = moved
        /\ ranOut' = FALSE
        /\ UNCHANGED size

(***************************************************************************)
(* part_001 2009-2026 clear() with raw_hash_set.cc 153-171                 *)
(* ClearBackingArray: for a nonzero capacity, size_ = 0 and either reuse   *)
(* the array (cap < 128: ResetCtrl resets growth_left, the generation is  *)
(* kept) or free it and point generation_ at EmptyGeneration(); then      *)
(* reserved_growth_ = 0.  Iterators into a reused array are not           *)
(* invalidated by the generation (the following insert bumps it).         *)
(***************************************************************************)
Clear ==
    /\ IF capacity = 0
       THEN UNCHANGED <<size, capacity, growthLeft, generation, genIsEmpty, it>>
       ELSE /\ size' = 0
            /\ IF capacity < ClearReuseBelow
               THEN /\ growthLeft' = capacity
                    /\ UNCHANGED <<capacity, generation, genIsEmpty, it>>
               ELSE /\ capacity' = 0 /\ growthLeft' = 0
                    /\ generation' = EmptyGeneration
                    /\ genIsEmpty' = TRUE
                    /\ it' = IF it.current
                             THEN Invalidate([it EXCEPT !.current = FALSE,
                                                        !.freed = TRUE])
                             ELSE it
    /\ reserved' = 0
    /\ covered' = 0
    /\ ranOut' = FALSE
    /\ lastMoved' = FALSE

(***************************************************************************)
(* find or begin returns iterator_at(...) (part_001 2742-2744), whose     *)
(* HashSetIteratorGenerationInfo copies generation_ptr_ and *generation_  *)
(* (1057-1059).                                                            *)
(***************************************************************************)
TakeIterator ==
    /\ size > 0
    /\ it' = [taken |-> TRUE, gen |-> generation, current |-> TRUE,
              held |-> 0, freed |-> FALSE, stale |-> FALSE]
    /\ lastMoved' = FALSE
    /\ UNCHANGED <<size, capacity, growthLeft, reserved, generation,
                   genIsEmpty, covered, ranOut>>

Next ==
    \/ Insert
    \/ \E n \in ReserveSizes : Reserve(n)
    \/ Clear
    \/ TakeIterator

Spec == Init /\ [][Next]_vars

(***************************************************************************)
(* The generation check of iterator::AssertIsFull (part_001 1694-1700):   *)
(* it fails when the copied generation_ differs from *generation_ptr_,    *)
(* and ASan reports the read when that array was freed.  AssertIsFull's  *)
(* other checks (default-constructed, end(), and IsEmpty of the bin's     *)
(* control byte at 1701-1706) look at the bins, which GraveyardTable      *)
(* models, not at these counters.                                         *)
(***************************************************************************)
GenerationCheckFails(i) ==
    \/ i.freed
    \/ i.gen # (IF i.current THEN generation ELSE i.held)

(***************************************************************************)
(* No false alarm: an iterator the table has not invalidated passes the  *)
(* generation check, through any sequence of reserves, inserts within     *)
(* the reservation and clears that reuse the array.  About              *)
(* maybe_increment_generation_on_insert leaving the generation alone      *)
(* while reserved_growth_ > 0 (part_001 996-1003), the only inserts that *)
(* keep iterators valid.                                                  *)
(***************************************************************************)
ValidIteratorPassesGenerationCheck ==
    it.taken /\ ~it.stale => ~GenerationCheckFails(it)

(***************************************************************************)
(* After reserve(n) the table takes n - size() inserts without a rehash    *)
(* for bug detection, and the insert that follows the last of them        *)
(* rehashes (the reserved_growth_ state machine N, ..., 1,                *)
(* kReservedGrowthJustRanOut, 0 of part_001 972-1003 and                   *)
(* should_rehash_for_bug_detection_on_insert), so a reference kept past   *)
(* the reservation is caught.                                               *)
(***************************************************************************)
RehashWhenReservationRunsOut ==
    [][ranOut /\ Insert => lastMoved']_vars

(***************************************************************************)
(* An iterator that an insert or a rehash invalidated, into an array the  *)
(* table has left, fails the generation check when used (spec: "any       *)
(* mutation between iterator creation and use causes a fatal signal";    *)
(* the generation check is the one meant to catch a rehash).              *)
(***************************************************************************)
MovedIteratorFailsGenerationCheck ==
    it.stale /\ ~it.current => GenerationCheckFails(it)

(***************************************************************************)
(* An iterator into the current array that an insert invalidated fails   *)
(* the generation check when used: the insert bumped the generation.      *)
(***************************************************************************)
StaleIteratorFailsGenerationCheck ==
    it.stale /\ it.current => GenerationCheckFails(it)

(***************************************************************************)
(* reserve(n) avoids rehashing: the n - size() inserts it promises do not *)
(* move the table to a new array (spec scenario 5: "no intermediate        *)
(* rehash occurs").                                                        *)
(***************************************************************************)
NoRehashWithinReservation ==
    [][covered > 0 /\ Insert => ~lastMoved']_vars
=============================================================================
