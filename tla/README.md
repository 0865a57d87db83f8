# TLA+ models of the graveyard-hashing raw_hash_set

This directory holds TLA+ models of the graveyard-hashing hash table in this
repository, the TLC configurations that check them, and `PROJECT.json`. That
file lists the components, the runs, the mutants that show each property is
sensitive to the code, the map from every definition to the source lines it
models, the findings, and the hazards.

## The system

The implementation is a hash set in progress. Graveyard hashing is linear
probing without tombstones, and it is built on abseil's swiss-table
`raw_hash_set`. The sources are:

| source | what it holds |
|---|---|
| `src/unnamed/part_001` (`graveyard/.../raw_hash_set.h`) | the graveyard table: `H1`/`H2`, `ctrl_t`, `search_distance_t`, `HashTableMemory` (the bin array), `CommonFields` with the generation and reserved-growth info, `BinCountForLoad`, `InitializeSlots`, and `raw_hash_set` with its iterator, `find`, `find_or_prepare_insert`, `prepare_insert`, `resize`, `erase`, `clear`, `reserve` and `rehash` |
| `src/graveyard/container/internal/raw_hash_set.cc` | `EmptyGeneration`, `should_rehash_for_bug_detection_on_insert`, `EraseMetaOnly`, `ClearBackingArray` |
| `src/absl/container/internal/bit_mask.h` | `BitMask` / `NonIterableBitMask`: bit-set iteration over group match results |
| `src/absl/container/internal/quadratic_probing.h` | an earlier version of the same header, still on swiss-table probing, mostly stubbed |
| `src/unnamed/part_002` | `raw_traits.h`: compile-time key-decomposition traits |
| `src/unnamed/part_000`, `bit_mask_test.cc` | tests |

### Components, their state and operations

1. **Hash splitting and sizing** (pure).
   - `H1(hash, L)` is the high word of `hash*L` (Lemire reduction). It gives a bin number that is monotone in the hash.
   - `H2(hash) = hash % 127` is the 7-bit tag.
   - `Ceil` and `BinCountForLoad<14,7,8>` compute the bins needed for a size.
   - `SizeAfterRehash`, and `resize(c)` → `resize_to_size(Ceil(c*7,8))`, compute the sizes a growth asks for.
2. **Control encoding.**
   - `ctrl_t` is `{is_disordered:1, h2:7}`; h2 127 means empty.
   - `search_distance_t` is `{is_end:1, search_distance:15}`.
3. **`HashTableMemory`**, the bin array.
   - State: `physical_bin_count_`, `logical_bin_count_` and `memory_`.
   - Each bin lays out 14 control bytes, a `search_distance_t` and 14 slots.
   - Operations:
     - the default and explicit constructors;
     - move construction and move assignment;
     - `AllocateMemory` (uninitialised `aligned_alloc`);
     - `Deallocate`;
     - the destructor, which asserts that nothing is owned;
     - `find_first_empty`, a linear scan from `H1` with no wrap-around.
4. **Generation info** (`CommonFieldsGenerationInfoEnabled`, iterator generation info, `NextGeneration`, `EmptyGeneration`, `should_rehash_for_bug_detection_on_insert`).
   - State: `reserved_growth_` (N…1, `kReservedGrowthJustRanOut`, 0) and the generation counter reached through `generation_`.
   - The generation is a `uint8_t`, and 0 is the sentinel of an empty table.
   - Iterators copy the pointer and the value, and detect invalidation by comparing them.
5. **`CommonFields` counters and the swiss backing-array helpers.**
   - State: `size_`, `capacity_`, `growth_left`.
   - Operations: `ResetGrowthLeft`, `ResetCtrl`, `InitializeSlots`, `ClearBackingArray` and `EraseMetaOnly` (whose only caller, `erase`, does not compile).
6. **`raw_hash_set` operations.**
   - Lookup: `find`, `has_element`, `find_or_prepare_insert`.
   - Insertion: `prepare_insert`, `emplace_at`.
   - Growth: `resize`, `resize_to_size`, `reserve`, `rehash`.
   - Removal: `erase` (which does not compile once instantiated), `clear`.
   - The iterator's `operator++`.
   - The destructor.
7. **`BitMask`** and the portable `Group`.
   - `BitMask` walks the set bits with `mask &= mask-1` and offers `LowestBitSet`, `HighestBitSet`, `TrailingZeros` and `LeadingZeros`, each shifted by `Shift`.
   - The portable `Group`'s byte-parallel `Match` and `MaskEmpty`.

These components interact as follows:
- `raw_hash_set` owns one `HashTableMemory`, and also the swiss `control_`/`slots_` arrays of `CommonFields`, which `InitializeSlots` allocates.
- `prepare_insert` drives the generation machinery (`should_rehash…`, then `maybe_increment_generation_on_insert`) and calls `resize`.
- `resize_to_size` moves the memory into a local, allocates new bins and reinserts every full slot with `find_first_empty`.
- `erase` would go to `EraseMetaOnly`, which reads the swiss `control_` array through `Group::MaskEmpty`; but `erase(iterator)` names the iterator's `ctrl_` and `slot_`, so no `erase` compiles.

### State of the code

The header is a draft, and several of its lines do not compile:
- `GetLogicalBinCount` is used without parentheses;
- `find_first_non_full` and `target.bin_number` do not exist;
- `should_rehash_for_bug_detection_on_insert()` is called without its arguments;
- the iterator uses `ctrl_` and `GetIsEnd`, and `erase(iterator)` uses the iterator's `ctrl_` and `slot_`, which it lacks.

Where a line does not compile, the models take its evident meaning: `hashtable_memory_.find_first_empty`, and a call `GetLogicalBinCount()` (see "The reading of line 2595" below). Every line that does compile is modelled as written, even where that is plainly unfinished. The notable cases:
- `logical_bin_count_` is never assigned, so it stays 0;
- `prepare_insert` discards the `ctrl_t` that `MakeDisordered` returns;
- `ctrl_t::H2()` returns `bool`;
- no code sets a search distance;
- `EraseMetaOnly`'s `SetCtrl` is under `#if 0`.

The program is single-threaded. Nothing is persisted and there are no messages. The hard behaviours are therefore long sequences of legal calls:
- boundary arithmetic in `size_t` and `uint8_t`;
- ownership of memory across moves;
- reads of uninitialised memory;
- the reserved-growth and generation protocol that decides whether a stale iterator is caught.

## Modules

| module | models | source |
|---|---|---|
| `GraveyardHash` | `H1`, `H2`, `Ceil`, `BinCountForLoad`, `SizeAfterRehash`, the `resize` argument | part_001 |
| `SwissCapacity` | `quadratic_probing.h` sizing: `IsValidCapacity`, `NextCapacity`, `NormalizeCapacity`, `CapacityToGrowth`, `GrowthToLowerboundCapacity`, `probe_seq`, and the `CommonFields::Capacity` encoding; raw_hash_set.cc's `ConvertDeletedToEmptyAndFullToDeleted` over a control array of bytes, with part_001's group conversion | qp 403-422, 961-988, 1014-1072; raw_hash_set.cc 97-108 |
| `BinLayout` | the offsets of a bin (`ControlOf`, `SearchDistanceOf`, `SlotOf`, `kBinSize`, `AllocAlignment`, `SizeOf`) and of the swiss array of `InitializeSlots` (`GenerationOffset`, `SlotOffset`, `AllocSize`) in both files; qp's `BucketPointer` bucket layout (`GetSlot`, `GetCtrl`, `operator++`, `operator+`) and its header (`SearchDistance`, `SetSearchDistance`, `SetNotLastAndSearchDistanceToZero`, `IsLast`); raw_hash_set.cc's `SlotAddress`, `NextSlot`, `PrevSlot` | part_001, qp 487-584, 1003-1221, raw_hash_set.cc 110-127 |
| `HashTableMemory` | who owns which heap block: constructors, move construction and assignment, `std::swap`, `AllocateMemory`, `Deallocate`, `Bin`, the destructor | part_001 396-586 |
| `GenerationInfo` | `size_`, `capacity_`, `growth_left`, `reserved_growth_`, the generation and one iterator, driven by insert, reserve, clear and taking an iterator | part_001, raw_hash_set.cc |
| `GraveyardTable` | one table over its bins: insert, clear, reserve (with `resize_to_size`) and the destructor | part_001, raw_hash_set.cc |
| `GroupBits` | the `Group` implementations, `BitMask`, and a range-for over a `Match` mask as a state machine | qp 586-785, part_001 731-953, bit_mask.h |
| `LaneSetIteration` | the abstract promise of that range-for: each lane once, lowest first | (specification) |

The pure modules are checked by `MCGraveyardHash`. There, a state is one
input, and `Next` moves to another input. A state is either a hash, a bin
count and a size (for `GraveyardHash` and `SwissCapacity`), or a slot type
and a bin count (for `BinLayout`, taken with `INSTANCE ... WITH` over a wider
`size_t`); the layout properties hold vacuously in the first kind of state. `MCGraveyardTable` supplies the hash function, and
`MCHashTableMemory` supplies the model values and the symmetry set.

### How the state machines follow the code

- **`HashTableMemory`.**
  - Objects are model values. `life`, `memory` and `pbc` are the members of each object; `heap` and `blockBins` describe the heap blocks.
  - Each constructor, move, swap, `Deallocate` and destructor is one action, with the guards of its asserts.
  - A failed assert sets `fault` and ends the behaviour. The run therefore says `CHECK_DEADLOCK FALSE`.
  - There is no other stop: every object can be destroyed, and after that nothing is left to do.
- **`GenerationInfo`.**
  - `Insert` is all of `prepare_insert`:
    - `should_rehash_for_bug_detection_on_insert` is a choice over the outcomes its pseudo-random test can give;
    - the resize and `InitializeSlots` it may run, with a new generation;
    - `++size_`, `growth_left() -= 1`;
    - `maybe_increment_generation_on_insert`.
  - `Reserve`, `Clear` (`ClearBackingArray`) and `TakeIterator` are the other actions. There is no erase (see "What is not modelled").
  - `it` records whether the iterator's `generation_ptr_` is the current array or an abandoned one, and the generation value it would compare.
  - `GenerationCheckFails` is the generation comparison of `AssertIsFull` (1694-1700) and ASan's report of a freed array. `AssertIsFull`'s `IsEmpty` test of the bin's control byte (1701-1706) belongs to the bins, which `GraveyardTable` models; it is not part of what the generation runs state.
- **`GraveyardTable`.**
  - The table is the record `t`:
    - the physical bin count;
    - a control byte per slot;
    - the `search_distance_t` of each bin (the `is_end` bit and the distance);
    - the object in each slot;
    - `size_`, `capacity_`, `growth_left`;
    - whether the object is alive.
  - `Insert(k)` is the whole of `insert` → `emplace` → `EmplaceDecomposable` → `find_or_prepare_insert` → `prepare_insert` (with `resize`) → `emplace_at`. The helpers pass their intermediate results as arguments, so each step of the chain is one operator with its own source lines.
  - `Clear`, `Reserve(n)` and `Destroy` follow their functions to the end, `ClearBackingArray` and `InitializeSlots` included.
  - `MoveFrom` is the move constructor as it leaves the source table. `CommonFields` moves out and is reset to `CommonFields{}`, but `hashtable_memory_` does not move. The source therefore reports itself empty while it keeps its bins and their objects.
  - Memory errors and failed asserts go to `fault`. With `Asserts = FALSE` (a release build), an assert that is compiled out is no fault, and execution continues to what the build does next: a null dereference, a read of freed bins, or a leak.
  - The ghost variables are `inserted`, the keys an insert reported present, and `lost`, the objects overwritten or abandoned without destruction.
- **`GroupBits`.**
  - A state is a group of `Width` control values, a lookup H2, the `Group` implementation in use, the `BitMask` iterator `mask` of that group's `Match`, and `yielded`, the lanes the loop body has seen.
  - `Lookup` begins a range-for over `Match(h2)`, as `GetNumProbes` (part_001 2866-2868) and the find loops do. It takes a new H2 but not a new group: `Group g{pos}` copies the bytes into its word, so they cannot change under the loop, and `Init` takes every group. `Lookup` is enabled at any time, because a loop may return on a hit.
  - `Step` is one turn of the loop: `it != end()`, the body reads `*it`, then `++it` (bit_mask.h 85-101).
  - `LaneSetIterationRefined` maps `mask` to the lanes still to come (`MaskLanes`: the top bit of each byte for the portable and NEON masks with `Shift` 3, one bit per lane for SSE2's `movemask`) and `yielded` to the abstract `out`. It then checks `LaneSetIteration`'s specification, fairness included.
  - The portable group works on the whole little-endian word, with its borrows and carries. SSE2, SSSE3 and NEON compare lane by lane with the intrinsics' signed or unsigned semantics.
  - `Layout` chooses the byte encoding: `"byte"` for qp's `uint8_t ctrl_t`, `"bitfield"` for part_001's `{is_disordered:1, h2:7}`.

### The reading of line 2595

`resize_to_size` sets `capacity_ = hashtable_memory_.GetLogicalBinCount * kSlotsPerBin`. The two modules read this line differently:
- `GraveyardTable` takes it as the call, which returns the unassigned `logical_bin_count_`, so `capacity_` is 0. `InitializeSlots` then asserts `c.capacity_`, and in release `growth_left` wraps in `size_t`.
- `GenerationInfo` asks about the generation protocol on its own. It takes `capacity_` as the bins `resize` allocates times `kSlotsPerBin`, the evident intent of the line. A capacity of 0 would end every run at the first resize and hide the protocol.

## Runs

The project has 12 runs: 4 pass and 8 are violations. `PROJECT.json` lists
the mutants: each one changes a mapped definition the way a plausible bug
would, and TLC finds the run's property violated under that run's own cfg.

| run | module / cfg | result | what it shows |
|---|---|---|---|
| `hash_arith` | `MCGraveyardHash.cfg` | pass | sizing: `H1` keeps hash order inside the table; `BinCountForLoad` gives the fewest bins that hold a size at 7/8; qp's `GrowthToLowerboundCapacity`, `NormalizeCapacity` and `CapacityToGrowth` give a valid, minimal capacity that holds the size, and round-trip; `probe_seq` visits every bucket; `CommonFields::Capacity` reads back every capacity its asserts accept, and `bucket_count()` is the number of buckets needed (0 for capacity 0). Layout: every field of a bin is aligned; the accessors address exactly the fields of an array of `{ctrl[14]; search_distance; slots[14]}` structs, as the part_000 layout tests expect; the swiss array of both files (qp with `kWidth - 1` cloned bytes) keeps the control bytes, the generation and the aligned slots apart; qp's `BucketPointer` tiles its bucket array with header and control bytes and slots that are aligned exactly when `alignof` divides the 16 bytes before them (so not at 32), a bucket's header and control bytes fit `kEmptyData`, and `SetSearchDistance` keeps the distance and the last-bucket bit apart, so `operator++` steps bucket by bucket and stops after the last; raw_hash_set.cc's `SlotAddress` from `SlotOffset` puts each slot of every valid capacity aligned and inside `AllocSize`, with `NextSlot` and `PrevSlot` stepping between neighbours; `ConvertDeletedToEmptyAndFullToDeleted` rewrites each control byte below the capacity exactly once, to the byte part_001's group conversion gives (`0x80` for a top-bit byte, `0xFE` otherwise) |
| `growth_capacity_law` | `MCGraveyardHash_growth.cfg` | violation | the growth resize asks for `SizeAfterRehash(14) = 7`, and the table after growth is as full as before |
| `memory_ownership` | `MCHashTableMemory.cfg` | pass | no block has two owners or is freed under its owner; `physical_bin_count_` matches the owned block |
| `generation_protocol` | `GenerationInfo.cfg` | pass | an iterator nothing invalidated always passes the generation check (inserts within a reservation leave the generation alone); the insert after a used-up reservation always moves the table |
| `reserve_shortfall` | `GenerationInfo_ReserveHonoured.cfg` | violation | `reserve(15)` at size 9 resizes to one bin of 14 slots, so the sixth of the six inserts it promised rehashes |
| `moved_iterator_undetected` | `GenerationInfo_MovedIterator.cfg` | violation | an iterator into an array left behind by a rehash passes the generation comparison of `AssertIsFull`, because the old array is never freed and keeps its generation. In this code the later `IsEmpty` test still fires, only because `prepare_insert` never marks a byte full |
| `stale_iterator_after_short_reserve` | `GenerationInfo_StaleIterator.cfg` | violation | `reserve(n)` with `n < size()` wraps `reserved_growth_`; inserts stop bumping the generation, so an invalidated iterator passes the generation comparison (the `IsEmpty` test still fires, for the same reason as above) |
| `table_constructed` | `MCGraveyardTable_Constructed.cfg` | violation | the first insert or reserve on a constructed table calls `Bin` with no bins |
| `table_round_trip` | `MCGraveyardTable_RoundTrip.cfg` | violation | a key is not found right after its insert: the control byte is discarded and no search distance is raised |
| `table_resize_use_after_free` | `MCGraveyardTable_ResizeFreed.cfg` | violation | a resize from more than one bin (the trace grows to three, then resizes again) frees the old bins after the first and then reads the second |
| `group_bits` | `MCGroupBits.cfg` | pass | with qp's byte encoding, the portable, SSE2 and NEON groups agree lane by lane with the control values; `Match`'s false positives are only the documented borrow cases; `BitMask` iterates lanes in order; the range-for over each implementation's `Match` implements `LaneSetIteration` under weak fairness, so a loop that is not left early reaches `end()` |
| `group_bits_bitfield` | `MCGroupBits_Bitfield.cfg` | violation | with part_001's bit-field `ctrl_t`, no group reports an empty byte (`0xFE`) as empty |

The `findings` section of `PROJECT.json` explains each violation against the
spec and the source line.

### Bounds, and why they are enough

- **`MCGraveyardHash`.**
  - `size_t` is 7 bits.
  - There are up to 6 bins, and sizes run up to 40, so `BinCountForLoad` has cases of more than one bin.
  - The qp checks cover every size up to 40 and both group widths. Width 8 is in the cfg; width 16 also passes.
  - For the layout states:
    - Every slot size from 1 to 32, with every alignment from 1 to 16 that divides it.
    - 1 to 6 bins, in a 12-bit `size_t` (`LayoutWordBits`).
    - This covers slots smaller than, equal to and larger than the 14-byte control block, and the switch to cache-line alignment above 4 bins.
    - The header values sampled are 0, 1, `2^15 - 1`, `2^15`, `2^15 + 1` and `2^16 - 1` (every combination of an empty, low and full distance field with bit 15 clear and set), with distances 0, 1, `2^14` and `2^15 - 1`.
    - The swiss-array slots are checked for every valid capacity up to 6 bins of 14 slots (1 to 63), with and without a generation byte.
  - `ConvertDeletedToEmptyAndFullToDeleted` runs on the normalised capacity of each size up to 40 (1 to 63), so with groups of 8 it covers capacities inside one group, one exactly filling a group, and several groups. Each array holds one byte below the capacity: `0xFE` (empty), `0x00` (full, h2 0: converted twice it would end `0x80`, not `0xFE`) and `0x81` (full, disordered, h2 64).
  - The run has 37,108 states and takes about a minute.
  - Slot alignments run up to 32, the first at which qp's `BucketPointer` misaligns its slots; `BucketLayoutSound` states that boundary.
- **`MCHashTableMemory`.**
  - 3 objects, 3 blocks, and bin counts 1 and 2, with objects and blocks symmetric.
  - Three objects are the fewest that let a move, a swap and a third owner all meet the same block.
- **`GenerationInfo`.**
  - `size_t` has 5 bits and the generation has 2.
  - `MaxSize` is 15, which is one bin and one more element.
  - Reserve sizes are {1, 15, 17}.
  - With these bounds:
    - the generation wraps within a run;
    - a reservation both runs out and is cut short;
    - `reserve(1)` at size 3 wraps `reserved_growth_`.
- **`MCGraveyardTable`.**
  - 2 keys and 2 slots per bin (the layout does not depend on 14).
  - Up to 4 bins and sizes up to 3.
  - Reserve sizes {1, 5, 7}, so a reserve can grow the table past one bin and then past two.
  - An 8-bit `size_t`.
- **`GroupBits`.**
  - A group has 3 lanes: enough for a borrow to cross one lane into the next, and for a match to sit below and above another lane.
  - The H2 values are {0, 1, 18, 19}, which includes adjacent values whose borrows interact.
  - With 3 lanes, a `Match` mask has up to 3 bits, so a loop takes up to 3 turns. That is enough to show a lowest lane being cleared while higher ones remain, for both the `Shift` 3 and `Shift` 0 masks. The run has 5,940 states.

### Fairness and liveness

- Only `GroupBits` assumes fairness: `WF_vars(Step)`.
  - A thread inside a range-for over a `BitMask` always takes its next turn. The loop waits on nothing, and the only other way out is a `return`, which `Lookup` models.
  - `LaneSetIteration` asks for `WF(Yield)`. Under the refinement mapping, `Yield` is enabled exactly when `Step` is, namely when `mask # 0`. The refinement therefore also checks that a loop that is not left early reaches `end()`.
  - The run checks no symmetry, so the liveness check is sound.
- Everything else is safety:
  - The table is a passive data structure called by one thread. Nothing else in the code must happen eventually.
  - `RehashWhenReservationRunsOut` is an action property (`[][...]_vars`).

### Results checked by hand, without a kept run

Each of these was run with a temporary cfg over the same modules. The hazards in `PROJECT.json` refer to them.

- **`EveryAllocatedBlockOwned`** (`HashTableMemory`) is violated in 3 steps:
  1. construct an object with one bin;
  2. destroy it;
  3. `~HashTableMemory` asserts `memory_ == nullptr` (part_001 427).

  The part_000 tests let objects that own bins go out of scope. A debug build aborts, and a release build leaks.
- **The `aligned_alloc` request** (part_001 460): `BinLayout` computes the size and alignment `AllocateMemory` passes. The invariant `SizeOf(bins, sz, al) % AllocAlignment(bins, al) = 0` over `MCGraveyardHash`'s slot types is violated in the initial state `bins = 5`, `slotType = <<1, 1>>`.
  - For 1-byte slots, `kBinSize` is 30.
  - Five bins request 150 bytes at 64-byte alignment. That size is not a multiple of the alignment, which C11 requires.
- **`CommonFields::Capacity` with a normalized capacity** (qp 961-988). `NormalizeCapacity` yields `2^m - 1`, and the constructor asserts a multiple of 14 above 14.
  - Evaluating the operators: `FromEncodedCapacity(ToEncodedCapacity(15)) = 14` and `ToEncodedCapacity(31)` reads back 28.
  - In a release build, the table would lose slots.
  - Nothing that compiles constructs a `Capacity`, so `CapacityEncodingExact` is stated over the capacities the assert accepts.
- **qp's SSSE3 `MaskEmpty`** (qp 654) takes the sign bit of every lane. With `Impls = {"ssse3"}` and the byte layout, TLC finds `EmptyMaskExact` violated by a group holding a deleted byte `0xFE`.

  qp's `ctrl_t` (440-451) never stores a deleted or sentinel byte, so the kept run leaves SSSE3 out.
- **part_001's SSE2 `MaskEmptyOrDeleted`** (part_001 808) compares with the placeholder `kSentinel = 42`. With `Impls = {"sse2"}` and the bit-field layout, TLC finds `EmptyOrDeletedMasksExact` violated by a full byte 0.
- **`AllocateMemory` does not check the result of `aligned_alloc`** (part_001 460). If the allocation fails, `memory_` is null while `physical_bin_count_` is not 0, and the next `Bin` dereferences null. The table runs start from successful allocations, so no run covers this.

## What is not modelled, and why

- **qp's `raw_hash_set` class** (qp 1335-2740). It calls `probe()`, `control()` and `find_first_non_full`, which are undefined or under `#if 0`, so it does not compile. Its sizing helpers and `probe_seq` do compile, and `SwissCapacity` models them.
- **`extract`, `insert(node_type)`, `lazy_emplace`, `InsertSlot` and the non-decomposable `emplace`.** Each one adds an iterator to `slot_array()` or calls the compiled-out `AssertIsFull`, so none compiles when instantiated.
- **`erase` in every form, and `EraseMetaOnly` with it** (part_001 2245-2280, raw_hash_set.cc 129-151). `erase(key)` and range erase call `erase(iterator)`, which reads the iterator's `ctrl_` and `slot_`; the graveyard iterator has neither, so no `erase` compiles once instantiated, and `EraseMetaOnly` has no compiling caller.
- **Iteration.** `begin()` builds an iterator from a `ctrl_t*` and a slot pointer, and the graveyard iterator has no constructor for them. `operator++` is recorded as a hazard.
- **`raw_hash_set` copy, move assignment and `swap`.** Only the side of the move constructor that the source table sees is modelled. The rest need two tables. `swap` exchanges `common()` but not `hashtable_memory_`, and is listed as a hazard. `HashTableMemory` checks the bin owner's own moves and swap.
- **Callers of raw_hash_set.cc's `ConvertDeletedToEmptyAndFullToDeleted`, `SlotAddress`, `NextSlot` and `PrevSlot`** (97-127). The functions themselves are modelled (`SwissCapacity`, `BinLayout`) and checked in `hash_arith`, but nothing in the repository calls them: `DropDeletesWithoutResize` is declared only under `#if 0` or in qp's table, which does not compile.
  - `ConvertDeletedToEmptyAndFullToDeleted` names `ctrl_t::kSentinel` in its assert, which part_001's `ctrl_t` lacks, so it compiles only with `NDEBUG`.
  - Three defects of it are recorded as hazards, not runs, because no caller reaches them. With part_001's `NumClonedBytes() == 0` the control array is `capacity + 1` bytes, so for capacities below `kWidth - 1` the group stores write past it. The group covering `ctrl[capacity]` rewrites the sentinel position, and the restoring line is under `#if 0`. And part_001's group conversion still targets qp's byte encoding: on the bit-field `ctrl_t` an empty byte `0xFE` becomes `0x80`, a full byte with h2 64, and a full byte with h2 below 64 becomes `0xFE`, an empty one.
- **`RandomSeed`'s and `EmptyGeneration`'s pointers** (raw_hash_set.cc 47-73). `GenerationInfo` models `RandomSeed()` as any `size_t` (a counter XORed with an address) and `EmptyGeneration()` as the zero it points at; which of the 1024 zero bytes is picked does not matter to any property.
- **qp's `CommonFieldsGenerationInfoEnabled` and `HashSetIteratorGenerationInfo`** (804-907). They are part_001's, less `should_rehash_for_bug_detection_on_insert`, and `GenerationInfo` models part_001's.
- **qp's `H1` with `PerTableSalt`** (516-530). Its one user, `probe()`, is undefined, so there is no probe start to check it against.
- **`kEmptyData`** (qp 490) is declared but defined nowhere. A default `BucketPointer` cannot link, so only the bounds of its 16 bytes are checked.
- **Who sets a bucket's last bit.** qp's table constructor calls `SetLast()` (qp 1683), which `BucketPointer` does not declare; no other code sets bit 15. `BucketHeaderExact` therefore states the walk for an array whose last header has bit 15, as that call intends. `SetSearchDistance` and `SetNotLastAndSearchDistanceToZero` also convert a `const uint16_t*` to `uint16_t*`, which does not compile once instantiated; the operators model what the lines compute.
- **How much of qp the map covers.** qp is 2862 lines, and about 1440 of them are the table class, which does not compile. The map covers what compiles and has behaviour: the groups, the sizing arithmetic, the `Capacity` encoding, `BucketPointer`'s layout and header operations, and the swiss-array offsets. The rest is comments, declarations, includes, or code under `#if 0`.
- **`raw_traits.h` (part_002).** It is compile-time type traits, with no state.
- **Uninitialised bins** from `aligned_alloc`. The table reads them as fresh bins, so every defect it finds is reachable; the other outcomes are not enumerated.

## Plan: what is left

1. Add a `SetSpec` that the table implements under a refinement mapping from `t`'s full slots. This is worth doing once `prepare_insert` writes its control byte; as the code stands, `table_round_trip` already shows the first step at which such a refinement would fail.
2. Add a two-table model of `raw_hash_set::swap` and move assignment, to check that `common()` and `hashtable_memory_` stay paired.
3. Model iteration over the bins, once the iterator compiles: `begin`, `operator++` and the `is_end` walk.
4. Model allocation failure in `AllocateMemory` as a choice in `GraveyardTable`.
