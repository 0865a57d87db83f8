--------------------------- MODULE HashTableMemory ---------------------------
(***************************************************************************)
(* Ownership of the bin array by HashTableMemory (src/unnamed/part_001    *)
(* 396-586): who owns which heap block across the constructors, move       *)
(* construction, move assignment, std::swap, AllocateMemory, Deallocate,  *)
(* bin access and the destructor.                                          *)
(*                                                                         *)
(* Objs are HashTableMemory objects (one stack slot each, constructed at  *)
(* most once); Blocks are the heap blocks aligned_alloc can return.  A     *)
(* freed block may be returned again by a later allocation.  The           *)
(* logical_bin_count_ member is never assigned by any code and plays no   *)
(* part in ownership, so it is not a variable here.                        *)
(*                                                                         *)
(* A failed assert aborts the program: `fault` records which one, and no  *)
(* step follows it.                                                        *)
(***************************************************************************)
EXTENDS Naturals, FiniteSets

CONSTANTS
    Objs,       \* HashTableMemory objects
    Blocks,     \* heap blocks
    BinCounts,  \* physical bin counts passed to the constructor / AllocateMemory
    NULL        \* nullptr

ASSUME NULL \notin Blocks
ASSUME BinCounts \subseteq Nat \ {0}

VARIABLES
    life,       \* life[o]: "unborn", "live" or "dead"
    memory,     \* memory[o]: memory_, a block or NULL
    pbc,        \* pbc[o]: physical_bin_count_
    heap,       \* heap[b]: "free" or "allocated"
    blockBins,  \* blockBins[b]: the bin count block b was allocated for
    fault       \* "none", or the failed assert or undefined access

vars == <<life, memory, pbc, heap, blockBins, fault>>

Faults == {"none", "AllocateMemory: memory_ != nullptr",
           "~HashTableMemory: memory_ != nullptr", "Bin: null memory_",
           "Bin: bin_number >= physical_bin_count_",
           "free of a block not allocated"}

TypeOK ==
    /\ life \in [Objs -> {"unborn", "live", "dead"}]
    /\ memory \in [Objs -> Blocks \cup {NULL}]
    /\ pbc \in [Objs -> {0} \cup BinCounts]
    /\ heap \in [Blocks -> {"free", "allocated"}]
    /\ blockBins \in [Blocks -> {0} \cup BinCounts]
    /\ fault \in Faults

Init ==
    /\ life = [o \in Objs |-> "unborn"]
    /\ memory = [o \in Objs |-> NULL]
    /\ pbc = [o \in Objs |-> 0]
    /\ heap = [b \in Blocks |-> "free"]
    /\ blockBins = [b \in Blocks |-> 0]
    /\ fault = "none"

Running == fault = "none"

(***************************************************************************)
(* free(p) of the C library, on the heap: freeing a block that is not     *)
(* allocated is undefined behaviour and is recorded as a fault.            *)
(***************************************************************************)
FreeBlock(b) ==
    IF heap[b] = "allocated"
    THEN /\ heap' = [heap EXCEPT ![b] = "free"]
         /\ UNCHANGED fault
    ELSE /\ fault' = "free of a block not allocated"
         /\ UNCHANGED heap

(***************************************************************************)
(* part_001 456-462 AllocateMemory(n) on object o: set                     *)
(* physical_bin_count_, assert memory_ is null, and store what             *)
(* aligned_alloc returns, which is a free block or, on failure, null.     *)
(***************************************************************************)
AllocateInto(o, n) ==
    /\ pbc' = [pbc EXCEPT ![o] = n]
    /\ IF memory[o] # NULL
       THEN /\ fault' = "AllocateMemory: memory_ != nullptr"
            /\ UNCHANGED <<memory, heap, blockBins>>
       ELSE /\ UNCHANGED fault
            /\ \/ \E b \in Blocks :
                    /\ heap[b] = "free"
                    /\ memory' = [memory EXCEPT ![o] = b]
                    /\ heap' = [heap EXCEPT ![b] = "allocated"]
                    /\ blockBins' = [blockBins EXCEPT ![b] = n]
               \/ /\ memory' = [memory EXCEPT ![o] = NULL]
                  /\ UNCHANGED <<heap, blockBins>>

\* part_001 425: HashTableMemory() = default.
DefaultConstruct(o) ==
    /\ Running /\ life[o] = "unborn"
    /\ life' = [life EXCEPT ![o] = "live"]
    /\ UNCHANGED <<memory, pbc, heap, blockBins, fault>>

\* part_001 453-455: explicit HashTableMemory(physical_bin_count).
Construct(o, n) ==
    /\ Running /\ life[o] = "unborn"
    /\ life' = [life EXCEPT ![o] = "live"]
    /\ AllocateInto(o, n)

\* AllocateMemory called on a live object (as resize_to_size does).
AllocateMemory(o, n) ==
    /\ Running /\ life[o] = "live"
    /\ AllocateInto(o, n)
    /\ UNCHANGED life

(***************************************************************************)
(* Faulty variants of MoveConstruct: one leaves the source owning the     *)
(* block, the other takes the block but not its bin count.                *)
(***************************************************************************)
MoveConstructKeepSource(d, s) ==
    /\ Running /\ life[d] = "unborn" /\ life[s] = "live"
    /\ life' = [life EXCEPT ![d] = "live"]
    /\ memory' = [memory EXCEPT ![d] = memory[s]]
    /\ pbc' = [pbc EXCEPT ![d] = pbc[s]]
    /\ UNCHANGED <<heap, blockBins, fault>>
MoveConstructNoCount(d, s) ==
    /\ Running /\ life[d] = "unborn" /\ life[s] = "live"
    /\ life' = [life EXCEPT ![d] = "live"]
    /\ memory' = [memory EXCEPT ![d] = memory[s], ![s] = NULL]
    /\ pbc' = [pbc EXCEPT ![s] = 0]
    /\ UNCHANGED <<heap, blockBins, fault>>

(***************************************************************************)
(* part_001 433-436: HashTableMemory(HashTableMemory&& other) constructs  *)
(* d from s, taking its count and memory and nulling both in s.           *)
(***************************************************************************)
MoveConstruct(d, s) ==
    /\ Running /\ life[d] = "unborn" /\ life[s] = "live"
    /\ life' = [life EXCEPT ![d] = "live"]
    /\ memory' = [memory EXCEPT ![d] = memory[s], ![s] = NULL]
    /\ pbc' = [pbc EXCEPT ![d] = pbc[s], ![s] = 0]
    /\ UNCHANGED <<heap, blockBins, fault>>

(***************************************************************************)
(* part_001 438-451: operator=(HashTableMemory&& other).  Unless it is a   *)
(* self-assignment, free the block d owns, then take s's count and memory *)
(* and null them in s.                                                     *)
(***************************************************************************)
MoveAssign(d, s) ==
    /\ Running /\ life[d] = "live" /\ life[s] = "live"
    /\ IF d = s
       THEN UNCHANGED <<memory, pbc, heap, fault>>
       ELSE /\ IF memory[d] # NULL THEN FreeBlock(memory[d])
                                   ELSE UNCHANGED <<heap, fault>>
            /\ memory' = [memory EXCEPT ![d] = memory[s], ![s] = NULL]
            /\ pbc' = [pbc EXCEPT ![d] = pbc[s], ![s] = 0]
    /\ UNCHANGED <<life, blockBins>>

(***************************************************************************)
(* std::swap(a, b), as the part_000 Uint64Move test calls it:              *)
(* T tmp(move(a)); a = move(b); b = move(tmp); ~tmp().  When a = move(b)  *)
(* and b = move(tmp) run, a and b are already null, so nothing is freed,  *)
(* and tmp is null when destroyed: the net effect is an exchange.          *)
(***************************************************************************)
Swap(a, b) ==
    /\ Running /\ a # b /\ life[a] = "live" /\ life[b] = "live"
    /\ memory' = [memory EXCEPT ![a] = memory[b], ![b] = memory[a]]
    /\ pbc' = [pbc EXCEPT ![a] = pbc[b], ![b] = pbc[a]]
    /\ UNCHANGED <<life, heap, blockBins, fault>>

(***************************************************************************)
(* part_001 494-498 Deallocate(): free memory_ if set and null it; the    *)
(* physical bin count is left as it was.                                   *)
(***************************************************************************)
Deallocate(o) ==
    /\ Running /\ life[o] = "live"
    /\ IF memory[o] # NULL THEN FreeBlock(memory[o])
                           ELSE UNCHANGED <<heap, fault>>
    /\ memory' = [memory EXCEPT ![o] = NULL]
    /\ UNCHANGED <<life, pbc, blockBins>>

(***************************************************************************)
(* part_001 576-583 Bin(n), which ControlOf, SlotOf and MakeBinPointer    *)
(* call: assert n < physical_bin_count_, then form memory_ + n * kBinSize, *)
(* which the caller dereferences.  Only the failing outcomes change the   *)
(* state: the assert, or a dereference of a null memory_.                  *)
(***************************************************************************)
Bin(o, n) ==
    /\ Running /\ life[o] = "live"
    /\ \/ /\ n >= pbc[o]
          /\ fault' = "Bin: bin_number >= physical_bin_count_"
       \/ /\ n < pbc[o] /\ memory[o] = NULL
          /\ fault' = "Bin: null memory_"
    /\ UNCHANGED <<life, memory, pbc, heap, blockBins>>

\* part_001 426-428: ~HashTableMemory() asserts memory_ == nullptr.
Destroy(o) ==
    /\ Running /\ life[o] = "live"
    /\ life' = [life EXCEPT ![o] = "dead"]
    /\ fault' = IF memory[o] = NULL THEN "none"
                ELSE "~HashTableMemory: memory_ != nullptr"
    /\ UNCHANGED <<memory, pbc, heap, blockBins>>

Next ==
    \/ \E o \in Objs : DefaultConstruct(o) \/ Deallocate(o) \/ Destroy(o)
    \/ \E o \in Objs, n \in BinCounts : Construct(o, n) \/ AllocateMemory(o, n)
    \/ \E o \in Objs, n \in {0} \cup BinCounts : Bin(o, n)
    \/ \E d, s \in Objs : MoveConstruct(d, s) \/ MoveAssign(d, s) \/ Swap(d, s)

Spec == Init /\ [][Next]_vars

Owners(b) == {o \in Objs : life[o] = "live" /\ memory[o] = b}

(***************************************************************************)
(* Ownership is exclusive and never dangling: across any sequence of       *)
(* constructions, moves, move assignments and swaps, no two live objects   *)
(* hold the same block, and a block a live object holds is allocated (not *)
(* freed by another object's move assignment or Deallocate).               *)
(***************************************************************************)
OwnershipExclusive ==
    \A b \in Blocks :
        /\ Cardinality(Owners(b)) <= 1
        /\ Owners(b) # {} => heap[b] = "allocated"

(***************************************************************************)
(* physical_bin_count_ describes the block the object holds: after moves  *)
(* and swaps a live object that owns a block has the bin count that block *)
(* was allocated for, as the Uint64Move test of part_000 expects of       *)
(* PhysicalBinCount() after std::swap.  (AllocateMemory sets the count   *)
(* before its assert, so the state a failed assert aborts in is exempt.)  *)
(***************************************************************************)
PhysicalBinCountMatches ==
    Running =>
    \A o \in Objs :
        life[o] = "live" /\ memory[o] # NULL => pbc[o] = blockBins[memory[o]]

(***************************************************************************)
(* No block leaks: every allocated block is held by a live object.  The   *)
(* destructor asserts memory_ == nullptr instead of freeing, so this is   *)
(* also the statement that the destructor's assert never fires.           *)
(***************************************************************************)
EveryAllocatedBlockOwned ==
    \A b \in Blocks : heap[b] = "allocated" => Owners(b) # {}
=============================================================================
