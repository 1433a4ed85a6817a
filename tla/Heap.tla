-------------------------------- MODULE Heap --------------------------------
(***************************************************************************)
(* memory/malloc.c: a pool of equal blocks with a red zone after each, the *)
(* free ones listed by index in a stack of memory/stack.c.  Callers hold   *)
(* addresses.  The behaviour starts after init_heap_memory_allocator.      *)
(*                                                                         *)
(* Callers free what they were given, or NULL.  (The unit test at the end  *)
(* of the file does not: it frees as many entries as its array has bytes.  *)
(* The allocator is initialised again after it.)                           *)
(***************************************************************************)
EXTENDS Integers, FiniteSets, ByteStack

CONSTANTS
    BlockCount,    \* BIN_BLOCK_COUNT
    BlockSize,     \* BIN_BLOCK_SIZE
    RedZoneSize,   \* BIN_RED_ZONE_SIZE
    BufferStart,   \* address of heap_buffer
    Sizes          \* bound of the model: sizes callers ask for

ASSUME HeapAssumption ==
    /\ BlockCount \in 1..255       \* indexes are u8
    /\ BlockSize \in Nat \ {0}
    /\ RedZoneSize \in Nat
    /\ BufferStart \in Nat \ {0}
    /\ Sizes \subseteq Nat

VARIABLES
    freeBlocks,   \* free_blocks_stack
    held,         \* the addresses callers have
    result        \* the last call: its size (0 for free) and the address returned

vars == <<freeBlocks, held, result>>

NULL    == 0
Indexes == 0..(BlockCount - 1)
Stride  == BlockSize + RedZoneSize

AddressOf(i) == BufferStart + i * Stride

\* Mutant: the red zones are forgotten on the way back.
IndexOfDense(p) == (p - BufferStart) \div BlockSize

\* The quotient is stored in a u8.
IndexOf(p) == ((p - BufferStart) \div Stride) % 256

Malloced(size, p) == [call |-> "malloc", size |-> size, block |-> p]
NoResult          == [call |-> "free", size |-> 0, block |-> NULL]

Init ==
    /\ freeBlocks = [k \in 1..BlockCount |-> k - 1]
    /\ held = {}
    /\ result = NoResult

\* Mutant: a block is popped before the size is looked at.
MallocPopsFirst(size) ==
    LET p == IF size \in 1..BlockSize /\ CanPop(freeBlocks)
             THEN AddressOf(Top(freeBlocks)) ELSE NULL
    IN  /\ freeBlocks' = Pop(freeBlocks)
        /\ held' = held \cup ({p} \ {NULL})
        /\ result' = Malloced(size, p)

\* The address of the block popped; none for an index outside the buffer.
Popped(free) == IF Top(free) >= BlockCount THEN NULL ELSE AddressOf(Top(free))

\* heap_malloc
Malloc(size) ==
    IF size \in 1..BlockSize /\ CanPop(freeBlocks)
    THEN /\ freeBlocks' = Pop(freeBlocks)
         /\ held' = held \cup ({Popped(freeBlocks)} \ {NULL})
         /\ result' = Malloced(size, Popped(freeBlocks))
    ELSE /\ result' = Malloced(size, NULL)
         /\ UNCHANGED <<freeBlocks, held>>

\* Mutant: NULL is freed as an address.
FreeUnchecked(p) ==
    /\ freeBlocks' = Push(freeBlocks, IndexOf(p), BlockCount)
    /\ held' = held \ {p}
    /\ result' = NoResult

\* heap_free
Free(p) ==
    /\ freeBlocks' = IF p = NULL THEN freeBlocks ELSE Push(freeBlocks, IndexOf(p), BlockCount)
    /\ held' = held \ {p}
    /\ result' = NoResult

Next ==
    \/ \E size \in Sizes : Malloc(size)
    \/ \E p \in held \cup {NULL} : Free(p)

Spec == Init /\ [][Next]_vars

-----------------------------------------------------------------------------
(* Properties *)

\* Every variable has its type; callers hold addresses of blocks.
TypeOK ==
    /\ freeBlocks \in Seq(Indexes)
    /\ held \subseteq {AddressOf(i) : i \in Indexes}
    /\ result.block \in held \cup {NULL}

\* After any order of allocations and frees a block is listed exactly once or
\* a caller has it: none is lost and none is given to two callers.
BlocksAccounted ==
    /\ NoDuplicates(freeBlocks)
    /\ Cells(freeBlocks) = {i \in Indexes : AddressOf(i) \notin held}

\* The blocks callers have do not overlap, the red zone after each included,
\* and lie inside the heap's buffer.
RedZonesBetween ==
    \A p \in held :
        /\ p + Stride <= BufferStart + BlockCount * Stride
        /\ \A q \in held : p < q => p + BlockSize + RedZoneSize <= q

Promise ==
    INSTANCE Allocator WITH
        Blocks <- {AddressOf(i) : i \in Indexes}, NoBlock <- NULL, MaxSize <- BlockSize

\* The heap implements the allocator: in particular it refuses a size it
\* serves only when all blocks are out.
ImplementsAllocator == Promise!Spec
=============================================================================
