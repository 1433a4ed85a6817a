------------------------------ MODULE Scheduler ------------------------------
(***************************************************************************)
(* scheduler.c: the process table, the cooperative round-robin scheduler   *)
(* and the pool of process stacks.                                         *)
(*                                                                         *)
(* There is one CPU and interrupts stay disabled (every process runs with  *)
(* EFLAGS = 2, and vector 0x80 is an interrupt gate), so everything        *)
(* between two calls that give the CPU away is atomic: each action below   *)
(* is one such handler from its entry to its return or context switch.     *)
(* The behaviour starts after scheduler_init.  The value that              *)
(* init_process_stack_allocator forgets to return is, with the Makefile's  *)
(* flags (no optimisation), the TRUE its last stack_push left in EAX.      *)
(* Register contents are ContextSwitch's subject.                          *)
(***************************************************************************)
EXTENDS Integers, Sequences, FiniteSets, ByteStack

CONSTANTS
    MaxProcs,    \* MAX_PROCESS_COUNT
    StackCount,  \* PROCESS_STACK_COUNT
    BlockSize,   \* PROCESS_STACK_SIZE
    PoolStart,   \* address of process_stack_memory
    KillsDead    \* may the operator type `kill n' for a slot n not in use?

ASSUME SchedulerAssumption ==
    /\ MaxProcs \in Nat \ {0}
    /\ StackCount \in Nat
    /\ StackCount >= MaxProcs - 1    \* 32 blocks for 15 user slots
    /\ StackCount <= 255             \* block indexes are u8
    /\ BlockSize \in Nat \ {0}
    /\ PoolStart \in Nat
    /\ KillsDead \in BOOLEAN

VARIABLES
    used,        \* slots of process_list whose name is not NULL
    cur,         \* current_process_index
    stackBase,   \* stack_mem_base of every slot; kept when the slot is freed
    freeBlocks   \* free_blocks_stack

vars == <<used, cur, stackBase, freeBlocks>>

Slots  == 0..(MaxProcs - 1)
Users  == 1..(MaxProcs - 1)
Blocks == 0..(StackCount - 1)
NULL   == 0

-----------------------------------------------------------------------------
(* Stack memory: blocks by index, processes hold them by address. *)

\* process_stack_memory_base: the first block boundary above the array's start.
PoolBase == ((PoolStart + BlockSize) \div BlockSize) * BlockSize

IdxToPtr(idx) == IF idx >= StackCount THEN NULL ELSE PoolBase + idx * BlockSize

\* Mutant: the division is forgotten.
PtrToOffset(ptr) ==
    IF ptr >= PoolBase + BlockSize * StackCount THEN StackCount ELSE ptr - PoolBase

PtrToIdx(ptr) ==
    IF ptr >= PoolBase + BlockSize * StackCount
    THEN StackCount
    ELSE (ptr - PoolBase) \div BlockSize

Addresses == {IdxToPtr(b) : b \in Blocks}

\* Mutant: the oldest block of the list is handed out, the newest is popped.
AllocatedOldest(free) == IF CanPop(free) THEN IdxToPtr(free[1]) ELSE NULL

\* allocate_stack_memory: the block on top of the free list, NULL if none is left.
AllocatedPtr(free) == IF CanPop(free) THEN IdxToPtr(Top(free)) ELSE NULL

\* Mutants: the block of a dead process is not given back; block 0 is taken
\* for no block at all.
FreedNever(free, ptr) == free
FreedNotZero(free, ptr) ==
    IF ptr = NULL \/ PtrToIdx(ptr) = 0 THEN free ELSE Push(free, PtrToIdx(ptr), StackCount)

\* free_stack_memory: the free list after ptr is given back.  The index is
\* pushed whatever it is, and a full list swallows it.
Freed(free, ptr) ==
    IF ptr = NULL THEN free ELSE Push(free, PtrToIdx(ptr), StackCount)

-----------------------------------------------------------------------------
(* The process table. *)

\* move_to_next_process: the first slot in use after c, cyclically; c itself
\* comes last.
Ahead(c, d) == (c + d) % MaxProcs
\* Mutant: the search starts at the kernel's slot, not after c.
NextFromKernel(c, inUse) ==
    IF inUse = {c} THEN c ELSE CHOOSE s \in inUse \ {c} : \A t \in inUse \ {c} : s <= t

NextUsed(c, inUse) ==
    LET dist == CHOOSE d \in 1..MaxProcs :
                    /\ Ahead(c, d) \in inUse
                    /\ \A e \in 1..(d - 1) : Ahead(c, e) \notin inUse
    IN  Ahead(c, dist)

FreeSlots == Users \ used

\* find_free_process_ctx: the lowest free slot above the kernel's.
FirstFree == CHOOSE s \in FreeSlots : \A t \in FreeSlots : s <= t

-----------------------------------------------------------------------------

\* scheduler_init: the blocks are pushed from the last to the first.
Init ==
    /\ used = {0}
    /\ cur = 0
    /\ stackBase = [s \in Slots |-> NULL]
    /\ freeBlocks = [k \in 1..StackCount |-> StackCount - k]

\* create_process, run by the shell command `run' inside the kernel process.
Create ==
    /\ cur = 0
    /\ FreeSlots # {}
    /\ used' = used \cup {FirstFree}
    /\ stackBase' = [stackBase EXCEPT ![FirstFree] = AllocatedPtr(freeBlocks)]
    /\ freeBlocks' = Pop(freeBlocks)
    /\ UNCHANGED cur

\* The table is full: create_process only logs.
CreateRefused ==
    /\ cur = 0
    /\ FreeSlots = {}
    /\ UNCHANGED vars

\* Mutant: PID 0 is killed as any other.
KillAnyProcess(pid) ==
    /\ used' = used \ {pid}
    /\ freeBlocks' = Freed(freeBlocks, stackBase[pid])

\* kill_process(pid): the slot is cleared whether or not it was in use, and
\* the address left in it is freed (again).  PID 0 is refused.
KillProcess(pid) ==
    IF pid = 0
    THEN UNCHANGED <<used, freeBlocks>>
    ELSE /\ used' = used \ {pid}
         /\ freeBlocks' = Freed(freeBlocks, stackBase[pid])

\* The shell command `kill', inside the kernel process.
Kill(pid) ==
    /\ cur = 0
    /\ KillsDead \/ pid \in used
    /\ KillProcess(pid)
    /\ UNCHANGED <<cur, stackBase>>

\* The running process calls schedule(), or makes a write system call, which
\* ends in schedule_in_irq_context.
Yield ==
    /\ cur' = NextUsed(cur, used)
    /\ UNCHANGED <<used, stackBase, freeBlocks>>

\* Mutant: the block is freed by the exit and once more by the switch.
ExitFreesTwice ==
    /\ used' = used \ ({cur} \ {0})
    /\ freeBlocks' = IF cur = 0 THEN freeBlocks
                     ELSE Freed(Freed(freeBlocks, stackBase[cur]), stackBase[cur])
    /\ cur' = NextUsed(cur, used')
    /\ UNCHANGED stackBase

\* The exit system call: kill_current_process, then schedule_in_irq_context.
\* The kernel process is not killed by it.
Exit ==
    /\ KillProcess(cur)
    /\ cur' = NextUsed(cur, used')
    /\ UNCHANGED stackBase

Next ==
    \/ Create
    \/ CreateRefused
    \/ \E pid \in Slots : Kill(pid)
    \/ Yield
    \/ Exit

Spec == Init /\ [][Next]_vars

\* The kernel's main loop and every thread of the tree come back to schedule()
\* or to a system call: no process keeps the CPU for ever.
FairSpec == Spec /\ WF_vars(Yield)

-----------------------------------------------------------------------------
(* Properties *)

\* Every variable has its type; the free list fits its buffer.
TypeOK ==
    /\ used \subseteq Slots
    /\ cur \in Slots
    /\ stackBase \in [Slots -> Addresses \cup {NULL}]
    /\ freeBlocks \in Seq(Blocks)
    /\ Len(freeBlocks) <= StackCount

\* The process on the CPU is one of the table, and the kernel process is
\* always there, so move_to_next_process always finds a slot (its loop has
\* no other exit).
RunningIsLive == 0 \in used /\ cur \in used

LiveUsers == used \ {0}

\* No two live processes run on the same stack block.
StacksExclusive ==
    \A p, q \in LiveUsers : stackBase[p] = stackBase[q] => p = q

\* The pool neither loses a block nor lists one twice or one that is in use:
\* after any history of create, kill and exit, the blocks listed as free are
\* exactly those no live process owns.
PoolAccounted ==
    /\ NoDuplicates(freeBlocks)
    /\ Cells(freeBlocks) = {b \in Blocks : \A p \in LiveUsers : stackBase[p] # IdxToPtr(b)}

\* create_process never hands out the NULL stack that init_process_ctx would
\* silently put into reg_esp.
LiveHaveStacks == \A p \in LiveUsers : stackBase[p] # NULL

\* A process that stays alive keeps its stack: whatever is created, killed or
\* reused around it, nobody moves it under a live process.
StackStays ==
    [][\A p \in LiveUsers \cap used' : stackBase'[p] = stackBase[p]]_vars

\* Round robin: a live process gets the CPU again unless it is killed.
RunsAgain == \A p \in Slots : p \in used ~> (cur = p \/ p \notin used)

Manager ==
    INSTANCE ProcessManager WITH
        Kernel <- 0, Blocks <- Addresses, running <- cur,
        stackOf <- [p \in LiveUsers |-> stackBase[p]]

\* The scheduler implements the process manager.
ImplementsManager == Manager!Spec
=============================================================================
