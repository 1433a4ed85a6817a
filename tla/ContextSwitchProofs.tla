------------------------- MODULE ContextSwitchProofs -------------------------
(***************************************************************************)
(* Theorems about Scheduler and about ContextSwitch, which extends it.     *)
(*                                                                         *)
(* Scheduler: for every number of processes, every number and size of      *)
(* stack blocks and every placement of the pool that SchedulerAssumption   *)
(* allows.                                                                 *)
(*                                                                         *)
(* ContextSwitch: for any number of processes and blocks, any programs and *)
(* any depth of their stacks: whatever mix of schedule() and int 0x80      *)
(* suspends and resumes processes, each finds its registers and its stack  *)
(* again.                                                                  *)
(***************************************************************************)
EXTENDS ContextSwitch, ListFacts, SequenceTheorems


-----------------------------------------------------------------------------
(* The address arithmetic of the pool. *)

\* The pool starts at a positive address.
LEMMA PoolBasePositive == PoolBase \in Nat /\ PoolBase > 0
<1> DEFINE q == (PoolStart + BlockSize) \div BlockSize
<1>1. PoolStart \in Nat /\ BlockSize \in Nat \ {0}
  BY SchedulerAssumption
<1>2. q \in Nat /\ q >= 1
  BY <1>1
<1>3. q * BlockSize \in Nat /\ q * BlockSize > 0
  BY <1>1, <1>2
<1>. QED BY <1>3 DEF PoolBase

\* A block's address is not NULL, and leads back to the block.
LEMMA BlockAddress ==
    ASSUME NEW b \in Blocks
    PROVE  /\ IdxToPtr(b) \in Nat
           /\ IdxToPtr(b) # NULL
           /\ PtrToIdx(IdxToPtr(b)) = b
<1> DEFINE off == b * BlockSize
<1>1. /\ StackCount \in Nat
      /\ BlockSize \in Nat \ {0}
      /\ b \in Nat
      /\ b < StackCount
  BY SchedulerAssumption DEF Blocks
<1>2. off \in Nat /\ off \div BlockSize = b
  BY <1>1, BlockOffset
<1>3. off < BlockSize * StackCount /\ BlockSize * StackCount \in Nat
  BY <1>1, BlockOffsetMonotone
<1>4. IdxToPtr(b) = PoolBase + off
  BY <1>1 DEF IdxToPtr
<1>5. IdxToPtr(b) \in Nat /\ IdxToPtr(b) # NULL
  BY <1>2, <1>4, PoolBasePositive DEF NULL
<1>6. PtrToIdx(PoolBase + off) = (PoolBase + off - PoolBase) \div BlockSize
  <2>1. ~ (PoolBase + off >= PoolBase + BlockSize * StackCount)
    BY <1>2, <1>3, PoolBasePositive
  <2> HIDE DEF off
  <2>. QED BY <1>1, <1>2, <1>3, <2>1, PoolBasePositive DEF PtrToIdx
<1>7. PoolBase + off - PoolBase = off
  BY <1>2, PoolBasePositive
<1>8. PtrToIdx(IdxToPtr(b)) = b
  BY <1>2, <1>4, <1>6, <1>7
<1>. QED BY <1>5, <1>8

\* What is known of an address a process holds.
LEMMA AddressFacts ==
    ASSUME NEW a \in Addresses
    PROVE  /\ a # NULL
           /\ PtrToIdx(a) \in Blocks
           /\ IdxToPtr(PtrToIdx(a)) = a
<1>1. PICK b \in Blocks : a = IdxToPtr(b)
  BY DEF Addresses
<1>. QED BY <1>1, BlockAddress

-----------------------------------------------------------------------------
(* The process table. *)

\* move_to_next_process returns a slot in use, given that the kernel's is.
LEMMA NextUsedIsUsed ==
    ASSUME NEW c \in Slots, NEW inUse \in SUBSET Slots, 0 \in inUse
    PROVE  NextUsed(c, inUse) \in inUse
<1> DEFINE D == {d \in 1..MaxProcs : Ahead(c, d) \in inUse}
<1>1. MaxProcs \in Nat \ {0} /\ c \in Nat /\ c < MaxProcs
  BY SchedulerAssumption DEF Slots
<1>2. MaxProcs - c \in D
  <2>1. MaxProcs - c \in 1..MaxProcs /\ c + (MaxProcs - c) = MaxProcs
    BY <1>1
  <2>2. MaxProcs % MaxProcs = 0
    BY <1>1
  <2>. QED BY <2>1, <2>2 DEF Ahead
<1>3. PICK m \in D : \A y \in D : m <= y
  <2>1. D \in SUBSET Nat /\ D # {}
    BY <1>1, <1>2
  <2>. QED BY <2>1, LeastNatural
<1>4. m \in 1..MaxProcs /\ Ahead(c, m) \in inUse
  OBVIOUS
<1>5. \A e \in 1..(m - 1) : Ahead(c, e) \notin inUse
  <2> SUFFICES ASSUME NEW e \in 1..(m - 1), Ahead(c, e) \in inUse
               PROVE  FALSE
    OBVIOUS
  <2>1. e \in D /\ ~ (m <= e)
    BY <1>1, <1>4
  <2>. QED BY <1>3, <2>1
<1>. QED BY <1>4, <1>5 DEF NextUsed

\* find_free_process_ctx returns a free slot if there is one.
LEMMA FirstFreeIsFree ==
    ASSUME FreeSlots # {}
    PROVE  FirstFree \in FreeSlots
<1>1. FreeSlots \in SUBSET Nat
  BY SchedulerAssumption DEF FreeSlots, Users
<1>2. \E x \in FreeSlots : \A y \in FreeSlots : x <= y
  BY <1>1, LeastNatural
<1>. QED BY <1>2 DEF FirstFree
-----------------------------------------------------------------------------
(* The invariant behind the safety properties that hold whatever PIDs the  *)
(* operator kills: a free slot implies a free block, because the pool has  *)
(* at least one block per user slot and a kill never shortens the list.    *)

EnoughBlocks == Len(freeBlocks) + Cardinality(LiveUsers) >= StackCount

CoreInv == TypeOK /\ RunningIsLive /\ LiveHaveStacks /\ EnoughBlocks

\* The live user processes form a finite set of at most MaxProcs - 1.
LEMMA LiveUsersFinite ==
    ASSUME used \subseteq Slots
    PROVE  /\ LiveUsers \subseteq Users
           /\ IsFiniteSet(LiveUsers)
           /\ Cardinality(LiveUsers) \in Nat
           /\ FreeSlots # {} => Cardinality(LiveUsers) < MaxProcs - 1
<1>1. MaxProcs - 1 \in Nat
  BY SchedulerAssumption
<1>2. LiveUsers \subseteq Users
  BY DEF LiveUsers, Slots, Users
<1>3. IsFiniteSet(Users) /\ Cardinality(Users) = MaxProcs - 1
  BY <1>1, IntervalSize DEF Users
<1>4. /\ IsFiniteSet(LiveUsers)
      /\ Cardinality(LiveUsers) <= Cardinality(Users)
      /\ Cardinality(LiveUsers) = Cardinality(Users) => LiveUsers = Users
  BY <1>2, <1>3, FS_Subset
<1>5. Cardinality(LiveUsers) \in Nat
  BY <1>4, FS_CardinalityType
<1>6. FreeSlots # {} => LiveUsers # Users
  BY DEF FreeSlots, LiveUsers
<1>. QED BY <1>1, <1>2, <1>3, <1>4, <1>5, <1>6

LEMMA CoreInvInit == Init => CoreInv
<1> SUFFICES ASSUME Init PROVE CoreInv
  OBVIOUS
<1>1. StackCount \in Nat /\ 0 \in Slots
  BY SchedulerAssumption DEF Slots
<1>2. freeBlocks \in Seq(Blocks) /\ Len(freeBlocks) = StackCount
  <2>1. freeBlocks = [k \in 1..StackCount |-> StackCount - k]
    BY DEF Init
  <2>2. \A k \in 1..StackCount : StackCount - k \in Blocks
    BY <1>1 DEF Blocks
  <2>. QED BY <1>1, <2>1, <2>2
<1>3. TypeOK
  BY <1>1, <1>2 DEF Init, TypeOK
<1>4. LiveUsers = {}
  BY DEF Init, LiveUsers
<1>5. EnoughBlocks
  BY <1>1, <1>2, <1>4, FS_EmptySet DEF EnoughBlocks
<1>. QED BY <1>3, <1>4, <1>5 DEF Init, CoreInv, RunningIsLive, LiveHaveStacks

\* Creating a process takes a block from the pool, which still has one.
LEMMA CoreInvCreate == CoreInv /\ Create => CoreInv'
<1> SUFFICES ASSUME CoreInv, Create PROVE CoreInv'
  OBVIOUS
<1> DEFINE s == FirstFree
           a == AllocatedPtr(freeBlocks)
<1>1. /\ used \subseteq Slots
      /\ cur \in Slots
      /\ stackBase \in [Slots -> Addresses \cup {NULL}]
      /\ freeBlocks \in Seq(Blocks)
      /\ Len(freeBlocks) <= StackCount
      /\ MaxProcs - 1 \in Nat
      /\ StackCount \in Nat
      /\ StackCount >= MaxProcs - 1
  BY SchedulerAssumption DEF CoreInv, TypeOK
<1>2. s \in FreeSlots /\ s \in Users /\ s \notin used /\ s \in Slots /\ s # 0
  <2>1. s \in FreeSlots
    BY FirstFreeIsFree DEF Create
  <2>2. Users \subseteq Slots /\ 0 \notin Users
    BY <1>1 DEF Users, Slots
  <2>. QED BY <2>1, <2>2 DEF FreeSlots
<1>3. CanPop(freeBlocks)
  <2>1. Cardinality(LiveUsers) \in Nat /\ Cardinality(LiveUsers) < MaxProcs - 1
    BY <1>1, LiveUsersFinite DEF Create
  <2>2. Len(freeBlocks) + Cardinality(LiveUsers) >= StackCount
    BY DEF CoreInv, EnoughBlocks
  <2>3. Len(freeBlocks) \in Nat
    BY <1>1
  <2>4. Len(freeBlocks) > 0
    BY <1>1, <2>1, <2>2, <2>3
  <2>. QED BY <1>1, <2>4 DEF CanPop
<1>4. /\ Pop(freeBlocks) \in Seq(Blocks)
      /\ Top(freeBlocks) \in Blocks
      /\ Len(Pop(freeBlocks)) = Len(freeBlocks) - 1
      /\ Len(freeBlocks) \in Nat
  BY <1>1, <1>3, PopType
<1>5. a \in Addresses /\ a # NULL
  <2>1. a = IdxToPtr(Top(freeBlocks))
    BY <1>3 DEF AllocatedPtr
  <2>. QED BY <1>4, <2>1, BlockAddress DEF Addresses
<1>6. /\ used' = used \cup {s}
      /\ stackBase' = [stackBase EXCEPT ![s] = a]
      /\ freeBlocks' = Pop(freeBlocks)
      /\ cur' = cur
  BY DEF Create
<1>7. LiveUsers' = LiveUsers \cup {s} /\ s \notin LiveUsers
  BY <1>2, <1>6 DEF LiveUsers
<1>8. TypeOK'
  BY <1>1, <1>2, <1>4, <1>5, <1>6 DEF TypeOK
<1>9. RunningIsLive'
  BY <1>6 DEF CoreInv, RunningIsLive
<1>10. LiveHaveStacks'
  <2> SUFFICES ASSUME NEW p \in LiveUsers' PROVE stackBase'[p] # NULL
    BY DEF LiveHaveStacks
  <2>1. CASE p = s
    BY <1>1, <1>2, <1>5, <1>6, <2>1
  <2>2. CASE p # s
    <3>1. p \in LiveUsers /\ p \in Slots
      BY <1>1, <1>7, <2>2 DEF LiveUsers
    <3>. QED BY <1>1, <1>6, <2>2, <3>1 DEF CoreInv, LiveHaveStacks
  <2>. QED BY <2>1, <2>2
<1>11. EnoughBlocks'
  <2>1. IsFiniteSet(LiveUsers) /\ Cardinality(LiveUsers) \in Nat
    BY <1>1, LiveUsersFinite
  <2>2. Cardinality(LiveUsers') = Cardinality(LiveUsers) + 1
    BY <1>7, <2>1, FS_AddElement
  <2>. QED BY <1>1, <1>4, <1>6, <2>1, <2>2 DEF CoreInv, EnoughBlocks
<1>. QED BY <1>8, <1>9, <1>10, <1>11 DEF CoreInv

\* kill_process leaves the table well-formed and does not shorten the free
\* list by more than the slot it frees, dead slot or not.
LEMMA CoreInvKillProcess ==
    ASSUME CoreInv, NEW pid \in Slots, KillProcess(pid), UNCHANGED stackBase
    PROVE  /\ used' \subseteq Slots
           /\ 0 \in used'
           /\ used' = used \ ({pid} \ {0})
           /\ freeBlocks' \in Seq(Blocks)
           /\ Len(freeBlocks') <= StackCount
           /\ LiveHaveStacks'
           /\ EnoughBlocks'
<1>1. /\ used \subseteq Slots
      /\ stackBase \in [Slots -> Addresses \cup {NULL}]
      /\ freeBlocks \in Seq(Blocks)
      /\ Len(freeBlocks) \in Nat
      /\ Len(freeBlocks) <= StackCount
      /\ StackCount \in Nat
      /\ 0 \in used
      /\ IsFiniteSet(LiveUsers)
      /\ Cardinality(LiveUsers) \in Nat
      /\ Len(freeBlocks) + Cardinality(LiveUsers) >= StackCount
  BY SchedulerAssumption, LiveUsersFinite DEF CoreInv, TypeOK, RunningIsLive, EnoughBlocks
<1>2. CASE pid = 0
  <2>1. used' = used /\ freeBlocks' = freeBlocks /\ stackBase' = stackBase
    BY <1>2 DEF KillProcess
  <2>2. LiveUsers' = LiveUsers
    BY <2>1 DEF LiveUsers
  <2>. QED BY <1>1, <1>2, <2>1, <2>2 DEF CoreInv, LiveHaveStacks, EnoughBlocks
<1>3. CASE pid # 0
  <2>1. /\ used' = used \ {pid}
        /\ freeBlocks' = Freed(freeBlocks, stackBase[pid])
        /\ stackBase' = stackBase
    BY <1>3 DEF KillProcess
  <2>2. LiveUsers' = LiveUsers \ {pid}
    BY <2>1 DEF LiveUsers
  <2>3. LiveHaveStacks'
    BY <2>1, <2>2 DEF CoreInv, LiveHaveStacks
  <2>4. CASE stackBase[pid] = NULL
    <3>1. freeBlocks' = freeBlocks
      BY <2>1, <2>4 DEF Freed
    <3>2. pid \notin LiveUsers
      BY <2>4 DEF CoreInv, LiveHaveStacks
    <3>3. LiveUsers' = LiveUsers
      BY <2>2, <3>2
    <3>. QED BY <1>1, <1>3, <2>1, <2>3, <3>1, <3>3 DEF EnoughBlocks
  <2>5. CASE stackBase[pid] # NULL
    <3> DEFINE b == PtrToIdx(stackBase[pid])
    <3>1. b \in Blocks
      BY <1>1, <2>5, AddressFacts
    <3>2. freeBlocks' = Push(freeBlocks, b, StackCount)
      BY <2>1, <2>5 DEF Freed
    <3>3. /\ freeBlocks' \in Seq(Blocks)
          /\ Len(freeBlocks') <= StackCount
          /\ Len(freeBlocks') = Len(freeBlocks) + 1 \/ Len(freeBlocks') = StackCount
      BY <1>1, <3>1, <3>2, PushType
    <3>4. /\ Cardinality(LiveUsers') \in Nat
          /\ Cardinality(LiveUsers') >= Cardinality(LiveUsers) - 1
      <4>1. IsFiniteSet(LiveUsers') /\ Cardinality(LiveUsers')
              = IF pid \in LiveUsers THEN Cardinality(LiveUsers) - 1 ELSE Cardinality(LiveUsers)
        BY <1>1, <2>2, FS_RemoveElement
      <4>2. Cardinality(LiveUsers') \in Nat
        BY <4>1, FS_CardinalityType
      <4>. QED BY <1>1, <4>1, <4>2
    <3>5. EnoughBlocks'
      BY <1>1, <3>3, <3>4 DEF EnoughBlocks
    <3>. QED BY <1>1, <1>3, <2>1, <2>3, <3>3, <3>5
  <2>. QED BY <2>4, <2>5
<1>. QED BY <1>2, <1>3

LEMMA CoreInvKill ==
    ASSUME NEW pid \in Slots
    PROVE  CoreInv /\ Kill(pid) => CoreInv'
<1> SUFFICES ASSUME CoreInv, Kill(pid) PROVE CoreInv'
  OBVIOUS
<1>1. KillProcess(pid) /\ UNCHANGED stackBase /\ cur' = cur /\ cur = 0
  BY DEF Kill
<1>. QED BY <1>1, CoreInvKillProcess DEF CoreInv, TypeOK, RunningIsLive

LEMMA CoreInvYield == CoreInv /\ Yield => CoreInv'
<1> SUFFICES ASSUME CoreInv, Yield PROVE CoreInv'
  OBVIOUS
<1>1. /\ cur' = NextUsed(cur, used)
      /\ used' = used /\ stackBase' = stackBase /\ freeBlocks' = freeBlocks
  BY DEF Yield
<1>2. cur' \in used
  BY <1>1, NextUsedIsUsed DEF CoreInv, TypeOK, RunningIsLive
<1>3. LiveUsers' = LiveUsers
  BY <1>1 DEF LiveUsers
<1>. QED BY <1>1, <1>2, <1>3
         DEF CoreInv, TypeOK, RunningIsLive, LiveHaveStacks, EnoughBlocks

LEMMA CoreInvExit == CoreInv /\ Exit => CoreInv'
<1> SUFFICES ASSUME CoreInv, Exit PROVE CoreInv'
  OBVIOUS
<1>1. /\ KillProcess(cur)
      /\ cur' = NextUsed(cur, used')
      /\ UNCHANGED stackBase
  BY DEF Exit
<1>2. cur \in Slots
  BY DEF CoreInv, TypeOK
<1>3. /\ used' \subseteq Slots
      /\ 0 \in used'
      /\ freeBlocks' \in Seq(Blocks)
      /\ Len(freeBlocks') <= StackCount
      /\ LiveHaveStacks'
      /\ EnoughBlocks'
  BY <1>1, <1>2, CoreInvKillProcess
<1>4. cur' \in used'
  BY <1>1, <1>2, <1>3, NextUsedIsUsed
<1>. QED BY <1>1, <1>3, <1>4 DEF CoreInv, TypeOK, RunningIsLive

LEMMA CoreInvNext == CoreInv /\ [Next]_vars => CoreInv'
<1> SUFFICES ASSUME CoreInv, [Next]_vars PROVE CoreInv'
  OBVIOUS
<1>1. CASE Create
  BY <1>1, CoreInvCreate
<1>2. CASE UNCHANGED vars
  BY <1>2 DEF vars, CoreInv, TypeOK, RunningIsLive, LiveHaveStacks, EnoughBlocks, LiveUsers
<1>3. CASE CreateRefused
  BY <1>2, <1>3 DEF CreateRefused
<1>4. ASSUME NEW pid \in Slots, Kill(pid) PROVE CoreInv'
  BY <1>4, CoreInvKill
<1>5. CASE Yield
  BY <1>5, CoreInvYield
<1>6. CASE Exit
  BY <1>6, CoreInvExit
<1>. QED BY <1>1, <1>2, <1>3, <1>4, <1>5, <1>6 DEF Next

LEMMA CoreInvAlways == Spec => []CoreInv
  BY CoreInvInit, CoreInvNext, PTL DEF Spec

\* Every variable keeps its type, and the free list its bound, whatever PIDs
\* the operator kills.
THEOREM TypeCorrect == Spec => []TypeOK
<1>1. CoreInv => TypeOK
  BY DEF CoreInv
<1>. QED BY <1>1, CoreInvAlways, PTL

\* The kernel process is never removed and the CPU is always given to a
\* process of the table, whatever PIDs the operator kills.
THEOREM KernelSurvives == Spec => []RunningIsLive
<1>1. CoreInv => RunningIsLive
  BY DEF CoreInv
<1>. QED BY <1>1, CoreInvAlways, PTL

\* create_process never runs out of stack blocks before it runs out of
\* slots, whatever PIDs the operator kills.
THEOREM StacksSuffice == Spec => []LiveHaveStacks
<1>1. CoreInv => LiveHaveStacks
  BY DEF CoreInv
<1>. QED BY <1>1, CoreInvAlways, PTL

\* Nobody moves the stack of a process that stays alive.
THEOREM StacksStay == Spec => StackStays
<1>1. CoreInv /\ [Next]_vars =>
        [\A p \in LiveUsers \cap used' : stackBase'[p] = stackBase[p]]_vars
  <2> SUFFICES ASSUME CoreInv, Next, NEW p \in LiveUsers
               PROVE  stackBase'[p] = stackBase[p]
    OBVIOUS
  <2>1. CASE Create
    <3>1. FirstFree \notin used
      BY <2>1, FirstFreeIsFree DEF Create, FreeSlots
    <3>2. p # FirstFree
      BY <3>1 DEF LiveUsers
    <3>3. p \in Slots /\ stackBase \in [Slots -> Addresses \cup {NULL}]
      BY DEF CoreInv, TypeOK, LiveUsers
    <3>. QED BY <2>1, <3>2, <3>3 DEF Create
  <2>2. CASE CreateRefused
    BY <2>2 DEF CreateRefused, vars
  <2>3. ASSUME NEW pid \in Slots, Kill(pid) PROVE stackBase'[p] = stackBase[p]
    BY <2>3 DEF Kill
  <2>4. CASE Yield
    BY <2>4 DEF Yield
  <2>5. CASE Exit
    BY <2>5 DEF Exit
  <2>. QED BY <2>1, <2>2, <2>3, <2>4, <2>5 DEF Next
<1>. QED BY <1>1, CoreInvAlways, PTL DEF Spec, StackStays

-----------------------------------------------------------------------------
(* While only live processes are killed, the pool's books stay right.      *)

PoolInv == CoreInv /\ StacksExclusive /\ PoolAccounted

LEMMA PoolInvInit == Init => PoolInv
<1> SUFFICES ASSUME Init PROVE PoolInv
  OBVIOUS
<1>1. StackCount \in Nat
  BY SchedulerAssumption
<1>2. freeBlocks = [k \in 1..StackCount |-> StackCount - k] /\ LiveUsers = {}
  BY DEF Init, LiveUsers
<1>3. Len(freeBlocks) = StackCount
  BY <1>1, <1>2
<1>4. NoDuplicates(freeBlocks)
  BY <1>1, <1>2, <1>3 DEF NoDuplicates
<1>5. Cells(freeBlocks) = Blocks
  <2>1. ASSUME NEW b \in Blocks PROVE b \in Cells(freeBlocks)
    <3>1. StackCount - b \in 1..StackCount /\ freeBlocks[StackCount - b] = b
      BY <1>1, <1>2 DEF Blocks
    <3>. QED BY <1>3, <3>1 DEF Cells
  <2>2. ASSUME NEW k \in 1..StackCount PROVE freeBlocks[k] \in Blocks
    BY <1>1, <1>2 DEF Blocks
  <2>. QED BY <1>3, <2>1, <2>2 DEF Cells
<1>6. PoolAccounted
  BY <1>2, <1>4, <1>5 DEF PoolAccounted
<1>. QED BY <1>2, <1>6, CoreInvInit DEF PoolInv, StacksExclusive

\* Facts about a state that satisfies the invariant, used in every step.
LEMMA PoolFacts ==
    ASSUME PoolInv
    PROVE  /\ used \subseteq Slots
           /\ 0 \in used
           /\ cur \in used
           /\ stackBase \in [Slots -> Addresses \cup {NULL}]
           /\ freeBlocks \in Seq(Blocks)
           /\ NoDuplicates(freeBlocks)
           /\ \A p \in LiveUsers : stackBase[p] \in Addresses /\ p \in Slots /\ p # 0
           /\ \A p, q \in LiveUsers : stackBase[p] = stackBase[q] => p = q
           /\ \A b \in Blocks :
                 b \in Cells(freeBlocks) <=> \A p \in LiveUsers : stackBase[p] # IdxToPtr(b)
<1>1. /\ used \subseteq Slots
      /\ stackBase \in [Slots -> Addresses \cup {NULL}]
      /\ freeBlocks \in Seq(Blocks)
  BY DEF PoolInv, CoreInv, TypeOK
<1>2. 0 \in used /\ cur \in used
  BY DEF PoolInv, CoreInv, RunningIsLive
<1>3. \A p \in LiveUsers : p \in Slots /\ p # 0
  BY <1>1 DEF LiveUsers
<1>4. \A p \in LiveUsers : stackBase[p] \in Addresses
  BY <1>1, <1>3 DEF PoolInv, CoreInv, LiveHaveStacks
<1>5. \A p, q \in LiveUsers : stackBase[p] = stackBase[q] => p = q
  BY DEF PoolInv, StacksExclusive
<1>6. /\ NoDuplicates(freeBlocks)
      /\ Cells(freeBlocks) = {b \in Blocks : \A p \in LiveUsers : stackBase[p] # IdxToPtr(b)}
  BY DEF PoolInv, PoolAccounted
<1>. QED BY <1>1, <1>2, <1>3, <1>4, <1>5, <1>6

\* Distinct blocks have distinct addresses.
LEMMA AddressInjective ==
    ASSUME NEW b \in Blocks, NEW d \in Blocks, IdxToPtr(b) = IdxToPtr(d)
    PROVE  b = d
  BY BlockAddress

\* What a successful create does, in terms of slots and blocks.
LEMMA CreateEffect ==
    ASSUME PoolInv, Create
    PROVE  \E s \in Users \ used, b \in Blocks :
              /\ s \in Slots
              /\ \A p \in LiveUsers : stackBase[p] # IdxToPtr(b)
              /\ LiveUsers' = LiveUsers \cup {s}
              /\ stackBase' = [stackBase EXCEPT ![s] = IdxToPtr(b)]
              /\ NoDuplicates(freeBlocks')
              /\ Cells(freeBlocks') = Cells(freeBlocks) \ {b}
<1> DEFINE s == FirstFree
           b == Top(freeBlocks)
<1>1. s \in Users \ used
  BY FirstFreeIsFree DEF Create, FreeSlots
<1>2. s \in Slots /\ s # 0
  BY <1>1, SchedulerAssumption DEF Users, Slots
<1>3. used' = used \cup {s} /\ freeBlocks' = Pop(freeBlocks)
      /\ stackBase' = [stackBase EXCEPT ![s] = AllocatedPtr(freeBlocks)]
  BY DEF Create
<1>4. CanPop(freeBlocks)
  <2>1. CoreInv'
    BY CoreInvCreate DEF PoolInv
  <2>2. s \in LiveUsers'
    BY <1>2, <1>3 DEF LiveUsers
  <2>3. stackBase'[s] # NULL
    BY <2>1, <2>2 DEF CoreInv, LiveHaveStacks
  <2>4. stackBase'[s] = AllocatedPtr(freeBlocks)
    BY <1>2, <1>3, PoolFacts
  <2>. QED BY <2>3, <2>4 DEF AllocatedPtr
<1>5. /\ b \in Blocks
      /\ NoDuplicates(freeBlocks')
      /\ Cells(freeBlocks') = Cells(freeBlocks) \ {b}
      /\ b \in Cells(freeBlocks)
  BY <1>3, <1>4, PoolFacts, PopType, PopFresh
<1>6. AllocatedPtr(freeBlocks) = IdxToPtr(b)
  BY <1>4 DEF AllocatedPtr
<1>7. \A p \in LiveUsers : stackBase[p] # IdxToPtr(b)
  BY <1>5, PoolFacts
<1>8. LiveUsers' = LiveUsers \cup {s}
  BY <1>2, <1>3 DEF LiveUsers
<1>. QED BY <1>1, <1>2, <1>3, <1>5, <1>6, <1>7, <1>8

LEMMA PoolInvCreate == PoolInv /\ Create => PoolInv'
<1> SUFFICES ASSUME PoolInv, Create PROVE PoolInv'
  OBVIOUS
<1>1. PICK s \in Users \ used, b \in Blocks :
              /\ s \in Slots
              /\ \A p \in LiveUsers : stackBase[p] # IdxToPtr(b)
              /\ LiveUsers' = LiveUsers \cup {s}
              /\ stackBase' = [stackBase EXCEPT ![s] = IdxToPtr(b)]
              /\ NoDuplicates(freeBlocks')
              /\ Cells(freeBlocks') = Cells(freeBlocks) \ {b}
  BY CreateEffect
<1>2. CoreInv'
  BY CoreInvCreate DEF PoolInv
<1>3. s \notin LiveUsers /\ stackBase'[s] = IdxToPtr(b)
      /\ \A p \in LiveUsers : stackBase'[p] = stackBase[p]
  BY <1>1, PoolFacts DEF LiveUsers
<1>4. StacksExclusive'
  <2> SUFFICES ASSUME NEW p \in LiveUsers', NEW q \in LiveUsers',
                      stackBase'[p] = stackBase'[q]
               PROVE  p = q
    BY DEF StacksExclusive
  <2>. QED BY <1>1, <1>3, PoolFacts
<1>5. PoolAccounted'
  <2>1. Cells(freeBlocks') \subseteq Blocks
    BY <1>1, PoolFacts DEF PoolInv, PoolAccounted
  <2>2. ASSUME NEW d \in Blocks
        PROVE  d \in Cells(freeBlocks') <=> \A p \in LiveUsers' : stackBase'[p] # IdxToPtr(d)
    <3>1. CASE d = b
      BY <1>1, <1>3, <3>1
    <3>2. CASE d # b
      <4>1. IdxToPtr(d) # IdxToPtr(b)
        BY <3>2, AddressInjective
      <4>. QED BY <1>1, <1>3, <3>2, <4>1, PoolFacts
    <3>. QED BY <3>1, <3>2
  <2>. QED BY <1>1, <2>1, <2>2 DEF PoolAccounted
<1>. QED BY <1>2, <1>4, <1>5 DEF PoolInv

\* What killing a live user process does.
LEMMA KillEffect ==
    ASSUME PoolInv, NEW pid \in LiveUsers, KillProcess(pid), UNCHANGED stackBase
    PROVE  /\ used' = used \ {pid}
           /\ LiveUsers' = LiveUsers \ {pid}
           /\ NoDuplicates(freeBlocks')
           /\ Cells(freeBlocks') = Cells(freeBlocks) \cup {PtrToIdx(stackBase[pid])}
<1> DEFINE b == PtrToIdx(stackBase[pid])
<1>1. stackBase[pid] \in Addresses /\ pid # 0
  BY PoolFacts
<1>2. b \in Blocks /\ IdxToPtr(b) = stackBase[pid] /\ stackBase[pid] # NULL
  BY <1>1, AddressFacts
<1>3. b \notin Cells(freeBlocks)
  BY <1>2, PoolFacts
<1>4. used' = used \ {pid} /\ freeBlocks' = Push(freeBlocks, b, StackCount)
  BY <1>1, <1>2 DEF KillProcess, Freed
<1>5. CanPush(freeBlocks, StackCount)
  BY <1>2, <1>3, PoolFacts, SchedulerAssumption, RoomLeft DEF Blocks
<1>6. /\ NoDuplicates(freeBlocks')
      /\ Cells(freeBlocks') = Cells(freeBlocks) \cup {b}
  BY <1>2, <1>3, <1>4, <1>5, PoolFacts, SchedulerAssumption, PushFresh
<1>7. LiveUsers' = LiveUsers \ {pid}
  BY <1>4 DEF LiveUsers
<1>. QED BY <1>4, <1>6, <1>7

LEMMA BooksAfterKill ==
    ASSUME PoolInv, NEW pid \in used, KillProcess(pid), UNCHANGED stackBase
    PROVE  StacksExclusive' /\ PoolAccounted'
<1>1. CASE pid = 0
  <2>1. used' = used /\ freeBlocks' = freeBlocks /\ stackBase' = stackBase
    BY <1>1 DEF KillProcess
  <2>. QED BY <2>1 DEF PoolInv, StacksExclusive, PoolAccounted, LiveUsers
<1>2. CASE pid # 0
  <2> DEFINE b == PtrToIdx(stackBase[pid])
  <2>1. pid \in LiveUsers
    BY <1>2 DEF LiveUsers
  <2>2. /\ LiveUsers' = LiveUsers \ {pid}
        /\ NoDuplicates(freeBlocks')
        /\ Cells(freeBlocks') = Cells(freeBlocks) \cup {b}
        /\ stackBase' = stackBase
    BY <2>1, KillEffect
  <2>3. StacksExclusive'
    BY <2>2 DEF PoolInv, StacksExclusive
  <2>4. b \in Blocks /\ IdxToPtr(b) = stackBase[pid]
    BY <2>1, PoolFacts, AddressFacts
  <2>5. Cells(freeBlocks') \subseteq Blocks
    BY <2>2, <2>4 DEF PoolInv, PoolAccounted
  <2>6. ASSUME NEW d \in Blocks
        PROVE  d \in Cells(freeBlocks') <=> \A p \in LiveUsers' : stackBase'[p] # IdxToPtr(d)
    <3>1. CASE d = b
      BY <2>1, <2>2, <2>4, <3>1, PoolFacts
    <3>2. CASE d # b
      <4>1. stackBase[pid] # IdxToPtr(d)
        BY <2>4, <3>2, AddressInjective
      <4>. QED BY <2>2, <3>2, <4>1, PoolFacts
    <3>. QED BY <3>1, <3>2
  <2>7. PoolAccounted'
    BY <2>2, <2>5, <2>6 DEF PoolAccounted
  <2>. QED BY <2>3, <2>7
<1>. QED BY <1>1, <1>2

LEMMA PoolInvNext ==
    ASSUME KillsDead = FALSE
    PROVE  PoolInv /\ [Next]_vars => PoolInv'
<1> SUFFICES ASSUME PoolInv, [Next]_vars PROVE PoolInv'
  OBVIOUS
<1>1. CoreInv'
  BY CoreInvNext DEF PoolInv
<1>2. CASE Create
  BY <1>2, PoolInvCreate
<1>3. CASE UNCHANGED <<used, stackBase, freeBlocks>>
  BY <1>1, <1>3 DEF PoolInv, StacksExclusive, PoolAccounted, LiveUsers
<1>4. CASE CreateRefused
  BY <1>3, <1>4 DEF CreateRefused, vars
<1>5. ASSUME NEW pid \in Slots, Kill(pid) PROVE PoolInv'
  <2>1. pid \in used /\ KillProcess(pid) /\ UNCHANGED stackBase
    BY <1>5 DEF Kill
  <2>. QED BY <1>1, <2>1, BooksAfterKill DEF PoolInv
<1>6. CASE Yield
  BY <1>3, <1>6 DEF Yield
<1>7. CASE Exit
  <2>1. cur \in used
    BY PoolFacts
  <2>. QED BY <1>1, <1>7, <2>1, BooksAfterKill DEF PoolInv, Exit
<1>8. CASE UNCHANGED vars
  BY <1>3, <1>8 DEF vars
<1>. QED BY <1>2, <1>4, <1>5, <1>6, <1>7, <1>8 DEF Next

LEMMA PoolInvAlways ==
    ASSUME KillsDead = FALSE
    PROVE  Spec => []PoolInv
  BY PoolInvInit, PoolInvNext, PTL DEF Spec

\* If only live processes are killed, no two live processes ever share a
\* stack block.
THEOREM StacksAreExclusive ==
    ASSUME KillsDead = FALSE
    PROVE  Spec => []StacksExclusive
<1>1. PoolInv => StacksExclusive
  BY DEF PoolInv
<1>. QED BY <1>1, PoolInvAlways, PTL

\* If only live processes are killed, the free list is exactly the set of
\* blocks that no live process owns: none lost, none listed twice.
THEOREM PoolIsAccounted ==
    ASSUME KillsDead = FALSE
    PROVE  Spec => []PoolAccounted
<1>1. PoolInv => PoolAccounted
  BY DEF PoolInv
<1>. QED BY <1>1, PoolInvAlways, PTL

-----------------------------------------------------------------------------
(* The scheduler implements ProcessManager. *)

\* The refinement mapping of the live processes and their stacks.
StackOf == [p \in LiveUsers |-> stackBase[p]]

LEMMA ManagerInit == Init => Manager!Init
<1> SUFFICES ASSUME Init PROVE Manager!Init
  OBVIOUS
<1>1. LiveUsers = {} /\ cur = 0
  BY DEF Init, LiveUsers
<1>. QED BY <1>1 DEF Manager!Init

LEMMA ManagerCreate == PoolInv /\ Create => Manager!Next
<1> SUFFICES ASSUME PoolInv, Create PROVE Manager!Next
  OBVIOUS
<1>1. PICK s \in Users \ used, b \in Blocks :
              /\ s \in Slots
              /\ \A p \in LiveUsers : stackBase[p] # IdxToPtr(b)
              /\ LiveUsers' = LiveUsers \cup {s}
              /\ stackBase' = [stackBase EXCEPT ![s] = IdxToPtr(b)]
              /\ NoDuplicates(freeBlocks')
              /\ Cells(freeBlocks') = Cells(freeBlocks) \ {b}
  BY CreateEffect
<1>2. /\ s \notin LiveUsers
      /\ stackBase'[s] = IdxToPtr(b)
      /\ \A p \in LiveUsers : stackBase'[p] = stackBase[p]
  BY <1>1, PoolFacts DEF LiveUsers
<1>3. IdxToPtr(b) \in Addresses
  BY DEF Addresses
<1>4. StackOf' = [q \in LiveUsers \cup {s} |-> IF q = s THEN IdxToPtr(b) ELSE StackOf[q]]
  BY <1>1, <1>2 DEF StackOf
<1>5. DOMAIN StackOf = LiveUsers
  BY DEF StackOf
<1>6. Manager!Create(s, IdxToPtr(b))
  <2>1. cur = 0 /\ cur' = cur
    BY DEF Create
  <2>2. IdxToPtr(b) \notin {StackOf[p] : p \in LiveUsers}
    BY <1>1 DEF StackOf
  <2>. QED BY <1>1, <1>2, <1>3, <1>4, <1>5, <2>1, <2>2
           DEF Manager!Create, Manager!With, Manager!Live, Manager!Free, StackOf
<1>. QED BY <1>1, <1>3, <1>6 DEF Manager!Next

\* Killing a live process removes it from the mapping.
LEMMA ManagerWithout ==
    ASSUME PoolInv, NEW pid \in LiveUsers, KillProcess(pid), UNCHANGED stackBase
    PROVE  StackOf' = [q \in (DOMAIN StackOf) \ {pid} |-> StackOf[q]]
<1>1. LiveUsers' = LiveUsers \ {pid} /\ stackBase' = stackBase
  BY KillEffect
<1>. QED BY <1>1 DEF StackOf

LEMMA ManagerKill ==
    ASSUME KillsDead = FALSE, PoolInv, NEW pid \in Slots, Kill(pid)
    PROVE  [Manager!Next]_Manager!vars
<1>1. pid \in used /\ KillProcess(pid) /\ stackBase' = stackBase /\ cur = 0 /\ cur' = cur
  BY DEF Kill
<1>2. CASE pid = 0
  <2>1. used' = used
    BY <1>1, <1>2 DEF KillProcess
  <2>. QED BY <1>1, <2>1 DEF Manager!vars, LiveUsers
<1>3. CASE pid # 0
  <2>1. pid \in LiveUsers /\ pid \in Users
    BY <1>1, <1>3, SchedulerAssumption DEF LiveUsers, Slots, Users
  <2>2. StackOf' = [q \in (DOMAIN StackOf) \ {pid} |-> StackOf[q]]
    BY <1>1, <2>1, ManagerWithout
  <2>3. Manager!Kill(pid)
    BY <1>1, <2>1, <2>2 DEF Manager!Kill, Manager!Without, Manager!Live, StackOf
  <2>. QED BY <2>1, <2>3 DEF Manager!Next
<1>. QED BY <1>2, <1>3

LEMMA ManagerYield == PoolInv /\ Yield => Manager!Next
<1> SUFFICES ASSUME PoolInv, Yield PROVE Manager!Next
  OBVIOUS
<1>1. cur' \in used
  BY PoolFacts, NextUsedIsUsed DEF Yield
<1>2. cur' \in LiveUsers \cup {0}
  BY <1>1 DEF LiveUsers
<1>3. used' = used /\ stackBase' = stackBase
  BY DEF Yield
<1>. QED BY <1>2, <1>3 DEF Manager!Next, Manager!Switch, Manager!Live, LiveUsers

LEMMA ManagerExit == PoolInv /\ Exit => Manager!Next
<1> SUFFICES ASSUME PoolInv, Exit PROVE Manager!Next
  OBVIOUS
<1>1. KillProcess(cur) /\ cur' = NextUsed(cur, used') /\ stackBase' = stackBase
  BY DEF Exit
<1>2. cur \in used /\ cur \in Slots
  BY PoolFacts
<1>3. cur' \in used'
  <2>1. used' \subseteq Slots /\ 0 \in used'
    BY <1>1, <1>2, CoreInvKillProcess DEF PoolInv
  <2>. QED BY <1>1, <1>2, <2>1, NextUsedIsUsed
<1>4. CASE cur = 0
  <2>1. used' = used
    BY <1>1, <1>4 DEF KillProcess
  <2>. QED BY <1>1, <1>3, <2>1 DEF Manager!Next, Manager!Switch, Manager!Live, LiveUsers
<1>5. CASE cur # 0
  <2>1. cur \in LiveUsers
    BY <1>2, <1>5 DEF LiveUsers
  <2>2. StackOf' = [q \in (DOMAIN StackOf) \ {cur} |-> StackOf[q]]
    BY <1>1, <2>1, ManagerWithout
  <2>3. used' = used \ {cur}
    BY <1>1, <1>5 DEF KillProcess
  <2>4. cur' \in (LiveUsers \ {cur}) \cup {0}
    BY <1>3, <2>3 DEF LiveUsers
  <2>. QED BY <2>1, <2>2, <2>4
           DEF Manager!Next, Manager!Exit, Manager!Without, Manager!Live, StackOf
<1>. QED BY <1>4, <1>5

\* If only live processes are killed, the process table, the round robin and
\* the stack pool together implement the process manager: every process has
\* a stack of its own from its creation to its end.
THEOREM ManagerImplemented ==
    ASSUME KillsDead = FALSE
    PROVE  Spec => ImplementsManager
<1>1. PoolInv /\ [Next]_vars => [Manager!Next]_Manager!vars
  <2> SUFFICES ASSUME PoolInv, [Next]_vars PROVE [Manager!Next]_Manager!vars
    OBVIOUS
  <2>1. CASE Create
    BY <2>1, ManagerCreate
  <2>2. CASE UNCHANGED vars
    BY <2>2 DEF vars, Manager!vars, LiveUsers
  <2>3. CASE CreateRefused
    BY <2>2, <2>3 DEF CreateRefused
  <2>4. ASSUME NEW pid \in Slots, Kill(pid) PROVE [Manager!Next]_Manager!vars
    BY <2>4, ManagerKill
  <2>5. CASE Yield
    BY <2>5, ManagerYield
  <2>6. CASE Exit
    BY <2>6, ManagerExit
  <2>. QED BY <2>1, <2>2, <2>3, <2>4, <2>5, <2>6 DEF Next
<1>. QED BY <1>1, ManagerInit, PoolInvAlways, PTL DEF Spec, ImplementsManager, Manager!Spec


-----------------------------------------------------------------------------
(* Machines.  No word that is pushed is junk. *)

Kinds ==
    {"number", "process_ctx", "local", "eflags", "eax", "edx", "rest",
     "entry", "run", "afterSwitch", "afterInt",
     "syscall_entry_point_asm", "schedule_in_irq_context"}

Words    == Kinds \X Int \X Int
Pointers == [stack : Stacks, depth : Nat]
CPUs     == [sp : Pointers, ip : Words, flags : Words, ax : Words, dx : Words, rest : Words]
Memories == [Stacks -> Seq(Words)]
Machines == [cpu : CPUs, mem : Memories]
Contexts == [Slots -> CPUs]

\* The stack pointer points behind the last live word.
Balanced(m) == m.cpu.sp.depth = Len(StackAt(m))

LEMMA WordsAreNotJunk == Junk \notin Words
  BY DEF Junk, Words, Kinds

LEMMA StackType ==
    ASSUME NEW m \in Machines
    PROVE  /\ m.cpu \in CPUs /\ m.mem \in Memories
           /\ m.cpu.sp \in Pointers
           /\ m.cpu.sp.stack \in Stacks /\ m.cpu.sp.depth \in Nat
           /\ StackAt(m) \in Seq(Words) /\ Len(StackAt(m)) \in Nat
  BY DEF Machines, CPUs, Memories, Pointers, StackAt

\* push appends to the stack and moves the pointer along.
LEMMA PushEffect ==
    ASSUME NEW m \in Machines, NEW ws \in Seq(Words)
    PROVE  /\ PushWords(m, ws) \in Machines
           /\ PushWords(m, ws).cpu = [m.cpu EXCEPT !.sp = SP(@.stack, @.depth + Len(ws))]
           /\ PushWords(m, ws).mem = [m.mem EXCEPT ![m.cpu.sp.stack] = @ \o ws]
           /\ StackAt(PushWords(m, ws)) = StackAt(m) \o ws
           /\ Balanced(m) => Balanced(PushWords(m, ws))
<1> DEFINE n == PushWords(m, ws)
<1>1. /\ m.cpu \in CPUs /\ m.mem \in Memories
      /\ m.cpu.sp.stack \in Stacks /\ m.cpu.sp.depth \in Nat
      /\ StackAt(m) \in Seq(Words)
      /\ Len(ws) \in Nat /\ Len(StackAt(m)) \in Nat
  BY StackType
<1>2. n.mem = [m.mem EXCEPT ![m.cpu.sp.stack] = @ \o ws]
  BY DEF PushWords, Machines
<1>3. n.cpu = [m.cpu EXCEPT !.sp = SP(@.stack, @.depth + Len(ws))]
  <2>1. [m.cpu.sp EXCEPT !.depth = @ + Len(ws)] = SP(m.cpu.sp.stack, m.cpu.sp.depth + Len(ws))
    BY StackType DEF SP, Pointers
  <2>2. n.cpu = [m.cpu EXCEPT !.sp = [m.cpu.sp EXCEPT !.depth = @ + Len(ws)]]
    BY DEF PushWords, Machines
  <2>. QED BY <2>1, <2>2
<1>4. SP(m.cpu.sp.stack, m.cpu.sp.depth + Len(ws)) \in Pointers
  BY <1>1 DEF SP, Pointers
<1>5. n.cpu \in CPUs
  BY <1>1, <1>3, <1>4 DEF CPUs
<1>6. StackAt(m) \o ws \in Seq(Words)
  BY <1>1, ConcatProperties
<1>7. n.mem \in Memories
  BY <1>1, <1>2, <1>6 DEF Memories, StackAt
<1>8. n \in Machines
  BY <1>5, <1>7 DEF Machines, PushWords
<1>9. n.cpu.sp = SP(m.cpu.sp.stack, m.cpu.sp.depth + Len(ws))
  BY <1>1, <1>3 DEF CPUs
<1>10. StackAt(n) = StackAt(m) \o ws
  <2>1. n.cpu.sp.stack = m.cpu.sp.stack
    BY <1>9 DEF SP
  <2>2. n.mem[m.cpu.sp.stack] = m.mem[m.cpu.sp.stack] \o ws
    BY <1>1, <1>2 DEF Memories
  <2> HIDE DEF n
  <2>. QED BY <2>1, <2>2 DEF StackAt
<1>11. Balanced(m) => Balanced(n)
  BY <1>1, <1>9, <1>10, ConcatProperties DEF Balanced, SP
<1>. QED BY <1>2, <1>3, <1>8, <1>10, <1>11

LEMMA PushWordIsPushWords ==
    ASSUME NEW m \in Machines, NEW w \in Words
    PROVE  PushWord(m, w) = PushWords(m, <<w>>)
<1>1. StackAt(m) \in Seq(Words) /\ Append(StackAt(m), w) = StackAt(m) \o <<w>>
  BY StackType, AppendIsConcat
<1>2. Len(<<w>>) = 1
  OBVIOUS
<1>. QED BY <1>1, <1>2 DEF PushWord, PushWords, StackAt

\* Moving the pointer cuts the stack there.
LEMMA MoveEffect ==
    ASSUME NEW m \in Machines, NEW sp \in Pointers, sp.depth <= Len(m.mem[sp.stack])
    PROVE  /\ MoveSP(m, sp) \in Machines
           /\ MoveSP(m, sp).cpu = [m.cpu EXCEPT !.sp = sp]
           /\ MoveSP(m, sp).mem = [m.mem EXCEPT ![sp.stack] = SubSeq(@, 1, sp.depth)]
           /\ Balanced(MoveSP(m, sp))
<1> DEFINE n == MoveSP(m, sp)
           s == m.mem[sp.stack]
<1>1. /\ m.cpu \in CPUs /\ m.mem \in Memories
      /\ sp.stack \in Stacks /\ sp.depth \in Nat
      /\ s \in Seq(Words) /\ Len(s) \in Nat
  BY StackType DEF Memories, Pointers
<1>2. [k \in 1..sp.depth |-> WordAt(s, k)] = SubSeq(s, 1, sp.depth)
  <2>1. \A k \in 1..sp.depth : WordAt(s, k) = s[k] /\ s[k] \in Words
    BY <1>1 DEF WordAt
  <2>2. /\ [k \in 1..sp.depth |-> WordAt(s, k)] \in Seq(Words)
        /\ Len([k \in 1..sp.depth |-> WordAt(s, k)]) = sp.depth
    BY <1>1, <2>1
  <2>3. /\ SubSeq(s, 1, sp.depth) \in Seq(Words)
        /\ Len(SubSeq(s, 1, sp.depth)) = sp.depth
        /\ \A k \in 1..sp.depth : SubSeq(s, 1, sp.depth)[k] = s[k]
    BY <1>1, PrefixOfSeq
  <2>. QED BY <2>1, <2>2, <2>3, SeqEqual
<1>3. n.mem = [m.mem EXCEPT ![sp.stack] = SubSeq(@, 1, sp.depth)]
  BY <1>2 DEF MoveSP, Machines
<1>4. n.cpu = [m.cpu EXCEPT !.sp = sp]
  BY DEF MoveSP, Machines
<1>6. n.cpu \in CPUs /\ n.cpu.sp = sp
  BY <1>1, <1>4 DEF CPUs
<1>7. SubSeq(s, 1, sp.depth) \in Seq(Words) /\ Len(SubSeq(s, 1, sp.depth)) = sp.depth
  BY <1>1, PrefixOfSeq
<1>8. n.mem \in Memories /\ n.mem[sp.stack] = SubSeq(s, 1, sp.depth)
  BY <1>1, <1>3, <1>7 DEF Memories
<1>9. n \in Machines
  BY <1>6, <1>8 DEF Machines, MoveSP
<1>. QED BY <1>3, <1>4, <1>6, <1>7, <1>8, <1>9 DEF Balanced, StackAt

\* [esp + 4*k] after a push: the words pushed, and below them what was there.
LEMMA PushedWords ==
    ASSUME NEW m \in Machines, Balanced(m), NEW ws \in Seq(Words)
    PROVE  /\ \A k \in 0..(Len(ws) - 1) : Word(PushWords(m, ws), k) = ws[Len(ws) - k]
           /\ \A k \in Nat : k >= Len(ws) => Word(PushWords(m, ws), k) = Word(m, k - Len(ws))
<1> DEFINE n == PushWords(m, ws)
           s == StackAt(m)
<1>1. s \in Seq(Words) /\ Len(s) \in Nat /\ Len(ws) \in Nat /\ m.cpu.sp.depth = Len(s)
  BY StackType DEF Balanced
<1>2. /\ Len(s \o ws) = Len(s) + Len(ws)
      /\ \A i \in 1..(Len(s) + Len(ws)) :
            (s \o ws)[i] = IF i <= Len(s) THEN s[i] ELSE ws[i - Len(s)]
  BY <1>1, ConcatProperties
<1>3. StackAt(n) = s \o ws /\ n.cpu.sp.depth = Len(s) + Len(ws)
  BY <1>1, <1>2, PushEffect DEF Balanced
<1>4. \A k \in Nat : Word(n, k) = WordAt(s \o ws, Len(s) + Len(ws) - k)
  BY <1>3 DEF Word
<1>5. \A k \in Nat : Word(m, k) = WordAt(s, Len(s) - k)
  BY <1>1 DEF Word
<1>6. ASSUME NEW k \in 0..(Len(ws) - 1) PROVE Word(n, k) = ws[Len(ws) - k]
  <2>1. /\ Len(s) + Len(ws) - k \in 1..(Len(s) + Len(ws))
        /\ ~ (Len(s) + Len(ws) - k <= Len(s))
        /\ Len(s) + Len(ws) - k - Len(s) = Len(ws) - k
        /\ k \in Nat
    BY <1>1
  <2>2. Word(n, k) = (s \o ws)[Len(s) + Len(ws) - k]
    BY <1>2, <1>4, <2>1 DEF WordAt
  <2>. QED BY <1>2, <2>1, <2>2
<1>7. ASSUME NEW k \in Nat, k >= Len(ws) PROVE Word(n, k) = Word(m, k - Len(ws))
  <2> DEFINE i == Len(s) + Len(ws) - k
  <2>1. i \in Int /\ i <= Len(s) /\ Len(s) - (k - Len(ws)) = i /\ k - Len(ws) \in Nat
    BY <1>1, <1>7
  <2>2. Word(n, k) = WordAt(s \o ws, i) /\ Word(m, k - Len(ws)) = WordAt(s, i)
    BY <1>4, <1>5, <2>1
  <2>3. i \in 1..Len(s) <=> i \in 1..(Len(s) + Len(ws))
    BY <1>1, <2>1
  <2> HIDE DEF i
  <2>. QED BY <1>2, <2>1, <2>2, <2>3 DEF WordAt
<1>. QED BY <1>6, <1>7

\* Cutting off the words appended last.
LEMMA CutConcat ==
    ASSUME NEW s \in Seq(Words), NEW ws \in Seq(Words)
    PROVE  SubSeq(s \o ws, 1, Len(s)) = s
<1>1. /\ s \o ws \in Seq(Words) /\ Len(s \o ws) = Len(s) + Len(ws)
      /\ Len(s) \in Nat /\ Len(ws) \in Nat
      /\ \A k \in 1..Len(s) : (s \o ws)[k] = s[k]
  BY ConcatProperties
<1>2. /\ SubSeq(s \o ws, 1, Len(s)) \in Seq(Words)
      /\ Len(SubSeq(s \o ws, 1, Len(s))) = Len(s)
      /\ \A k \in 1..Len(s) : SubSeq(s \o ws, 1, Len(s))[k] = (s \o ws)[k]
  BY <1>1, PrefixOfSeq
<1>. QED BY <1>1, <1>2, SeqEqual

\* pop drops the words on top and nothing else.
LEMMA DropEffect ==
    ASSUME NEW m \in Machines, Balanced(m), NEW k \in 0..Len(StackAt(m))
    PROVE  /\ Drop(m, k) \in Machines
           /\ Drop(m, k).cpu = [m.cpu EXCEPT !.sp = SP(m.cpu.sp.stack, m.cpu.sp.depth - k)]
           /\ Drop(m, k).mem = [m.mem EXCEPT ![m.cpu.sp.stack] =
                                   SubSeq(StackAt(m), 1, m.cpu.sp.depth - k)]
           /\ Balanced(Drop(m, k))
<1> DEFINE sp == SP(m.cpu.sp.stack, m.cpu.sp.depth - k)
<1>1. /\ m.cpu.sp.stack \in Stacks /\ m.cpu.sp.depth = Len(StackAt(m))
      /\ Len(StackAt(m)) \in Nat
  BY StackType DEF Balanced
<1>2. sp \in Pointers /\ sp.stack = m.cpu.sp.stack /\ sp.depth = m.cpu.sp.depth - k
  BY <1>1 DEF SP, Pointers
<1>3. sp.depth <= Len(m.mem[sp.stack]) /\ m.mem[sp.stack] = StackAt(m)
  <2> HIDE DEF sp
  <2>1. m.mem[sp.stack] = StackAt(m)
    BY <1>2 DEF StackAt
  <2>2. sp.depth <= Len(StackAt(m))
    BY <1>1, <1>2
  <2>. QED BY <2>1, <2>2
<1>4. Drop(m, k) = MoveSP(m, sp)
  BY DEF Drop, Rewound
<1> HIDE DEF sp
<1>5. /\ MoveSP(m, sp) \in Machines
      /\ MoveSP(m, sp).cpu = [m.cpu EXCEPT !.sp = sp]
      /\ MoveSP(m, sp).mem = [m.mem EXCEPT ![sp.stack] = SubSeq(m.mem[sp.stack], 1, sp.depth)]
      /\ Balanced(MoveSP(m, sp))
  BY <1>2, <1>3, MoveEffect
<1>. QED BY <1>2, <1>3, <1>4, <1>5 DEF sp

\* Popping what was pushed: the machine is as before.
LEMMA PushThenDrop ==
    ASSUME NEW m \in Machines, Balanced(m), NEW ws \in Seq(Words)
    PROVE  /\ Drop(PushWords(m, ws), Len(ws)) \in Machines
           /\ Drop(PushWords(m, ws), Len(ws)).cpu = m.cpu
           /\ Drop(PushWords(m, ws), Len(ws)).mem = m.mem
<1> DEFINE n == PushWords(m, ws)
           d == Drop(n, Len(ws))
<1>1. /\ m.cpu \in CPUs /\ m.cpu.sp \in Pointers /\ m.mem \in Memories
      /\ m.cpu.sp.stack \in Stacks /\ m.cpu.sp.depth = Len(StackAt(m))
      /\ StackAt(m) \in Seq(Words) /\ Len(StackAt(m)) \in Nat /\ Len(ws) \in Nat
  BY StackType DEF Balanced
<1>2. /\ n \in Machines /\ Balanced(n) /\ StackAt(n) = StackAt(m) \o ws
      /\ n.cpu = [m.cpu EXCEPT !.sp = SP(m.cpu.sp.stack, m.cpu.sp.depth + Len(ws))]
      /\ n.mem = [m.mem EXCEPT ![m.cpu.sp.stack] = m.mem[m.cpu.sp.stack] \o ws]
  BY PushEffect
<1>3. Len(StackAt(m) \o ws) = Len(StackAt(m)) + Len(ws)
  BY <1>1, ConcatProperties
<1>4. n.cpu.sp.stack = m.cpu.sp.stack /\ n.cpu.sp.depth - Len(ws) = Len(StackAt(m))
  BY <1>1, <1>2 DEF CPUs, SP
<1>5. Len(ws) \in 0..Len(StackAt(n))
  BY <1>1, <1>2, <1>3
<1>6. /\ d \in Machines
      /\ d.cpu = [n.cpu EXCEPT !.sp = SP(m.cpu.sp.stack, Len(StackAt(m)))]
      /\ d.mem = [n.mem EXCEPT ![m.cpu.sp.stack] = SubSeq(StackAt(m) \o ws, 1, Len(StackAt(m)))]
  <2> HIDE DEF n
  <2>1. /\ d \in Machines
        /\ d.cpu = [n.cpu EXCEPT !.sp = SP(n.cpu.sp.stack, n.cpu.sp.depth - Len(ws))]
        /\ d.mem = [n.mem EXCEPT ![n.cpu.sp.stack] =
                      SubSeq(StackAt(n), 1, n.cpu.sp.depth - Len(ws))]
    BY <1>2, <1>5, DropEffect
  <2>. QED BY <1>2, <1>4, <2>1
<1>7. SP(m.cpu.sp.stack, Len(StackAt(m))) = m.cpu.sp
  BY <1>1 DEF SP, Pointers
<1>8. d.cpu = m.cpu
  <2>1. d.cpu = [m.cpu EXCEPT !.sp = m.cpu.sp]
    BY <1>1, <1>2, <1>6, <1>7 DEF CPUs
  <2>. QED BY <1>1, <2>1 DEF CPUs
<1>9. d.mem = m.mem
  <2>1. d.mem = [n.mem EXCEPT ![m.cpu.sp.stack] = m.mem[m.cpu.sp.stack]]
    BY <1>1, <1>6, CutConcat DEF StackAt
  <2>. QED BY <1>1, <1>2, <2>1 DEF Memories
<1>. QED BY <1>6, <1>8, <1>9

-----------------------------------------------------------------------------
(* Leaving a process and resuming one. *)

\* The stack pointer of a context points behind the last live word.
Fits(c, memory) == c.sp.depth = Len(memory[c.sp.stack])

\* On the new stack: every register but eip is the context's.
LEMMA LoadedAndMoved ==
    ASSUME NEW m \in Machines, NEW c \in CPUs, Fits(c, m.mem)
    PROVE  /\ MoveSP(Loaded(m, c), c.sp) \in Machines
           /\ Balanced(MoveSP(Loaded(m, c), c.sp))
           /\ MoveSP(Loaded(m, c), c.sp).cpu = [c EXCEPT !.ip = m.cpu.ip]
           /\ MoveSP(Loaded(m, c), c.sp).mem = m.mem
<1> DEFINE l == Loaded(m, c)
<1>1. m.cpu \in CPUs /\ m.mem \in Memories /\ c.sp \in Pointers /\ c.sp.stack \in Stacks
  BY StackType DEF CPUs, Pointers
<1>2. l.cpu = [m.cpu EXCEPT !.flags = c.flags, !.ax = c.ax, !.dx = c.dx, !.rest = c.rest]
  BY DEF Loaded, Machines
<1>3. l.cpu \in CPUs
  BY <1>1, <1>2 DEF CPUs
<1>4. l \in Machines /\ l.mem = m.mem
  BY <1>1, <1>3 DEF Loaded, Machines
<1> HIDE DEF l
<1>5. m.mem[c.sp.stack] \in Seq(Words) /\ c.sp.depth = Len(m.mem[c.sp.stack])
  BY <1>1 DEF Memories, Fits
<1>6. SubSeq(m.mem[c.sp.stack], 1, c.sp.depth) = m.mem[c.sp.stack]
  <2> DEFINE t == m.mem[c.sp.stack]
  <2>1. Len(t) \in Nat /\ Len(t) <= Len(t)
    BY <1>5
  <2>2. /\ SubSeq(t, 1, Len(t)) \in Seq(Words) /\ Len(SubSeq(t, 1, Len(t))) = Len(t)
        /\ \A k \in 1..Len(t) : SubSeq(t, 1, Len(t))[k] = t[k]
    BY <1>5, <2>1, PrefixOfSeq
  <2>. QED BY <1>5, <2>2, SeqEqual
<1>7. /\ MoveSP(l, c.sp) \in Machines
      /\ MoveSP(l, c.sp).cpu = [l.cpu EXCEPT !.sp = c.sp]
      /\ MoveSP(l, c.sp).mem = [l.mem EXCEPT ![c.sp.stack] = SubSeq(l.mem[c.sp.stack], 1, c.sp.depth)]
      /\ Balanced(MoveSP(l, c.sp))
  <2>1. c.sp.depth <= Len(l.mem[c.sp.stack])
    BY <1>1, <1>4, <1>5 DEF Pointers
  <2>. QED BY <1>1, <1>4, <2>1, MoveEffect
<1>8. MoveSP(l, c.sp).mem = m.mem
  BY <1>1, <1>4, <1>6, <1>7 DEF Memories
<1>9. MoveSP(l, c.sp).cpu = [c EXCEPT !.ip = m.cpu.ip]
  BY <1>1, <1>2, <1>7 DEF CPUs
<1>. QED BY <1>7, <1>8, <1>9 DEF l

\* switch_process ends with exactly the registers and the memory of the
\* process it resumes.
LEMMA RestoredByCallExactly ==
    ASSUME NEW m \in Machines, NEW c \in CPUs, Fits(c, m.mem)
    PROVE  RestoredByCall(m, c).cpu = c /\ RestoredByCall(m, c).mem = m.mem
<1> DEFINE x == MoveSP(Loaded(m, c), c.sp)
           y == PushWords(x, <<c.ip>>)
<1>1. /\ x \in Machines /\ Balanced(x)
      /\ x.cpu = [c EXCEPT !.ip = m.cpu.ip] /\ x.mem = m.mem
  BY LoadedAndMoved
<1>2. c.ip \in Words /\ <<c.ip>> \in Seq(Words) /\ Len(<<c.ip>>) = 1 /\ <<c.ip>>[1] = c.ip
  BY DEF CPUs
<1> HIDE DEF x
<1>3. PushWord(x, c.ip) = y
  BY <1>1, <1>2, PushWordIsPushWords
<1>4. /\ Drop(y, 1) \in Machines
      /\ Drop(y, 1).cpu = x.cpu
      /\ Drop(y, 1).mem = x.mem
  BY <1>1, <1>2, PushThenDrop
<1>5. Word(y, 0) = c.ip
  <2> DEFINE ws == <<c.ip>>
  <2>1. 0 \in 0..(Len(ws) - 1) /\ Len(ws) - 0 = 1 /\ ws \in Seq(Words) /\ ws[1] = c.ip
    BY <1>2
  <2>2. y = PushWords(x, ws)
    OBVIOUS
  <2> HIDE DEF ws, y
  <2>3. \A k \in 0..(Len(ws) - 1) : Word(y, k) = ws[Len(ws) - k]
    BY <1>1, <2>1, <2>2, PushedWords
  <2>. QED BY <2>1, <2>3
<1> HIDE DEF y
<1>6. RestoredByCall(m, c) = [Drop(y, 1) EXCEPT !.cpu.ip = c.ip]
  BY <1>3, <1>5 DEF RestoredByCall, Ret, x
<1>7. /\ RestoredByCall(m, c).cpu = [Drop(y, 1).cpu EXCEPT !.ip = c.ip]
      /\ RestoredByCall(m, c).mem = Drop(y, 1).mem
  BY <1>4, <1>6 DEF Machines
<1>8. [[c EXCEPT !.ip = m.cpu.ip] EXCEPT !.ip = c.ip] = c
  BY DEF CPUs
<1>. QED BY <1>1, <1>4, <1>7, <1>8

\* So does switch_process_in_irq.
LEMMA RestoredByIRQExactly ==
    ASSUME NEW m \in Machines, NEW c \in CPUs, Fits(c, m.mem)
    PROVE  RestoredByIRQ(m, c).cpu = c /\ RestoredByIRQ(m, c).mem = m.mem
<1> DEFINE old == [c EXCEPT !.flags = m.cpu.flags]
           x == MoveSP(Loaded(m, old), c.sp)
           ws == <<c.flags, KernelCS, c.ip>>
           y == PushWords(x, ws)
<1>1. m.cpu \in CPUs /\ old \in CPUs /\ old.sp = c.sp
  BY StackType DEF CPUs
<1>2. Fits(old, m.mem)
  BY <1>1 DEF Fits
<1>3. /\ x \in Machines /\ Balanced(x)
      /\ x.cpu = [old EXCEPT !.ip = m.cpu.ip] /\ x.mem = m.mem
  <2> HIDE DEF old
  <2>. QED BY <1>1, <1>2, LoadedAndMoved
<1>4. c.ip \in Words /\ c.flags \in Words /\ KernelCS \in Words
  BY DEF CPUs, KernelCS, Number, Words, Kinds
<1>5. ws \in Seq(Words) /\ Len(ws) = 3 /\ ws[1] = c.flags /\ ws[3] = c.ip
  BY <1>4
<1> HIDE DEF x, ws
<1>6. /\ Drop(y, 3) \in Machines
      /\ Drop(y, 3).cpu = x.cpu
      /\ Drop(y, 3).mem = x.mem
  <2>1. /\ Drop(y, Len(ws)) \in Machines
        /\ Drop(y, Len(ws)).cpu = x.cpu
        /\ Drop(y, Len(ws)).mem = x.mem
    BY <1>3, <1>5, PushThenDrop
  <2>. QED BY <1>5, <2>1
<1>7. Word(y, 0) = c.ip /\ Word(y, 2) = c.flags
  <2>1. /\ 0 \in 0..(Len(ws) - 1) /\ Len(ws) - 0 = 3
        /\ 2 \in 0..(Len(ws) - 1) /\ Len(ws) - 2 = 1
    BY <1>5
  <2>2. \A k \in 0..(Len(ws) - 1) : Word(y, k) = ws[Len(ws) - k]
    BY <1>3, <1>5, PushedWords
  <2>. QED BY <1>5, <2>1, <2>2
<1> HIDE DEF y
<1>8. RestoredByIRQ(m, c) = [Drop(y, 3) EXCEPT !.cpu.ip = c.ip, !.cpu.flags = c.flags]
  BY <1>7 DEF RestoredByIRQ, IRet, x, y, ws
<1>9. /\ RestoredByIRQ(m, c).cpu = [Drop(y, 3).cpu EXCEPT !.ip = c.ip, !.flags = c.flags]
      /\ RestoredByIRQ(m, c).mem = Drop(y, 3).mem
  BY <1>6, <1>8 DEF Machines
<1>10. [[old EXCEPT !.ip = m.cpu.ip] EXCEPT !.ip = c.ip, !.flags = c.flags] = c
  BY DEF CPUs
<1>. QED BY <1>3, <1>6, <1>9, <1>10

\* Suspending cuts the stack back to the saved esp.
LEMMA SuspendedEffect ==
    ASSUME NEW m \in Machines, Balanced(m), NEW ws \in Seq(Words)
    PROVE  /\ Suspended(PushWords(m, ws), m.cpu.sp) \in Machines
           /\ Suspended(PushWords(m, ws), m.cpu.sp).mem = m.mem
<1> DEFINE n == PushWords(m, ws)
<1>1. /\ n \in Machines /\ m.cpu.sp \in Pointers /\ Len(ws) \in Nat
      /\ n.cpu = [m.cpu EXCEPT !.sp = SP(m.cpu.sp.stack, m.cpu.sp.depth + Len(ws))]
      /\ m.cpu \in CPUs
  <2>1. /\ n \in Machines
        /\ n.cpu = [m.cpu EXCEPT !.sp = SP(m.cpu.sp.stack, m.cpu.sp.depth + Len(ws))]
    BY PushEffect
  <2>. QED BY <2>1, StackType
<1> HIDE DEF n
<1>2. n.cpu.sp = SP(m.cpu.sp.stack, m.cpu.sp.depth + Len(ws))
  BY <1>1 DEF CPUs
<1>3. Rewound(n, Len(ws)) = m.cpu.sp
  BY <1>1, <1>2 DEF Rewound, SP, Pointers
<1>4. MoveSP(n, m.cpu.sp).mem = m.mem
  BY <1>3, PushThenDrop DEF Drop, n
<1>5. Suspended(n, m.cpu.sp).mem = MoveSP(n, m.cpu.sp).mem
  BY <1>1 DEF Suspended, MoveSP, Machines
<1>6. Suspended(n, m.cpu.sp) \in Machines
  <2>1. Suspended(n, m.cpu.sp).cpu = n.cpu /\ n.cpu \in CPUs /\ m.mem \in Memories
    BY <1>1, StackType DEF Suspended, Machines
  <2>. QED BY <1>1, <1>4, <1>5, <2>1 DEF Suspended, Machines
<1>. QED BY <1>4, <1>5, <1>6 DEF n

LEMMA PointerToProcess == \A p : ProcPtr(p)[2] = p
  BY DEF ProcPtr

\* switch_process, called with pointers to two processes on top of the stack:
\* the first is suspended as it is, to go on behind the call, and the second
\* is resumed as it was saved.  No other saved context and no word below the
\* frame of the call changes.
LEMMA SwitchByCallEffect ==
    ASSUME NEW m \in Machines, Balanced(m), NEW after \in Words,
           NEW from \in Slots, NEW to \in Slots, from # to,
           Word(m, 0) = ProcPtr(from), Word(m, 1) = ProcPtr(to),
           NEW ctxs \in Contexts, Fits(ctxs[to], m.mem)
    PROVE  /\ SwitchByCall(PushWord(m, after), ctxs).machine.cpu = ctxs[to]
           /\ SwitchByCall(PushWord(m, after), ctxs).machine.mem = m.mem
           /\ SwitchByCall(PushWord(m, after), ctxs).ctx =
                 [ctxs EXCEPT ![from] = [m.cpu EXCEPT !.ip = after]]
<1> DEFINE ws == <<after>>
           n  == PushWords(m, ws)
           fs == <<n.cpu.flags, n.cpu.ax>>
           f  == PushWords(n, fs)
<1>1. /\ m.cpu \in CPUs /\ m.cpu.sp \in Pointers /\ m.cpu.sp.depth \in Nat
      /\ ws \in Seq(Words) /\ Len(ws) = 1 /\ ws[1] = after
  BY StackType
<1>2. PushWord(m, after) = n
  BY PushWordIsPushWords
<1> HIDE DEF ws
<1>3. /\ n \in Machines /\ Balanced(n) /\ n.cpu \in CPUs
      /\ n.cpu = [m.cpu EXCEPT !.sp = SP(m.cpu.sp.stack, m.cpu.sp.depth + 1)]
  <2>1. /\ n \in Machines /\ Balanced(n)
        /\ n.cpu = [m.cpu EXCEPT !.sp = SP(m.cpu.sp.stack, m.cpu.sp.depth + Len(ws))]
    BY <1>1, PushEffect
  <2>2. n.cpu \in CPUs
    BY <2>1 DEF Machines
  <2>. QED BY <1>1, <2>1, <2>2
<1>4. /\ Word(n, 0) = after /\ Word(n, 1) = ProcPtr(from) /\ Word(n, 2) = ProcPtr(to)
  <2>1. /\ \A k \in 0..(Len(ws) - 1) : Word(n, k) = ws[Len(ws) - k]
        /\ \A k \in Nat : k >= Len(ws) => Word(n, k) = Word(m, k - Len(ws))
    BY <1>1, PushedWords
  <2>. QED BY <1>1, <2>1
<1> HIDE DEF n
<1>5. /\ fs \in Seq(Words) /\ Len(fs) = 2
      /\ fs[1] = m.cpu.flags /\ fs[2] = m.cpu.ax
  BY <1>1, <1>3 DEF CPUs
<1> HIDE DEF fs
<1>6. /\ f \in Machines /\ f.cpu = [n.cpu EXCEPT !.sp = SP(n.cpu.sp.stack, n.cpu.sp.depth + 2)]
  <2>1. /\ f \in Machines
        /\ f.cpu = [n.cpu EXCEPT !.sp = SP(n.cpu.sp.stack, n.cpu.sp.depth + Len(fs))]
    BY <1>3, <1>5, PushEffect
  <2>. QED BY <1>5, <2>1
<1>7. /\ Word(f, 0) = m.cpu.ax /\ Word(f, 1) = m.cpu.flags /\ Word(f, 2) = after
      /\ Word(f, 3) = ProcPtr(from) /\ Word(f, 4) = ProcPtr(to)
  <2>1. /\ \A k \in 0..(Len(fs) - 1) : Word(f, k) = fs[Len(fs) - k]
        /\ \A k \in Nat : k >= Len(fs) => Word(f, k) = Word(n, k - Len(fs))
    BY <1>3, <1>5, PushedWords
  <2>2. Word(f, 0) = fs[2] /\ Word(f, 1) = fs[1]
    BY <1>5, <2>1
  <2>3. Word(f, 2) = Word(n, 0) /\ Word(f, 3) = Word(n, 1) /\ Word(f, 4) = Word(n, 2)
    BY <1>5, <2>1
  <2>. QED BY <1>4, <1>5, <2>2, <2>3
<1> HIDE DEF f
<1>8. f.cpu.sp = SP(m.cpu.sp.stack, m.cpu.sp.depth + 3)
      /\ f.cpu.dx = m.cpu.dx /\ f.cpu.rest = m.cpu.rest
  BY <1>1, <1>3, <1>6 DEF CPUs, SP
<1>9. Rewound(f, 3) = m.cpu.sp
  BY <1>1, <1>8 DEF Rewound, SP, Pointers
<1>10. PushWords(n, <<n.cpu.flags, n.cpu.ax>>) = f
  BY DEF f, fs
<1>11. SavedByCall(n) = [slot |-> from, next |-> to, ctx |-> [m.cpu EXCEPT !.ip = after]]
  <2>1. SavedByCall(n) =
           [slot |-> Word(f, 3)[2], next |-> Word(f, 4)[2],
            ctx  |-> [sp |-> Rewound(f, 3), ip |-> Word(f, 2), flags |-> Word(f, 1),
                      ax |-> Word(f, 0), dx |-> f.cpu.dx, rest |-> f.cpu.rest]]
    BY <1>10 DEF SavedByCall
  <2>2. [sp |-> m.cpu.sp, ip |-> after, flags |-> m.cpu.flags,
         ax |-> m.cpu.ax, dx |-> m.cpu.dx, rest |-> m.cpu.rest] = [m.cpu EXCEPT !.ip = after]
    BY <1>1 DEF CPUs
  <2>. QED BY <1>7, <1>8, <1>9, <2>1, <2>2, PointerToProcess
<1> DEFINE new == [ctxs EXCEPT ![from] = [m.cpu EXCEPT !.ip = after]]
           u   == Suspended(n, m.cpu.sp)
<1>12. SwitchByCall(n, ctxs) = [machine |-> RestoredByCall(u, new[to]), ctx |-> new]
  <2>1. SavedByCall(n).ctx.sp = m.cpu.sp
    BY <1>1, <1>11 DEF CPUs
  <2>. QED BY <1>11, <2>1 DEF SwitchByCall
<1>13. u \in Machines /\ u.mem = m.mem
  BY <1>1, SuspendedEffect DEF n
<1>14. new[to] = ctxs[to] /\ ctxs[to] \in CPUs
  BY DEF Contexts
<1> HIDE DEF u, new
<1>15. RestoredByCall(u, ctxs[to]).cpu = ctxs[to] /\ RestoredByCall(u, ctxs[to]).mem = m.mem
  BY <1>13, <1>14, RestoredByCallExactly DEF Fits
<1>. QED BY <1>2, <1>12, <1>14, <1>15 DEF new

\* switch_process_in_irq, seven words below the instruction behind int: the
\* process that made the call is suspended there, and the next one, perhaps
\* the same, is resumed as it was saved.
LEMMA SwitchByIRQEffect ==
    ASSUME NEW m \in Machines, Balanced(m),
           NEW from \in Slots, NEW to \in Slots,
           NEW ctxs \in Contexts, from = to \/ Fits(ctxs[to], m.mem)
    PROVE  /\ SwitchByIRQ(InIRQ(m, from, to), ctxs).machine.cpu =
                 IF from = to THEN m.cpu ELSE ctxs[to]
           /\ SwitchByIRQ(InIRQ(m, from, to), ctxs).machine.mem = m.mem
           /\ SwitchByIRQ(InIRQ(m, from, to), ctxs).ctx = [ctxs EXCEPT ![from] = m.cpu]
<1> DEFINE ws == <<m.cpu.flags, KernelCS, m.cpu.ip,
                   Code(0, "syscall_entry_point_asm"), ProcPtr(to), ProcPtr(from),
                   Code(0, "schedule_in_irq_context")>>
           n  == PushWords(m, ws)
           ax == <<n.cpu.ax>>
           f  == PushWords(n, ax)
<1>1. /\ m.cpu \in CPUs /\ m.cpu.sp \in Pointers /\ m.cpu.sp.depth \in Nat
      /\ m.cpu.sp.depth = Len(StackAt(m))
  BY StackType DEF Balanced
<1>2. /\ ws \in Seq(Words) /\ Len(ws) = 7
      /\ ws[1] = m.cpu.flags /\ ws[3] = m.cpu.ip
      /\ ws[5] = ProcPtr(to) /\ ws[6] = ProcPtr(from)
  <2>1. m.cpu.flags \in Words /\ m.cpu.ip \in Words
    BY <1>1 DEF CPUs
  <2>2. KernelCS \in Words
    BY DEF KernelCS, Number, Words, Kinds
  <2>3. ProcPtr(to) \in Words /\ ProcPtr(from) \in Words
    BY SchedulerAssumption DEF ProcPtr, Words, Kinds, Slots
  <2>4. Code(0, "syscall_entry_point_asm") \in Words /\ Code(0, "schedule_in_irq_context") \in Words
    BY DEF Code, Words, Kinds
  <2>. QED BY <2>1, <2>2, <2>3, <2>4
<1>3. InIRQ(m, from, to) = n
  BY DEF InIRQ
<1> HIDE DEF ws
<1>4. /\ n \in Machines /\ Balanced(n) /\ n.cpu \in CPUs
      /\ n.cpu = [m.cpu EXCEPT !.sp = SP(m.cpu.sp.stack, m.cpu.sp.depth + 7)]
  <2>1. /\ n \in Machines /\ Balanced(n)
        /\ n.cpu = [m.cpu EXCEPT !.sp = SP(m.cpu.sp.stack, m.cpu.sp.depth + Len(ws))]
    BY <1>2, PushEffect
  <2>2. n.cpu \in CPUs
    BY <2>1 DEF Machines
  <2>. QED BY <1>2, <2>1, <2>2
<1>5. /\ Word(n, 1) = ProcPtr(from) /\ Word(n, 2) = ProcPtr(to)
      /\ Word(n, 4) = m.cpu.ip /\ Word(n, 6) = m.cpu.flags
  <2>1. \A k \in 0..(Len(ws) - 1) : Word(n, k) = ws[Len(ws) - k]
    BY <1>2, PushedWords
  <2>2. \A k \in 0..6 : Word(n, k) = ws[7 - k]
    BY <1>2, <2>1
  <2>. QED BY <1>2, <2>2
<1> HIDE DEF n
<1>6. /\ ax \in Seq(Words) /\ Len(ax) = 1 /\ ax[1] = m.cpu.ax
  BY <1>1, <1>4 DEF CPUs
<1> HIDE DEF ax
<1>7. f \in Machines /\ f.cpu = [n.cpu EXCEPT !.sp = SP(n.cpu.sp.stack, n.cpu.sp.depth + 1)]
  <2>1. /\ f \in Machines
        /\ f.cpu = [n.cpu EXCEPT !.sp = SP(n.cpu.sp.stack, n.cpu.sp.depth + Len(ax))]
    BY <1>4, <1>6, PushEffect
  <2>. QED BY <1>6, <2>1
<1>8. /\ Word(f, 0) = m.cpu.ax
      /\ Word(f, 2) = ProcPtr(from) /\ Word(f, 3) = ProcPtr(to)
      /\ Word(f, 5) = m.cpu.ip /\ Word(f, 7) = m.cpu.flags
  <2>1. /\ \A k \in 0..(Len(ax) - 1) : Word(f, k) = ax[Len(ax) - k]
        /\ \A k \in Nat : k >= Len(ax) => Word(f, k) = Word(n, k - Len(ax))
    BY <1>4, <1>6, PushedWords
  <2> HIDE DEF f
  <2>2. Word(f, 0) = ax[1]
    <3>1. 0 \in 0..(Len(ax) - 1) /\ Len(ax) - 0 = 1
      BY <1>6
    <3>. QED BY <2>1, <3>1
  <2>3. /\ Word(f, 2) = Word(n, 1) /\ Word(f, 3) = Word(n, 2)
        /\ Word(f, 5) = Word(n, 4) /\ Word(f, 7) = Word(n, 6)
    <3>1. \A k \in Nat : k >= 1 => Word(f, k) = Word(n, k - 1)
      BY <1>6, <2>1
    <3>. QED BY <3>1
  <2>. QED BY <1>5, <1>6, <2>2, <2>3
<1>9. PushWord(n, n.cpu.ax) = f
  <2>1. n.cpu.ax \in Words
    BY <1>4 DEF CPUs
  <2>. QED BY <1>4, <2>1, PushWordIsPushWords DEF f, ax
<1> HIDE DEF f
<1>10. /\ f.cpu.sp = SP(m.cpu.sp.stack, m.cpu.sp.depth + 8)
       /\ f.cpu.dx = m.cpu.dx /\ f.cpu.rest = m.cpu.rest
  BY <1>1, <1>4, <1>7 DEF CPUs, SP
<1>11. Rewound(f, 8) = m.cpu.sp
  BY <1>1, <1>10 DEF Rewound, SP, Pointers
<1>12. SavedByIRQ(n) = [slot |-> from, next |-> to, ctx |-> m.cpu]
  <2>1. SavedByIRQ(n) =
           [slot |-> Word(f, 2)[2], next |-> Word(f, 3)[2],
            ctx  |-> [sp |-> Rewound(f, 8), ip |-> Word(f, 5), flags |-> Word(f, 7),
                      ax |-> Word(f, 0), dx |-> f.cpu.dx, rest |-> f.cpu.rest]]
    BY <1>9 DEF SavedByIRQ
  <2>2. [sp |-> m.cpu.sp, ip |-> m.cpu.ip, flags |-> m.cpu.flags,
         ax |-> m.cpu.ax, dx |-> m.cpu.dx, rest |-> m.cpu.rest] = m.cpu
    BY <1>1 DEF CPUs
  <2>. QED BY <1>8, <1>10, <1>11, <2>1, <2>2, PointerToProcess
<1> DEFINE new == [ctxs EXCEPT ![from] = m.cpu]
           u   == Suspended(n, m.cpu.sp)
<1>13. SwitchByIRQ(n, ctxs) = [machine |-> RestoredByIRQ(u, new[to]), ctx |-> new]
  BY <1>12 DEF SwitchByIRQ
<1>14. u \in Machines /\ u.mem = m.mem
  BY <1>2, SuspendedEffect DEF n
<1>15. new[to] = (IF from = to THEN m.cpu ELSE ctxs[to]) /\ new[to] \in CPUs
  BY <1>1 DEF Contexts
<1>16. Fits(new[to], m.mem)
  BY <1>1, <1>15 DEF Fits, StackAt
<1> HIDE DEF u, new
<1>17. RestoredByIRQ(u, new[to]).cpu = new[to] /\ RestoredByIRQ(u, new[to]).mem = m.mem
  BY <1>14, <1>15, <1>16, RestoredByIRQExactly DEF Fits
<1>. QED BY <1>3, <1>13, <1>15, <1>17 DEF new

-----------------------------------------------------------------------------
(* Every step is a step of the scheduler. *)

LEMMA StepOfScheduler == CSNext => [Next]_vars
<1> SUFFICES ASSUME CSNext PROVE [Next]_vars
  OBVIOUS
<1>1. ASSUME NEW v \in Values, Compute(v) PROVE UNCHANGED vars
  BY <1>1 DEF Compute
<1>2. CASE PushLocal
  BY <1>2 DEF PushLocal
<1>3. CASE PopLocal
  BY <1>3 DEF PopLocal
<1>4. CASE CSCreate
  BY <1>4 DEF CSCreate, Next
<1>5. ASSUME NEW pid \in Slots, CSKill(pid) PROVE Next
  BY <1>5 DEF CSKill, Next
<1>6. CASE CSSchedule
  BY <1>6 DEF CSSchedule, Next
<1>7. CASE ReturnFromSchedule
  BY <1>7 DEF ReturnFromSchedule
<1>8. ASSUME NEW a \in WriteArgs, SyscallWrite(a[1], a[2]) PROVE Next
  BY <1>8 DEF SyscallWrite, Next
<1>9. CASE SyscallExit
  BY <1>9 DEF SyscallExit, Next
<1>. QED BY <1>1, <1>2, <1>3, <1>4, <1>5, <1>6, <1>7, <1>8, <1>9 DEF CSNext

\* The context switch refines the scheduler: whatever holds of the process
\* table and the stack pool holds with the machine code of the switch in place.
THEOREM RefinesScheduler == CSSpec => Spec
<1>1. CSInit => Init
  BY DEF CSInit
<1>2. [CSNext]_csvars => [Next]_vars
  BY StepOfScheduler DEF csvars, vars
<1>. QED BY <1>1, <1>2, PTL DEF CSSpec, Spec

-----------------------------------------------------------------------------
(* The invariant.  A process, running or suspended, whose stack is st with  *)
(* the words s and whose registers are c, is in order if its stack pointer  *)
(* is behind its last word and it is either in its program, with nothing    *)
(* but its locals on the stack, or behind the call of switch_process in     *)
(* schedule(), with the return address to its program under the two         *)
(* arguments.                                                               *)

InItsProgram(p, c, s) ==
    /\ c.ip \in {Code(p, "entry"), Code(p, "run"), Code(p, "afterInt")}
    /\ Len(s) <= MaxLocals

InSchedule(p, c, s) ==
    /\ c.ip = Code(p, "afterSwitch")
    /\ Len(s) >= 3
    /\ Len(s) <= MaxLocals + 3
    /\ s[Len(s) - 2] = Code(p, "run")

InOrder(p, st, c, s) ==
    /\ c.sp = SP(st, Len(s))
    /\ InItsProgram(p, c, s) \/ InSchedule(p, c, s)

MachineType ==
    /\ Machine \in Machines
    /\ ctx \in Contexts
    /\ DOMAIN expect = Slots

RunningInOrder == InOrder(cur, StackOfProcess(cur), cpu, mem[StackOfProcess(cur)])

SuspendedInOrder ==
    \A p \in used \ {cur} :
        /\ InOrder(p, StackOfProcess(p), ctx[p], mem[StackOfProcess(p)])
        /\ ctx[p] = expect[p].cpu
        /\ mem[StackOfProcess(p)] = expect[p].stack

CSInv == PoolInv /\ MachineType /\ RunningInOrder /\ SuspendedInOrder

LEMMA PlacesDiffer ==
    \A p : /\ Place(Code(p, "afterSwitch")) = "afterSwitch"
           /\ Place(Code(p, "entry")) # "afterSwitch"
           /\ Place(Code(p, "run")) # "afterSwitch"
           /\ Place(Code(p, "afterInt")) # "afterSwitch"
  BY DEF Place, Code

LEMMA PlacesAreWords ==
    ASSUME NEW p \in Slots
    PROVE  /\ Code(p, "entry") \in Words /\ Code(p, "run") \in Words
           /\ Code(p, "afterInt") \in Words /\ Code(p, "afterSwitch") \in Words
           /\ ProcPtr(p) \in Words
  BY SchedulerAssumption DEF Code, Words, Kinds, ProcPtr, Slots

\* Two live processes never have the same stack.
StacksOwned ==
    /\ \A p \in used : StackOfProcess(p) \in Stacks
    /\ \A p, q \in used : StackOfProcess(p) = StackOfProcess(q) => p = q

LEMMA OwnStacks == PoolInv => StacksOwned
<1> SUFFICES ASSUME PoolInv PROVE StacksOwned
  OBVIOUS
<1>1. \A a \in Addresses : a # BootStack
  BY BlockAddress DEF Addresses, BootStack
<1>2. \A p \in used : p # 0 => p \in LiveUsers
  BY DEF LiveUsers
<1>3. \A p \in used : p # 0 => stackBase[p] \in Addresses
  BY <1>2, PoolFacts
<1>4. \A p, q \in LiveUsers : stackBase[p] = stackBase[q] => p = q
  BY PoolFacts
<1>. QED BY <1>1, <1>2, <1>3, <1>4 DEF StackOfProcess, Stacks, StacksOwned

\* Facts about a state that satisfies the invariant, used in every step.
LEMMA InvFacts ==
    ASSUME CSInv
    PROVE  /\ cur \in used /\ cur \in Slots /\ used \subseteq Slots /\ 0 \in used
           /\ Machine \in Machines /\ Balanced(Machine)
           /\ Machine.cpu = cpu /\ Machine.mem = mem
           /\ cpu \in CPUs /\ mem \in Memories
           /\ cpu.sp.stack = StackOfProcess(cur)
           /\ StackAt(Machine) = mem[StackOfProcess(cur)]
           /\ StackOfProcess(cur) \in Stacks
<1>1. cur \in used /\ used \subseteq Slots /\ 0 \in used
  BY PoolFacts DEF CSInv
<1>2. Machine \in Machines /\ Machine.cpu = cpu /\ Machine.mem = mem
  BY DEF CSInv, MachineType, Machine
<1>3. cpu.sp = SP(StackOfProcess(cur), Len(mem[StackOfProcess(cur)]))
  BY DEF CSInv, RunningInOrder, InOrder
<1>4. cpu.sp.stack = StackOfProcess(cur) /\ cpu.sp.depth = Len(mem[StackOfProcess(cur)])
  BY <1>3 DEF SP
<1>5. StackAt(Machine) = mem[StackOfProcess(cur)] /\ Balanced(Machine)
  BY <1>2, <1>4 DEF StackAt, Balanced
<1>6. StackOfProcess(cur) \in Stacks
  BY <1>1, OwnStacks DEF CSInv, StacksOwned
<1>. QED BY <1>1, <1>2, <1>4, <1>5, <1>6, StackType

LEMMA CSInvInit == CSInit => CSInv
<1> SUFFICES ASSUME CSInit PROVE CSInv
  OBVIOUS
<1>1. PoolInv /\ cur = 0 /\ used = {0}
  BY PoolInvInit DEF CSInit, Init
<1>2. StackOfProcess(0) = BootStack /\ BootStack \in Stacks
  BY DEF StackOfProcess, Stacks
<1>3. SP(BootStack, 0) \in Pointers
  BY <1>2 DEF SP, Pointers
<1>4. mem \in Memories /\ mem[BootStack] = <<>>
  BY <1>2 DEF CSInit, Memories
<1>5. cpu = Computed(0, 0, SP(BootStack, 0))
  BY DEF CSInit
<1>6. cpu \in CPUs
  <2>1. /\ Code(0, "run") \in Words /\ <<"eflags", 0, 0>> \in Words /\ <<"eax", 0, 0>> \in Words
        /\ <<"edx", 0, 0>> \in Words /\ <<"rest", 0, 0>> \in Words
    BY DEF Code, Words, Kinds
  <2>. QED BY <1>3, <1>5, <2>1 DEF Computed, CPUs
<1>7. ctx \in Contexts
  <2>1. Zero \in Words
    BY DEF Zero, Number, Words, Kinds
  <2>2. [sp |-> SP(BootStack, 0), ip |-> Zero, flags |-> Zero,
         ax |-> Zero, dx |-> Zero, rest |-> Zero] \in CPUs
    BY <1>3, <2>1 DEF CPUs
  <2>. QED BY <2>2 DEF CSInit, Contexts
<1>8. MachineType
  BY <1>4, <1>6, <1>7 DEF MachineType, Machine, Machines, CSInit
<1>9. RunningInOrder
  <2>1. cpu.ip = Code(0, "run") /\ cpu.sp = SP(BootStack, 0)
    BY <1>5 DEF Computed
  <2>2. Len(mem[BootStack]) = 0 /\ 0 <= MaxLocals
    BY <1>4, ContextSwitchAssumption
  <2>. QED BY <1>1, <1>2, <2>1, <2>2 DEF RunningInOrder, InOrder, InItsProgram
<1>10. SuspendedInOrder
  BY <1>1 DEF SuspendedInOrder
<1>. QED BY <1>1, <1>8, <1>9, <1>10 DEF CSInv

-----------------------------------------------------------------------------
(* The steps of a program on its own stack. *)

\* A step that ends with the machine m, in order for the running process, and
\* changed no other stack, is one after which everything is in order.
LEMMA OwnStep ==
    ASSUME CSInv, UNCHANGED vars, UNCHANGED ctx,
           NEW m \in Machines, Become(m),
           \A st \in Stacks \ {StackOfProcess(cur)} : m.mem[st] = mem[st],
           InOrder(cur, StackOfProcess(cur), m.cpu, m.mem[StackOfProcess(cur)]),
           DOMAIN expect' = Slots,
           \A p \in Slots \ {cur} : expect'[p] = expect[p]
    PROVE  CSInv'
<1>1. used' = used /\ cur' = cur /\ stackBase' = stackBase /\ freeBlocks' = freeBlocks
  BY DEF vars
<1>2. \A p : StackOfProcess(p)' = StackOfProcess(p)
  BY <1>1 DEF StackOfProcess
<1>3. PoolInv'
  BY <1>1 DEF CSInv, PoolInv, CoreInv, TypeOK, RunningIsLive, LiveHaveStacks, EnoughBlocks,
              StacksExclusive, PoolAccounted, LiveUsers
<1>4. cpu' = m.cpu /\ mem' = m.mem /\ ctx' = ctx
  BY DEF Become
<1>5. MachineType'
  BY <1>4 DEF CSInv, MachineType, Machine, Machines
<1>6. RunningInOrder'
  BY <1>1, <1>2, <1>4 DEF RunningInOrder
<1>7. SuspendedInOrder'
  <2> SUFFICES ASSUME NEW p \in used \ {cur}
               PROVE  /\ InOrder(p, StackOfProcess(p), ctx[p], m.mem[StackOfProcess(p)])
                      /\ ctx[p] = expect'[p].cpu
                      /\ m.mem[StackOfProcess(p)] = expect'[p].stack
    BY <1>1, <1>2, <1>4 DEF SuspendedInOrder
  <2>1. StackOfProcess(p) \in Stacks \ {StackOfProcess(cur)} /\ p \in Slots \ {cur}
    BY InvFacts, OwnStacks DEF CSInv, StacksOwned
  <2>2. m.mem[StackOfProcess(p)] = mem[StackOfProcess(p)] /\ expect'[p] = expect[p]
    BY <2>1
  <2>. QED BY <2>2 DEF CSInv, SuspendedInOrder
<1>. QED BY <1>3, <1>5, <1>6, <1>7 DEF CSInv

\* A process in its program has nothing but its locals on the stack.
LEMMA ProgramOrder ==
    ASSUME CSInv, InProgram
    PROVE  /\ InItsProgram(cur, cpu, mem[StackOfProcess(cur)])
           /\ cpu.sp = SP(StackOfProcess(cur), Len(mem[StackOfProcess(cur)]))
  BY PlacesDiffer DEF CSInv, RunningInOrder, InOrder, InSchedule, InProgram

LEMMA ForgetsOwn ==
    ASSUME CSInv, expect' = [expect EXCEPT ![cur] = NoExpectation]
    PROVE  DOMAIN expect' = Slots /\ \A p \in Slots \ {cur} : expect'[p] = expect[p]
  BY DEF CSInv, MachineType

LEMMA ComputeStep ==
    ASSUME CSInv, NEW v \in Values, Compute(v)
    PROVE  CSInv'
<1> DEFINE m == [cpu |-> Computed(cur, v, cpu.sp), mem |-> mem]
           s == mem[StackOfProcess(cur)]
<1>1. /\ cpu \in CPUs /\ mem \in Memories /\ cur \in Slots
  BY InvFacts
<1>2. cpu.sp = SP(StackOfProcess(cur), Len(s)) /\ Len(s) <= MaxLocals
  BY ProgramOrder DEF Compute, InItsProgram
<1>3. Computed(cur, v, cpu.sp) \in CPUs
  <2>1. cur \in Int /\ v \in Int
    BY <1>1, SchedulerAssumption, ContextSwitchAssumption DEF Slots
  <2>2. /\ Code(cur, "run") \in Words /\ <<"eflags", cur, v>> \in Words /\ <<"eax", cur, v>> \in Words
        /\ <<"edx", cur, v>> \in Words /\ <<"rest", cur, v>> \in Words
    BY <2>1 DEF Code, Words, Kinds
  <2>. QED BY <1>1, <2>2 DEF Computed, CPUs
<1>4. m \in Machines
  BY <1>1, <1>3 DEF Machines
<1>5. InOrder(cur, StackOfProcess(cur), m.cpu, m.mem[StackOfProcess(cur)])
  BY <1>2 DEF InOrder, InItsProgram, Computed
<1>6. Become(m) /\ UNCHANGED vars /\ UNCHANGED ctx
  BY DEF Compute, Become
<1>7. DOMAIN expect' = Slots /\ \A p \in Slots \ {cur} : expect'[p] = expect[p]
  BY ForgetsOwn DEF Compute
<1>8. \A st \in Stacks \ {StackOfProcess(cur)} : m.mem[st] = mem[st]
  OBVIOUS
<1> HIDE DEF m
<1>. QED BY <1>4, <1>5, <1>6, <1>7, <1>8, OwnStep

LEMMA PushLocalStep ==
    ASSUME CSInv, PushLocal
    PROVE  CSInv'
<1> DEFINE s  == mem[StackOfProcess(cur)]
           ws == <<<<"local", cur, cpu.sp.depth>>>>
           m  == PushWords(Machine, ws)
<1>1. /\ Machine \in Machines /\ Balanced(Machine) /\ Machine.cpu = cpu /\ Machine.mem = mem
      /\ StackAt(Machine) = s /\ cpu.sp.stack = StackOfProcess(cur)
      /\ cur \in Slots /\ cpu \in CPUs /\ mem \in Memories /\ StackOfProcess(cur) \in Stacks
  BY InvFacts
<1>2. /\ cpu.sp.depth \in Nat /\ s \in Seq(Words) /\ Len(s) \in Nat /\ cpu.sp.depth = Len(s)
      /\ InItsProgram(cur, cpu, s)
  BY <1>1, StackType, ProgramOrder DEF PushLocal, Balanced
<1>3. /\ <<"local", cur, cpu.sp.depth>> \in Words
      /\ ws \in Seq(Words) /\ Len(ws) = 1
  BY <1>1, <1>2, SchedulerAssumption DEF Words, Kinds, Slots
<1>4. PushWord(Machine, <<"local", cur, cpu.sp.depth>>) = m
  BY <1>1, <1>3, PushWordIsPushWords
<1>5. Become(m) /\ UNCHANGED vars /\ UNCHANGED ctx /\ expect' = expect /\ cpu.sp.depth < MaxLocals
  BY <1>4 DEF PushLocal
<1> HIDE DEF ws
<1>6. /\ m \in Machines /\ Balanced(m)
      /\ m.cpu = [cpu EXCEPT !.sp = SP(cpu.sp.stack, cpu.sp.depth + Len(ws))]
      /\ m.mem = [mem EXCEPT ![cpu.sp.stack] = mem[cpu.sp.stack] \o ws]
      /\ StackAt(m) = s \o ws
  BY <1>1, <1>3, PushEffect
<1> HIDE DEF m
<1>7. /\ \A st \in Stacks \ {StackOfProcess(cur)} : m.mem[st] = mem[st]
      /\ m.mem[StackOfProcess(cur)] = s \o ws
      /\ Len(s \o ws) = Len(s) + 1
  <2>1. m.mem = [mem EXCEPT ![StackOfProcess(cur)] = s \o ws]
    BY <1>1, <1>6
  <2>2. Len(s \o ws) = Len(s) + 1
    <3> HIDE DEF s
    <3>1. Len(s \o ws) = Len(s) + Len(ws)
      BY <1>2, <1>3, ConcatProperties
    <3>. QED BY <1>3, <3>1
  <2>. QED BY <1>1, <2>1, <2>2 DEF Memories
<1>8. InOrder(cur, StackOfProcess(cur), m.cpu, m.mem[StackOfProcess(cur)])
  <2>1. m.cpu.ip = cpu.ip /\ m.cpu.sp = SP(StackOfProcess(cur), Len(s) + 1)
    BY <1>1, <1>2, <1>3, <1>6 DEF CPUs
  <2>2. Len(s) + 1 <= MaxLocals
    BY <1>2, <1>5, ContextSwitchAssumption
  <2>. QED BY <1>2, <1>7, <2>1, <2>2 DEF InOrder, InItsProgram
<1>9. DOMAIN expect' = Slots /\ \A p \in Slots \ {cur} : expect'[p] = expect[p]
  BY <1>5 DEF CSInv, MachineType
<1>. QED BY <1>5, <1>6, <1>7, <1>8, <1>9, OwnStep

LEMMA PopLocalStep ==
    ASSUME CSInv, PopLocal
    PROVE  CSInv'
<1> DEFINE s == mem[StackOfProcess(cur)]
           m == Drop(Machine, 1)
           t == SubSeq(s, 1, Len(s) - 1)
<1>1. /\ Machine \in Machines /\ Balanced(Machine) /\ Machine.cpu = cpu /\ Machine.mem = mem
      /\ StackAt(Machine) = s /\ cpu.sp.stack = StackOfProcess(cur)
      /\ cpu \in CPUs /\ mem \in Memories /\ StackOfProcess(cur) \in Stacks
  BY InvFacts
<1>2. /\ cpu.sp.depth \in Nat /\ s \in Seq(Words) /\ Len(s) \in Nat /\ cpu.sp.depth = Len(s)
      /\ InItsProgram(cur, cpu, s)
  BY <1>1, StackType, ProgramOrder DEF PopLocal, Balanced
<1>3. Become(m) /\ UNCHANGED vars /\ UNCHANGED ctx /\ expect' = expect /\ cpu.sp.depth > 0
  BY DEF PopLocal
<1>4. 1 \in 0..Len(s) /\ Len(s) - 1 \in Nat /\ Len(s) - 1 <= Len(s)
  BY <1>2, <1>3
<1>5. /\ m \in Machines
      /\ m.cpu = [cpu EXCEPT !.sp = SP(StackOfProcess(cur), Len(s) - 1)]
      /\ m.mem = [mem EXCEPT ![StackOfProcess(cur)] = t]
  <2>1. 1 \in 0..Len(StackAt(Machine))
    BY <1>1, <1>4
  <2>2. /\ m \in Machines
        /\ m.cpu = [Machine.cpu EXCEPT !.sp = SP(Machine.cpu.sp.stack, Machine.cpu.sp.depth - 1)]
        /\ m.mem = [Machine.mem EXCEPT ![Machine.cpu.sp.stack] =
                       SubSeq(StackAt(Machine), 1, Machine.cpu.sp.depth - 1)]
    BY <1>1, <2>1, DropEffect
  <2>. QED BY <1>1, <1>2, <2>2
<1>6. t \in Seq(Words) /\ Len(t) = Len(s) - 1
  BY <1>2, <1>4, PrefixOfSeq
<1> HIDE DEF m, t
<1>7. /\ \A st \in Stacks \ {StackOfProcess(cur)} : m.mem[st] = mem[st]
      /\ m.mem[StackOfProcess(cur)] = t
  BY <1>1, <1>5 DEF Memories
<1>8. InOrder(cur, StackOfProcess(cur), m.cpu, m.mem[StackOfProcess(cur)])
  <2>1. m.cpu.ip = cpu.ip /\ m.cpu.sp = SP(StackOfProcess(cur), Len(s) - 1)
    BY <1>1, <1>5 DEF CPUs
  <2>2. Len(s) - 1 <= MaxLocals
    BY <1>2, ContextSwitchAssumption DEF InItsProgram
  <2>. QED BY <1>2, <1>6, <1>7, <2>1, <2>2 DEF InOrder, InItsProgram
<1>9. DOMAIN expect' = Slots /\ \A p \in Slots \ {cur} : expect'[p] = expect[p]
  BY <1>3 DEF CSInv, MachineType
<1>. QED BY <1>3, <1>5, <1>7, <1>8, <1>9, OwnStep

LEMMA ReturnStep ==
    ASSUME CSInv, ReturnFromSchedule
    PROVE  CSInv'
<1> DEFINE s == mem[StackOfProcess(cur)]
           d == Drop(Machine, 2)
           e == Drop(d, 1)
           t == SubSeq(s, 1, Len(s) - 2)
           m == Ret(d)
<1>1. /\ Machine \in Machines /\ Balanced(Machine) /\ Machine.cpu = cpu /\ Machine.mem = mem
      /\ StackAt(Machine) = s /\ cpu.sp.stack = StackOfProcess(cur)
      /\ cpu \in CPUs /\ mem \in Memories /\ StackOfProcess(cur) \in Stacks /\ cur \in Slots
  BY InvFacts
<1>2. /\ cpu.sp.depth \in Nat /\ s \in Seq(Words) /\ Len(s) \in Nat /\ cpu.sp.depth = Len(s)
  BY <1>1, StackType DEF Balanced
<1>3. InSchedule(cur, cpu, s)
  BY PlacesDiffer DEF CSInv, RunningInOrder, InOrder, InItsProgram, ReturnFromSchedule
<1>4. /\ 2 \in 0..Len(s) /\ Len(s) - 2 \in 1..Len(s) /\ Len(s) - 2 \in Nat /\ Len(s) - 2 <= Len(s)
      /\ Len(s) - 3 \in Nat /\ Len(s) - 3 <= MaxLocals
  BY <1>2, <1>3, ContextSwitchAssumption DEF InSchedule
<1>5. /\ d \in Machines /\ Balanced(d)
      /\ d.cpu = [cpu EXCEPT !.sp = SP(StackOfProcess(cur), Len(s) - 2)]
      /\ d.mem = [mem EXCEPT ![StackOfProcess(cur)] = t]
  <2>1. 2 \in 0..Len(StackAt(Machine))
    BY <1>1, <1>4
  <2>2. /\ d \in Machines /\ Balanced(d)
        /\ d.cpu = [Machine.cpu EXCEPT !.sp = SP(Machine.cpu.sp.stack, Machine.cpu.sp.depth - 2)]
        /\ d.mem = [Machine.mem EXCEPT ![Machine.cpu.sp.stack] =
                       SubSeq(StackAt(Machine), 1, Machine.cpu.sp.depth - 2)]
    BY <1>1, <2>1, DropEffect
  <2>. QED BY <1>1, <1>2, <2>2
<1>6. /\ t \in Seq(Words) /\ Len(t) = Len(s) - 2
      /\ t[Len(s) - 2] = Code(cur, "run")
  BY <1>2, <1>3, <1>4, PrefixOfSeq DEF InSchedule
<1> HIDE DEF d, t
<1>7. /\ d.cpu.sp = SP(StackOfProcess(cur), Len(s) - 2)
      /\ d.cpu.sp.stack = StackOfProcess(cur) /\ d.cpu.sp.depth = Len(s) - 2
      /\ StackAt(d) = t /\ d.cpu \in CPUs /\ d.mem \in Memories
  <2>1. d.cpu.sp = SP(StackOfProcess(cur), Len(s) - 2)
    BY <1>1, <1>5 DEF CPUs
  <2>2. d.cpu.sp.stack = StackOfProcess(cur) /\ d.cpu.sp.depth = Len(s) - 2
    BY <2>1 DEF SP
  <2>. QED BY <1>1, <1>5, <2>1, <2>2 DEF StackAt, Memories, Machines
<1>8. Word(d, 0) = Code(cur, "run")
  BY <1>2, <1>4, <1>6, <1>7 DEF Word, WordAt
<1>9. /\ e \in Machines
      /\ e.cpu = [d.cpu EXCEPT !.sp = SP(StackOfProcess(cur), Len(s) - 3)]
      /\ e.mem = [d.mem EXCEPT ![StackOfProcess(cur)] = SubSeq(t, 1, Len(s) - 3)]
  <2>1. 1 \in 0..Len(StackAt(d)) /\ Len(s) - 2 - 1 = Len(s) - 3
    BY <1>2, <1>4, <1>6, <1>7
  <2>2. /\ e \in Machines
        /\ e.cpu = [d.cpu EXCEPT !.sp = SP(d.cpu.sp.stack, d.cpu.sp.depth - 1)]
        /\ e.mem = [d.mem EXCEPT ![d.cpu.sp.stack] = SubSeq(StackAt(d), 1, d.cpu.sp.depth - 1)]
    BY <1>5, <2>1, DropEffect
  <2>. QED BY <1>7, <2>1, <2>2
<1>10. Len(SubSeq(t, 1, Len(s) - 3)) = Len(s) - 3
  BY <1>2, <1>4, <1>6, PrefixOfSeq
<1> HIDE DEF e
<1>11. m = [e EXCEPT !.cpu.ip = Code(cur, "run")]
  BY <1>8 DEF Ret, e
<1>12. m.cpu = [e.cpu EXCEPT !.ip = Code(cur, "run")] /\ m.mem = e.mem
  BY <1>9, <1>11 DEF Machines
<1>13. m \in Machines
  <2>1. e.cpu \in CPUs
    BY <1>9 DEF Machines
  <2>2. Code(cur, "run") \in Words
    BY <1>1, PlacesAreWords
  <2>3. m.cpu \in CPUs
    BY <1>12, <2>1, <2>2 DEF CPUs
  <2>. QED BY <1>9, <1>11, <1>12, <2>3 DEF Machines
<1> HIDE DEF m
<1>14. /\ \A st \in Stacks \ {StackOfProcess(cur)} : m.mem[st] = mem[st]
       /\ m.mem[StackOfProcess(cur)] = SubSeq(t, 1, Len(s) - 3)
  BY <1>1, <1>5, <1>7, <1>9, <1>12 DEF Memories
<1>15. InOrder(cur, StackOfProcess(cur), m.cpu, m.mem[StackOfProcess(cur)])
  <2>1. m.cpu.ip = Code(cur, "run") /\ m.cpu.sp = SP(StackOfProcess(cur), Len(s) - 3)
    BY <1>7, <1>9, <1>12 DEF CPUs, Machines
  <2>. QED BY <1>4, <1>10, <1>14, <2>1 DEF InOrder, InItsProgram
<1>16. Become(m) /\ UNCHANGED vars /\ UNCHANGED ctx
  BY DEF ReturnFromSchedule, m, d
<1>17. DOMAIN expect' = Slots /\ \A p \in Slots \ {cur} : expect'[p] = expect[p]
  BY ForgetsOwn DEF ReturnFromSchedule
<1>. QED BY <1>13, <1>14, <1>15, <1>16, <1>17, OwnStep

-----------------------------------------------------------------------------
(* The steps that give the CPU away. *)

\* The process next in line fits the memory in which the running one left
\* nothing but its own stack changed, and it finds what it expects.
LEMMA NextFits ==
    ASSUME CSInv, NEW m \in Machines,
           \A st \in Stacks \ {StackOfProcess(cur)} : m.mem[st] = mem[st],
           NEW to \in used, to # cur
    PROVE  /\ Fits(ctx[to], m.mem)
           /\ ctx[to] = expect[to].cpu
           /\ ctx[to].sp.stack = StackOfProcess(to)
           /\ m.mem[StackOfProcess(to)] = expect[to].stack
           /\ InOrder(to, StackOfProcess(to), ctx[to], m.mem[StackOfProcess(to)])
<1>1. StackOfProcess(to) \in Stacks \ {StackOfProcess(cur)}
  BY InvFacts, OwnStacks DEF CSInv, StacksOwned
<1>2. m.mem[StackOfProcess(to)] = mem[StackOfProcess(to)]
  BY <1>1
<1>3. /\ InOrder(to, StackOfProcess(to), ctx[to], mem[StackOfProcess(to)])
      /\ ctx[to] = expect[to].cpu
      /\ mem[StackOfProcess(to)] = expect[to].stack
  BY DEF CSInv, SuspendedInOrder
<1>4. ctx[to].sp = SP(StackOfProcess(to), Len(mem[StackOfProcess(to)]))
  BY <1>3 DEF InOrder
<1>5. ctx[to].sp.stack = StackOfProcess(to) /\ ctx[to].sp.depth = Len(mem[StackOfProcess(to)])
  BY <1>4 DEF SP
<1>. QED BY <1>2, <1>3, <1>5 DEF Fits

\* What a switch does to the registers, stacks, contexts and expectations, if
\* m is the machine the running process is suspended with.
Switched(m, res) ==
    /\ cpu' = IF cur' = cur THEN m.cpu ELSE ctx[cur']
    /\ mem' = m.mem
    /\ ctx' = [ctx EXCEPT ![cur] = m.cpu]
    /\ expect' = [expect EXCEPT ![cur] = Expected(m, res)]

\* The machine a process gives the CPU away with is in order.
LeftInOrder(m) ==
    /\ m \in Machines
    /\ InOrder(cur, StackOfProcess(cur), m.cpu, m.mem[StackOfProcess(cur)])
    /\ \A st \in Stacks \ {StackOfProcess(cur)} : m.mem[st] = mem[st]

LEMMA SwitchStep ==
    ASSUME CSInv, PoolInv', UNCHANGED stackBase, used' \subseteq used, cur' \in used',
           NEW m, LeftInOrder(m), NEW res, Switched(m, res)
    PROVE  /\ CSInv'
           /\ cpu' = expect'[cur'].cpu
           /\ mem'[cpu'.sp.stack] = expect'[cur'].stack
<1>1. /\ m \in Machines /\ m.cpu \in CPUs /\ m.mem \in Memories
      /\ InOrder(cur, StackOfProcess(cur), m.cpu, m.mem[StackOfProcess(cur)])
      /\ \A st \in Stacks \ {StackOfProcess(cur)} : m.mem[st] = mem[st]
  BY StackType DEF LeftInOrder
<1>2. \A p : StackOfProcess(p)' = StackOfProcess(p)
  BY DEF StackOfProcess
<1>3. /\ ctx \in Contexts /\ DOMAIN expect = Slots
      /\ cur \in Slots /\ cur' \in Slots /\ used \subseteq Slots
  BY InvFacts DEF CSInv, MachineType
<1>4. /\ cpu' = IF cur' = cur THEN m.cpu ELSE ctx[cur']
      /\ mem' = m.mem
      /\ ctx' = [ctx EXCEPT ![cur] = m.cpu]
      /\ expect' = [expect EXCEPT ![cur] = Expected(m, res)]
  BY DEF Switched
<1>5. MachineType'
  <2>1. cpu' \in CPUs /\ mem' \in Memories /\ ctx' \in Contexts /\ DOMAIN expect' = Slots
    BY <1>1, <1>3, <1>4 DEF Contexts
  <2>. QED BY <2>1 DEF MachineType, Machine, Machines
<1>6. /\ expect'[cur].cpu = m.cpu
      /\ expect'[cur].stack = m.mem[StackOfProcess(cur)]
      /\ m.cpu.sp.stack = StackOfProcess(cur)
  <2>1. m.cpu.sp.stack = StackOfProcess(cur)
    BY <1>1 DEF InOrder, SP
  <2>2. expect'[cur] = [cpu |-> m.cpu, stack |-> StackAt(m), result |-> res]
    BY <1>3, <1>4 DEF Expected
  <2>. QED BY <2>1, <2>2 DEF StackAt
<1>7. ASSUME NEW p \in used, p # cur
      PROVE  /\ Fits(ctx[p], m.mem)
             /\ ctx[p].sp.stack = StackOfProcess(p)
             /\ InOrder(p, StackOfProcess(p), ctx[p], m.mem[StackOfProcess(p)])
             /\ ctx[p] = expect'[p].cpu
             /\ m.mem[StackOfProcess(p)] = expect'[p].stack
  <2>1. expect'[p] = expect[p]
    BY <1>3, <1>4, <1>7
  <2>2. /\ Fits(ctx[p], m.mem)
        /\ ctx[p].sp.stack = StackOfProcess(p)
        /\ InOrder(p, StackOfProcess(p), ctx[p], m.mem[StackOfProcess(p)])
        /\ ctx[p] = expect[p].cpu
        /\ m.mem[StackOfProcess(p)] = expect[p].stack
    BY <1>1, <1>7, NextFits
  <2>. QED BY <2>1, <2>2
<1>8. cur' \in used /\ \A p \in used' : p \in used
  OBVIOUS
<1>9. /\ InOrder(cur', StackOfProcess(cur'), cpu', mem'[StackOfProcess(cur')])
      /\ cpu' = expect'[cur'].cpu
      /\ cpu'.sp.stack = StackOfProcess(cur')
      /\ mem'[StackOfProcess(cur')] = expect'[cur'].stack
  <2>1. CASE cur' = cur
    BY <1>1, <1>4, <1>6, <2>1
  <2>2. CASE cur' # cur
    BY <1>4, <1>7, <1>8, <2>2
  <2>. QED BY <2>1, <2>2
<1>10. StackOfProcess(cur)' = StackOfProcess(cur')
  BY DEF StackOfProcess
<1>11. RunningInOrder'
  BY <1>9, <1>10 DEF RunningInOrder
<1>12. SuspendedInOrder'
  <2> SUFFICES ASSUME NEW p \in used' \ {cur'}
               PROVE  /\ InOrder(p, StackOfProcess(p), ctx'[p], m.mem[StackOfProcess(p)])
                      /\ ctx'[p] = expect'[p].cpu
                      /\ m.mem[StackOfProcess(p)] = expect'[p].stack
    BY <1>2, <1>4 DEF SuspendedInOrder
  <2>1. CASE p = cur
    BY <1>1, <1>3, <1>4, <1>6, <2>1 DEF Contexts
  <2>2. CASE p # cur
    <3>1. ctx'[p] = ctx[p]
      BY <1>3, <1>4, <1>8, <2>2
    <3>. QED BY <1>7, <1>8, <2>2, <3>1
  <2>. QED BY <2>1, <2>2
<1>. QED BY <1>5, <1>9, <1>11, <1>12 DEF CSInv

\* schedule() to another process: the running one leaves, behind the call of
\* switch_process, with three more words on its stack.
LEMMA ScheduleStep ==
    ASSUME CSInv, PoolInv', CSSchedule
    PROVE  /\ CSInv'
           /\ cur' # cur => /\ cpu' = expect'[cur'].cpu
                            /\ mem'[cpu'.sp.stack] = expect'[cur'].stack
           /\ cur' = cur => UNCHANGED csvars
<1> DEFINE s   == mem[StackOfProcess(cur)]
           ws  == <<Code(cur, "run"), ProcPtr(cur'), ProcPtr(cur)>>
           ins == PushWords(Machine, ws)
           aft == Code(cur, "afterSwitch")
           m   == [ins EXCEPT !.cpu.ip = aft]
<1>1. /\ Machine \in Machines /\ Balanced(Machine) /\ Machine.cpu = cpu /\ Machine.mem = mem
      /\ StackAt(Machine) = s /\ cpu.sp.stack = StackOfProcess(cur)
      /\ cpu \in CPUs /\ mem \in Memories /\ StackOfProcess(cur) \in Stacks
      /\ cur \in Slots /\ cur \in used /\ used \subseteq Slots /\ 0 \in used
  BY InvFacts
<1>2. /\ cpu.sp.depth \in Nat /\ s \in Seq(Words) /\ Len(s) \in Nat /\ cpu.sp.depth = Len(s)
      /\ Len(s) <= MaxLocals
  BY <1>1, StackType, ProgramOrder DEF CSSchedule, Balanced, InItsProgram
<1>3. /\ cur' = NextUsed(cur, used) /\ used' = used /\ stackBase' = stackBase
      /\ freeBlocks' = freeBlocks
  BY DEF CSSchedule, Yield
<1>4. cur' \in used /\ cur' \in Slots
  BY <1>1, <1>3, NextUsedIsUsed
<1>5. CASE cur' = cur
  <2>1. UNCHANGED csvars
    BY <1>3, <1>5 DEF CSSchedule, csvars, vars
  <2>2. CSInv'
    BY <2>1, PoolInv' DEF csvars, vars, CSInv, MachineType, Machine, RunningInOrder,
                          SuspendedInOrder, StackOfProcess
  <2>. QED BY <1>5, <2>1, <2>2
<1>6. CASE cur' # cur
  <2>1. /\ ws \in Seq(Words) /\ Len(ws) = 3
        /\ ws[1] = Code(cur, "run") /\ ws[2] = ProcPtr(cur') /\ ws[3] = ProcPtr(cur)
    BY <1>1, <1>4, PlacesAreWords
  <2> HIDE DEF ws
  <2>2. /\ ins \in Machines /\ Balanced(ins)
        /\ ins.cpu = [cpu EXCEPT !.sp = SP(StackOfProcess(cur), Len(s) + 3)]
        /\ ins.mem = [mem EXCEPT ![StackOfProcess(cur)] = s \o ws]
    <3>1. /\ ins \in Machines /\ Balanced(ins)
          /\ ins.cpu = [cpu EXCEPT !.sp = SP(StackOfProcess(cur), Len(s) + Len(ws))]
          /\ ins.mem = [mem EXCEPT ![StackOfProcess(cur)] = s \o ws]
      <4>1. /\ ins \in Machines /\ Balanced(ins)
            /\ ins.cpu = [Machine.cpu EXCEPT
                            !.sp = SP(Machine.cpu.sp.stack, Machine.cpu.sp.depth + Len(ws))]
            /\ ins.mem = [Machine.mem EXCEPT
                            ![Machine.cpu.sp.stack] = Machine.mem[Machine.cpu.sp.stack] \o ws]
        BY <1>1, <2>1, PushEffect
      <4> HIDE DEF ins
      <4>2. /\ Machine.cpu.sp.stack = StackOfProcess(cur) /\ Machine.cpu.sp.depth = Len(s)
            /\ Machine.mem[Machine.cpu.sp.stack] = s
        BY <1>1, <1>2
      <4>3. ins.cpu = [cpu EXCEPT !.sp = SP(StackOfProcess(cur), Len(s) + Len(ws))]
        BY <1>1, <4>1, <4>2
      <4>4. ins.mem = [mem EXCEPT ![StackOfProcess(cur)] = s \o ws]
        BY <1>1, <4>1, <4>2
      <4>. QED BY <1>1, <4>1, <4>3, <4>4
    <3>. QED BY <2>1, <3>1
  <2>3. Word(ins, 0) = ProcPtr(cur) /\ Word(ins, 1) = ProcPtr(cur')
    <3>1. \A k \in 0..(Len(ws) - 1) : Word(ins, k) = ws[Len(ws) - k]
      BY <1>1, <2>1, PushedWords
    <3> HIDE DEF ins
    <3>2. \A k \in 0..2 : Word(ins, k) = ws[3 - k]
      BY <2>1, <3>1
    <3>. QED BY <2>1, <3>2
  <2>4. Expected(m, Zero) = Expected([PushWords(Machine,
                               <<Code(cur, "run"), ProcPtr(cur'), ProcPtr(cur)>>)
                               EXCEPT !.cpu.ip = Code(cur, "afterSwitch")], Zero)
    BY DEF ws
  <2>5. /\ Become(SwitchByCall(PushWord(ins, aft), ctx).machine)
        /\ ctx' = SwitchByCall(PushWord(ins, aft), ctx).ctx
        /\ expect' = [expect EXCEPT ![cur] = Expected(m, Zero)]
    BY <1>6, <2>4 DEF CSSchedule, ws
  <2> HIDE DEF ins
  <2>6. m.cpu = [ins.cpu EXCEPT !.ip = aft] /\ m.mem = ins.mem /\ m \in Machines
    <3>1. ins.cpu \in CPUs /\ ins.mem \in Memories /\ aft \in Words
      BY <1>1, <2>2, PlacesAreWords DEF Machines
    <3>2. m.cpu = [ins.cpu EXCEPT !.ip = aft] /\ m.mem = ins.mem
      BY <2>2 DEF Machines
    <3>3. m.cpu \in CPUs
      BY <3>1, <3>2 DEF CPUs
    <3>. QED BY <2>2, <3>1, <3>2, <3>3 DEF Machines
  <2> HIDE DEF m
  <2>7. /\ \A st \in Stacks \ {StackOfProcess(cur)} : m.mem[st] = mem[st]
        /\ m.mem[StackOfProcess(cur)] = s \o ws
    BY <1>1, <2>2, <2>6 DEF Memories
  <2>8. InSchedule(cur, m.cpu, s \o ws) /\ m.cpu.sp = SP(StackOfProcess(cur), Len(s \o ws))
    <3>1. m.cpu.ip = aft /\ m.cpu.sp = SP(StackOfProcess(cur), Len(s) + 3)
      BY <1>1, <2>2, <2>6 DEF CPUs
    <3>2. Len(s \o ws) = Len(s) + 3 /\ (s \o ws)[Len(s) + 1] = ws[1]
      <4> HIDE DEF s
      <4>1. /\ Len(s \o ws) = Len(s) + Len(ws)
            /\ \A i \in 1..(Len(s) + Len(ws)) :
                  (s \o ws)[i] = IF i <= Len(s) THEN s[i] ELSE ws[i - Len(s)]
        BY <1>2, <2>1, ConcatProperties
      <4>2. Len(s) + 1 \in 1..(Len(s) + Len(ws)) /\ ~ (Len(s) + 1 <= Len(s))
            /\ Len(s) + 1 - Len(s) = 1
        BY <1>2, <2>1
      <4>. QED BY <2>1, <4>1, <4>2
    <3>3. Len(s) + 3 - 2 = Len(s) + 1 /\ Len(s) + 3 >= 3 /\ Len(s) + 3 <= MaxLocals + 3
      BY <1>2, ContextSwitchAssumption
    <3>. QED BY <2>1, <3>1, <3>2, <3>3 DEF InSchedule
  <2>9. LeftInOrder(m)
    BY <2>6, <2>7, <2>8 DEF LeftInOrder, InOrder
  <2>10. Fits(ctx[cur'], ins.mem) /\ ctx \in Contexts
    BY <1>4, <1>6, <2>6, <2>7, NextFits DEF CSInv, MachineType
  <2>11. /\ SwitchByCall(PushWord(ins, aft), ctx).machine.cpu = ctx[cur']
         /\ SwitchByCall(PushWord(ins, aft), ctx).machine.mem = ins.mem
         /\ SwitchByCall(PushWord(ins, aft), ctx).ctx =
               [ctx EXCEPT ![cur] = [ins.cpu EXCEPT !.ip = aft]]
    <3>1. aft \in Words
      BY <1>1, PlacesAreWords
    <3> HIDE DEF aft
    <3>2. /\ ins \in Machines /\ Balanced(ins) /\ cur \in Slots /\ cur' \in Slots /\ cur # cur'
          /\ Word(ins, 0) = ProcPtr(cur) /\ Word(ins, 1) = ProcPtr(cur')
      BY <1>1, <1>4, <1>6, <2>2, <2>3
    <3>. QED BY <2>10, <3>1, <3>2, SwitchByCallEffect
  <2>12. Switched(m, Zero)
    BY <1>6, <2>5, <2>6, <2>11 DEF Switched, Become
  <2>. QED BY <1>3, <1>4, <1>6, <2>9, <2>12, SwitchStep
<1>. QED BY <1>5, <1>6

\* int 0x80: the process leaves with the number of the call in eax.
LEMMA InterruptStep ==
    ASSUME CSInv, PoolInv', UNCHANGED stackBase, used' \subseteq used, cur' \in used',
           InProgram, NEW number \in Words, NEW res, CSInterrupt(number, res)
    PROVE  /\ CSInv'
           /\ cpu' = expect'[cur'].cpu
           /\ mem'[cpu'.sp.stack] = expect'[cur'].stack
<1> DEFINE s == mem[StackOfProcess(cur)]
           m == [Machine EXCEPT !.cpu.ax = number, !.cpu.ip = Code(cur, "afterInt")]
<1>1. /\ Machine \in Machines /\ Balanced(Machine) /\ Machine.cpu = cpu /\ Machine.mem = mem
      /\ StackAt(Machine) = s /\ cpu.sp.stack = StackOfProcess(cur)
      /\ cpu \in CPUs /\ mem \in Memories /\ StackOfProcess(cur) \in Stacks
      /\ cur \in Slots /\ cur \in used /\ used \subseteq Slots
      /\ cur' \in used /\ cur' \in Slots
  BY InvFacts
<1>2. cpu.sp = SP(StackOfProcess(cur), Len(s)) /\ Len(s) <= MaxLocals
  BY ProgramOrder DEF InItsProgram
<1>3. /\ m.cpu = [cpu EXCEPT !.ax = number, !.ip = Code(cur, "afterInt")]
      /\ m.mem = mem
  BY <1>1 DEF Machines
<1>4. m \in Machines
  <2>1. m.cpu \in CPUs
    <3>1. Code(cur, "afterInt") \in Words
      BY <1>1, PlacesAreWords
    <3> HIDE DEF m
    <3>. QED BY <1>1, <1>3, <3>1 DEF CPUs
  <2>. QED BY <1>1, <1>3, <2>1 DEF Machines
<1>5. /\ Become(SwitchByIRQ(InIRQ(m, cur, cur'), ctx).machine)
      /\ ctx' = SwitchByIRQ(InIRQ(m, cur, cur'), ctx).ctx
      /\ expect' = [expect EXCEPT ![cur] = Expected(m, res)]
  BY DEF CSInterrupt
<1> HIDE DEF m
<1>6. m.cpu.sp = cpu.sp /\ m.cpu.ip = Code(cur, "afterInt")
  BY <1>1, <1>3 DEF CPUs
<1>7. Balanced(m)
  BY <1>1, <1>3, <1>6 DEF Balanced, StackAt
<1>8. LeftInOrder(m)
  BY <1>2, <1>3, <1>4, <1>6 DEF LeftInOrder, InOrder, InItsProgram
<1>9. cur = cur' \/ Fits(ctx[cur'], m.mem)
  BY <1>1, <1>3, <1>4, NextFits
<1>10. ctx \in Contexts
  BY DEF CSInv, MachineType
<1>11. /\ SwitchByIRQ(InIRQ(m, cur, cur'), ctx).machine.cpu =
             IF cur = cur' THEN m.cpu ELSE ctx[cur']
       /\ SwitchByIRQ(InIRQ(m, cur, cur'), ctx).machine.mem = m.mem
       /\ SwitchByIRQ(InIRQ(m, cur, cur'), ctx).ctx = [ctx EXCEPT ![cur] = m.cpu]
  <2>1. cur \in Slots /\ cur' \in Slots
    BY <1>1
  <2>. QED BY <1>4, <1>7, <1>9, <1>10, <2>1, SwitchByIRQEffect
<1>12. Switched(m, res)
  BY <1>5, <1>11 DEF Switched, Become
<1>. QED BY <1>8, <1>12, SwitchStep

LEMMA WriteStep ==
    ASSUME CSInv, PoolInv', NEW fd, NEW count, SyscallWrite(fd, count)
    PROVE  /\ CSInv'
           /\ cpu' = expect'[cur'].cpu
           /\ mem'[cpu'.sp.stack] = expect'[cur'].stack
<1>1. cur' \in used /\ used' = used /\ UNCHANGED stackBase
  BY InvFacts, NextUsedIsUsed DEF SyscallWrite, Yield
<1>2. WriteNumber \in Words
  BY DEF WriteNumber, Number, Words, Kinds
<1>3. InProgram /\ CSInterrupt(WriteNumber, WriteResult(fd, count))
  BY DEF SyscallWrite
<1>. QED BY <1>1, <1>2, <1>3, InterruptStep

LEMMA ExitStep ==
    ASSUME CSInv, PoolInv', SyscallExit
    PROVE  /\ CSInv'
           /\ cpu' = expect'[cur'].cpu
           /\ mem'[cpu'.sp.stack] = expect'[cur'].stack
<1>1. KillProcess(cur) /\ cur' = NextUsed(cur, used') /\ UNCHANGED stackBase
  BY DEF SyscallExit, Exit
<1>2. used' \subseteq used /\ used' \subseteq Slots /\ 0 \in used'
  BY <1>1, InvFacts DEF KillProcess
<1>3. cur' \in used'
  BY <1>1, <1>2, InvFacts, NextUsedIsUsed
<1>4. ExitNumber \in Words
  BY DEF ExitNumber, Number, Words, Kinds
<1>5. InProgram /\ CSInterrupt(ExitNumber, ExitNumber)
  BY DEF SyscallExit
<1>. QED BY <1>1, <1>2, <1>3, <1>4, <1>5, InterruptStep

-----------------------------------------------------------------------------
(* The steps that create and kill processes. *)

LEMMA OwnStacksNext == PoolInv' => StacksOwned'
  BY OwnStacks, PTL

\* A new process starts in order, on a stack no other process has.
LEMMA CreateStep ==
    ASSUME CSInv, PoolInv', CSCreate
    PROVE  CSInv'
<1>p. PICK p : p = FirstFree
  OBVIOUS
<1> DEFINE a == stackBase'[p]
           c == [sp |-> SP(a, 0), ip |-> Code(p, "entry"), flags |-> EFlags2,
                 ax |-> Zero, dx |-> Zero, rest |-> Zero]
<1>1. /\ p \in Users /\ p \notin used
      /\ used' = used \cup {p} /\ cur' = cur /\ cpu' = cpu
      /\ stackBase' = [stackBase EXCEPT ![p] = AllocatedPtr(freeBlocks)]
  BY <1>p, FirstFreeIsFree DEF CSCreate, Create, FreeSlots
<1>2. p \in Slots /\ p # 0
  BY <1>1, SchedulerAssumption DEF Users, Slots
<1>3. /\ ctx' = [ctx EXCEPT ![p] = c]
      /\ expect' = [expect EXCEPT ![p] = [cpu |-> c, stack |-> <<>>, result |-> Zero]]
      /\ mem' = [mem EXCEPT ![a] = <<>>]
  BY <1>p DEF CSCreate
<1>4. /\ cur \in used /\ cur \in Slots /\ used \subseteq Slots
      /\ cpu \in CPUs /\ mem \in Memories /\ StackOfProcess(cur) \in Stacks
  BY InvFacts
<1>5. /\ ctx \in Contexts /\ DOMAIN expect = Slots
      /\ stackBase \in [Slots -> Addresses \cup {NULL}]
  BY PoolFacts DEF CSInv, MachineType
<1>6. \A q \in used : StackOfProcess(q)' = StackOfProcess(q)
  BY <1>1, <1>4, <1>5 DEF StackOfProcess
<1>7. StackOfProcess(p)' = a
  BY <1>2 DEF StackOfProcess
<1>8. a \in Stacks /\ \A q \in used : StackOfProcess(q) # a
  <2>1. StacksOwned'
    BY OwnStacksNext
  <2>2. \A q \in used' : StackOfProcess(q)' \in Stacks
    BY <2>1 DEF StacksOwned
  <2>3. \A q, r \in used' : StackOfProcess(q)' = StackOfProcess(r)' => q = r
    BY <2>1 DEF StacksOwned
  <2>4. p \in used' /\ \A q \in used : q \in used' /\ q # p
    BY <1>1
  <2>. QED BY <1>6, <1>7, <2>2, <2>3, <2>4
<1> HIDE DEF a
<1>9. c \in CPUs
  <2>1. SP(a, 0) \in Pointers
    BY <1>8 DEF SP, Pointers
  <2>2. Code(p, "entry") \in Words /\ EFlags2 \in Words /\ Zero \in Words
    BY <1>2, PlacesAreWords DEF EFlags2, Zero, Number, Words, Kinds
  <2>. QED BY <2>1, <2>2 DEF CPUs
<1>10. c.sp = SP(a, 0) /\ c.ip = Code(p, "entry")
  OBVIOUS
<1> HIDE DEF c
<1>11. MachineType'
  <2>1. mem' \in Memories
    <3>1. <<>> \in Seq(Words)
      OBVIOUS
    <3>. QED BY <1>3, <1>4, <3>1 DEF Memories
  <2>2. ctx' \in Contexts
    BY <1>3, <1>5, <1>9 DEF Contexts
  <2>3. DOMAIN expect' = Slots
    BY <1>3, <1>5
  <2>. QED BY <1>1, <1>4, <2>1, <2>2, <2>3 DEF MachineType, Machine, Machines
<1>12. \A q \in used : mem'[StackOfProcess(q)] = mem[StackOfProcess(q)]
  <2>1. \A q \in used : StackOfProcess(q) \in Stacks
    BY OwnStacks DEF CSInv, StacksOwned
  <2>. QED BY <1>3, <1>4, <1>8, <2>1 DEF Memories
<1>13. RunningInOrder'
  <2>1. InOrder(cur, StackOfProcess(cur), cpu, mem[StackOfProcess(cur)])
    BY DEF CSInv, RunningInOrder
  <2>. QED BY <1>1, <1>4, <1>6, <1>12, <2>1 DEF RunningInOrder
<1>14. SuspendedInOrder'
  <2> SUFFICES ASSUME NEW q \in used' \ {cur}
               PROVE  /\ InOrder(q, StackOfProcess(q)', ctx'[q], mem'[StackOfProcess(q)'])
                      /\ ctx'[q] = expect'[q].cpu
                      /\ mem'[StackOfProcess(q)'] = expect'[q].stack
    BY <1>1 DEF SuspendedInOrder
  <2>1. CASE q = p
    <3>1. /\ mem'[a] = <<>> /\ ctx'[p] = c
          /\ expect'[p] = [cpu |-> c, stack |-> <<>>, result |-> Zero]
      BY <1>2, <1>3, <1>4, <1>5, <1>8 DEF Memories, Contexts
    <3>2. InOrder(p, a, c, <<>>)
      BY <1>10, ContextSwitchAssumption DEF InOrder, InItsProgram
    <3>. QED BY <1>7, <2>1, <3>1, <3>2
  <2>2. CASE q # p
    <3>1. q \in used \ {cur} /\ q \in Slots
      BY <1>1, <1>4, <2>2
    <3>2. /\ InOrder(q, StackOfProcess(q), ctx[q], mem[StackOfProcess(q)])
          /\ ctx[q] = expect[q].cpu
          /\ mem[StackOfProcess(q)] = expect[q].stack
      BY <3>1 DEF CSInv, SuspendedInOrder
    <3>3. ctx'[q] = ctx[q] /\ expect'[q] = expect[q]
      BY <1>3, <1>5, <2>2, <3>1 DEF Contexts
    <3>4. StackOfProcess(q)' = StackOfProcess(q) /\ mem'[StackOfProcess(q)] = mem[StackOfProcess(q)]
      BY <1>6, <1>12, <3>1
    <3>. QED BY <3>2, <3>3, <3>4
  <2>. QED BY <2>1, <2>2
<1>. QED BY <1>11, <1>13, <1>14 DEF CSInv

\* Killing a process clears a stack no other live process has.
LEMMA KillStep ==
    ASSUME CSInv, PoolInv', KillsDead = FALSE, NEW pid \in Slots, CSKill(pid)
    PROVE  CSInv'
<1>1. /\ pid \in used /\ cur = 0 /\ cur' = cur /\ KillProcess(pid) /\ UNCHANGED stackBase
      /\ cpu' = cpu /\ ctx' = ctx
      /\ expect' = IF pid = 0 THEN expect ELSE [expect EXCEPT ![pid] = NoExpectation]
      /\ mem' = IF pid = 0 THEN mem ELSE [mem EXCEPT ![stackBase[pid]] = <<>>]
  BY DEF CSKill, Kill
<1>2. used' = used \ ({pid} \ {0})
  BY <1>1 DEF KillProcess
<1>3. \A q : StackOfProcess(q)' = StackOfProcess(q)
  BY <1>1 DEF StackOfProcess
<1>4. /\ cpu \in CPUs /\ mem \in Memories /\ cur \in Slots /\ cur \in used /\ used \subseteq Slots
      /\ ctx \in Contexts /\ DOMAIN expect = Slots
  BY InvFacts DEF CSInv, MachineType
<1>5. MachineType'
  <2>1. mem' \in Memories
    <3>1. <<>> \in Seq(Words)
      OBVIOUS
    <3>. QED BY <1>1, <1>4, <3>1 DEF Memories
  <2>2. DOMAIN expect' = Slots
    BY <1>1, <1>4
  <2>. QED BY <1>1, <1>4, <2>1, <2>2 DEF MachineType, Machine, Machines
<1>6. ASSUME NEW q \in used'
      PROVE  mem'[StackOfProcess(q)] = mem[StackOfProcess(q)] /\ expect'[q] = expect[q]
  <2>1. CASE pid = 0
    BY <1>1, <2>1
  <2>2. CASE pid # 0
    <3>1. q \in used /\ q # pid /\ q \in Slots
      BY <1>2, <1>4, <2>2
    <3>2. StackOfProcess(pid) = stackBase[pid]
      BY <2>2 DEF StackOfProcess
    <3>3. StackOfProcess(q) \in Stacks /\ StackOfProcess(q) # stackBase[pid]
      BY <1>1, <3>1, <3>2, OwnStacks DEF CSInv, StacksOwned
    <3>. QED BY <1>1, <1>4, <2>2, <3>1, <3>3 DEF Memories
  <2>. QED BY <2>1, <2>2
<1>7. cur \in used'
  BY <1>1, <1>2, <1>4
<1>8. RunningInOrder'
  <2>1. InOrder(cur, StackOfProcess(cur), cpu, mem[StackOfProcess(cur)])
    BY DEF CSInv, RunningInOrder
  <2>. QED BY <1>1, <1>3, <1>6, <1>7, <2>1 DEF RunningInOrder
<1>9. SuspendedInOrder'
  <2> SUFFICES ASSUME NEW q \in used' \ {cur}
               PROVE  /\ InOrder(q, StackOfProcess(q), ctx[q], mem'[StackOfProcess(q)])
                      /\ ctx[q] = expect'[q].cpu
                      /\ mem'[StackOfProcess(q)] = expect'[q].stack
    BY <1>1, <1>3 DEF SuspendedInOrder
  <2>1. q \in used \ {cur}
    BY <1>2
  <2>2. /\ InOrder(q, StackOfProcess(q), ctx[q], mem[StackOfProcess(q)])
        /\ ctx[q] = expect[q].cpu
        /\ mem[StackOfProcess(q)] = expect[q].stack
    BY <2>1 DEF CSInv, SuspendedInOrder
  <2>. QED BY <1>6, <2>2
<1>. QED BY <1>5, <1>8, <1>9 DEF CSInv

-----------------------------------------------------------------------------
(* The theorems. *)

LEMMA CSInvNext ==
    ASSUME KillsDead = FALSE
    PROVE  CSInv /\ [CSNext]_csvars => CSInv'
<1> SUFFICES ASSUME CSInv, [CSNext]_csvars PROVE CSInv'
  OBVIOUS
<1>1. PoolInv'
  <2>1. [Next]_vars
    BY StepOfScheduler DEF csvars, vars
  <2>. QED BY <2>1, PoolInvNext DEF CSInv
<1>2. ASSUME NEW v \in Values, Compute(v) PROVE CSInv'
  BY <1>2, ComputeStep
<1>3. CASE PushLocal
  BY <1>3, PushLocalStep
<1>4. CASE PopLocal
  BY <1>4, PopLocalStep
<1>5. CASE CSCreate
  BY <1>1, <1>5, CreateStep
<1>6. ASSUME NEW pid \in Slots, CSKill(pid) PROVE CSInv'
  BY <1>1, <1>6, KillStep
<1>7. CASE CSSchedule
  BY <1>1, <1>7, ScheduleStep
<1>8. CASE ReturnFromSchedule
  BY <1>8, ReturnStep
<1>9. ASSUME NEW w \in WriteArgs, SyscallWrite(w[1], w[2]) PROVE CSInv'
  BY <1>1, <1>9, WriteStep
<1>10. CASE SyscallExit
  BY <1>1, <1>10, ExitStep
<1>11. CASE UNCHANGED csvars
  BY <1>1, <1>11 DEF csvars, vars, CSInv, MachineType, Machine, RunningInOrder,
                     SuspendedInOrder, StackOfProcess
<1>. QED BY <1>2, <1>3, <1>4, <1>5, <1>6, <1>7, <1>8, <1>9, <1>10, <1>11 DEF CSNext

LEMMA CSInvAlways ==
    ASSUME KillsDead = FALSE
    PROVE  CSSpec => []CSInv
  BY CSInvInit, CSInvNext, PTL DEF CSSpec

\* Registers, contexts and stacks keep their types, and no live word of any
\* stack is ever one that was read past the top of a stack.
THEOREM ContextTypeCorrect ==
    ASSUME KillsDead = FALSE
    PROVE  CSSpec => []CSTypeOK
<1>1. CSInv => CSTypeOK
  <2> SUFFICES ASSUME CSInv PROVE CSTypeOK
    OBVIOUS
  <2>1. cpu \in CPUs /\ mem \in Memories /\ ctx \in Contexts
    BY InvFacts DEF CSInv, MachineType
  <2>2. \A c \in CPUs : DOMAIN c = Registers /\ IsPointer(c.sp)
    BY DEF CPUs, Pointers, Registers, IsPointer
  <2>3. ASSUME NEW s \in Stacks, NEW k \in 1..Len(mem[s]) PROVE mem[s][k] # Junk
    <3>1. mem[s] \in Seq(Words)
      BY <2>1 DEF Memories
    <3>. QED BY <3>1, WordsAreNotJunk
  <2>. QED BY <2>1, <2>2, <2>3 DEF CSTypeOK, Memories, Contexts
<1>. QED BY <1>1, CSInvAlways, PTL

\* No ret or iret ever goes anywhere but into the program of the process
\* running, however schedule() and int 0x80 are mixed.
THEOREM AlwaysReturnsToCaller ==
    ASSUME KillsDead = FALSE
    PROVE  CSSpec => []ReturnsToCaller
<1>1. CSInv => ReturnsToCaller
  BY DEF CSInv, RunningInOrder, InOrder, InItsProgram, InSchedule, ReturnsToCaller
<1>. QED BY <1>1, CSInvAlways, PTL

\* The running process is on its own stack, and neither way of giving the CPU
\* away leaves a word behind on it.
THEOREM StacksStayBalanced ==
    ASSUME KillsDead = FALSE
    PROVE  CSSpec => []StackBalanced
<1>1. CSInv => StackBalanced
  <2> SUFFICES ASSUME CSInv PROVE StackBalanced
    OBVIOUS
  <2> DEFINE s == mem[StackOfProcess(cur)]
  <2>1. /\ cpu.sp.stack = StackOfProcess(cur) /\ cpu.sp.depth = Len(s)
        /\ InItsProgram(cur, cpu, s) \/ InSchedule(cur, cpu, s)
    BY DEF CSInv, RunningInOrder, InOrder, SP
  <2>2. CASE InItsProgram(cur, cpu, s)
    <3>1. Place(cpu.ip) # "afterSwitch" /\ Len(s) <= MaxLocals
      BY <2>2, PlacesDiffer DEF InItsProgram
    <3>2. MaxLocals + 0 = MaxLocals
      BY ContextSwitchAssumption
    <3>. QED BY <2>1, <3>1, <3>2 DEF StackBalanced
  <2>3. CASE InSchedule(cur, cpu, s)
    <3>1. Place(cpu.ip) = "afterSwitch" /\ Len(s) <= MaxLocals + 3
      BY <2>3, PlacesDiffer DEF InSchedule
    <3>. QED BY <2>1, <3>1 DEF StackBalanced
  <2>. QED BY <2>1, <2>2, <2>3
<1>. QED BY <1>1, CSInvAlways, PTL

\* The saved registers and the stack of a suspended process stay as it left
\* them, whatever the others do and whoever is created or killed.
THEOREM SuspendedStaysIntact ==
    ASSUME KillsDead = FALSE
    PROVE  CSSpec => []SuspendedIntact
<1>1. CSInv => SuspendedIntact
  <2> SUFFICES ASSUME CSInv, NEW p \in used \ {cur}
               PROVE  ctx[p] = expect[p].cpu /\ mem[ctx[p].sp.stack] = expect[p].stack
    BY DEF SuspendedIntact
  <2>1. /\ ctx[p].sp = SP(StackOfProcess(p), Len(mem[StackOfProcess(p)]))
        /\ ctx[p] = expect[p].cpu
        /\ mem[StackOfProcess(p)] = expect[p].stack
    BY DEF CSInv, SuspendedInOrder, InOrder
  <2>2. ctx[p].sp.stack = StackOfProcess(p)
    BY <2>1 DEF SP
  <2>. QED BY <2>1, <2>2
<1>. QED BY <1>1, CSInvAlways, PTL

\* Whoever gets the CPU finds every register and every word of its stack as it
\* left them, by whichever of the two routines it and its predecessor left.
THEOREM AlwaysResumesExactly ==
    ASSUME KillsDead = FALSE
    PROVE  CSSpec => ResumesExactly
<1> DEFINE Exactly == (cur' # cur \/ expect'[cur'] \notin {expect[cur'], NoExpectation})
                         => /\ cpu' = expect'[cur'].cpu
                            /\ mem'[cpu'.sp.stack] = expect'[cur'].stack
<1>1. CSInv /\ [CSNext]_csvars => [Exactly]_csvars
  <2> SUFFICES ASSUME CSInv, CSNext PROVE Exactly
    OBVIOUS
  <2>1. PoolInv'
    BY StepOfScheduler, PoolInvNext DEF CSInv
  <2>2. ASSUME cur' = cur, expect'[cur] \in {expect[cur], NoExpectation} PROVE Exactly
    BY <2>2
  <2>3. cur \in Slots /\ DOMAIN expect = Slots
    BY InvFacts DEF CSInv, MachineType
  <2>4. ASSUME NEW v \in Values, Compute(v) PROVE Exactly
    BY <2>2, <2>3, <2>4 DEF Compute, vars
  <2>5. CASE PushLocal
    BY <2>2, <2>5 DEF PushLocal, vars
  <2>6. CASE PopLocal
    BY <2>2, <2>6 DEF PopLocal, vars
  <2>7. CASE CSCreate
    <3>1. cur' = cur /\ cur = 0 /\ FirstFree # 0
      BY <2>7, FirstFreeIsFree DEF CSCreate, Create, FreeSlots, Users
    <3>2. expect'[cur] = expect[cur]
      BY <2>3, <2>7, <3>1 DEF CSCreate
    <3>. QED BY <2>2, <3>1, <3>2
  <2>8. ASSUME NEW pid \in Slots, CSKill(pid) PROVE Exactly
    <3>1. cur' = cur /\ cur = 0
      BY <2>8 DEF CSKill, Kill
    <3>2. expect'[cur] = expect[cur]
      BY <2>3, <2>8, <3>1 DEF CSKill
    <3>. QED BY <2>2, <3>1, <3>2
  <2>9. CASE CSSchedule
    <3>1. /\ cur' # cur => /\ cpu' = expect'[cur'].cpu
                           /\ mem'[cpu'.sp.stack] = expect'[cur'].stack
          /\ cur' = cur => UNCHANGED csvars
      BY <2>1, <2>9, ScheduleStep
    <3>2. CASE cur' = cur
      BY <2>2, <3>1, <3>2 DEF csvars
    <3>3. CASE cur' # cur
      BY <3>1, <3>3
    <3>. QED BY <3>2, <3>3
  <2>10. CASE ReturnFromSchedule
    BY <2>2, <2>3, <2>10 DEF ReturnFromSchedule, vars
  <2>11. ASSUME NEW w \in WriteArgs, SyscallWrite(w[1], w[2]) PROVE Exactly
    BY <2>1, <2>11, WriteStep
  <2>12. CASE SyscallExit
    BY <2>1, <2>12, ExitStep
  <2>. QED BY <2>4, <2>5, <2>6, <2>7, <2>8, <2>9, <2>10, <2>11, <2>12 DEF CSNext
<1>. QED BY <1>1, CSInvAlways, PTL DEF CSSpec, ResumesExactly

-----------------------------------------------------------------------------
(* The descriptor tables. *)

\* The or of the access bytes that occur.
LEMMA OrFacts ==
    /\ BitOr(0, 128) = 128 /\ BitOr(128, 0) = 128
    /\ BitOr(128, 15) = 143 /\ BitOr(128, 14) = 142
  BY DEF BitOr

\* The bytes that add_IDT_entry writes over an empty entry.
IsBuilt(e, type, address) ==
    /\ e[0] = address % 256 /\ e[1] = (address \div 256) % 256
    /\ e[2] = 8 /\ e[3] = 0 /\ e[4] = 0
    /\ e[5] = 128 + type
    /\ e[6] = (address \div 65536) % 256 /\ e[7] = (address \div 16777216) % 256

LEMMA BuiltEntry ==
    ASSUME NEW type \in {14, 15}, NEW address
    PROVE  IsBuilt(WithOffset(WithSegment(WithGateType(WithPrivilege(WithPresentBit(
                       EmptyEntry, 1), 0), type), 8), address), type, address)
<1> DEFINE a == WithPresentBit(EmptyEntry, 1)
           b == WithPrivilege(a, 0)
           c == WithGateType(b, type)
           d == WithSegment(c, 8)
           e == WithOffset(d, address)
<1>1. /\ DOMAIN a = 0..7 /\ a[5] = 128
      /\ \A i \in 0..7 \ {5} : a[i] = 0
  BY OrFacts DEF WithPresentBit, EmptyEntry
<1>2. /\ DOMAIN b = 0..7 /\ b[5] = 128
      /\ \A i \in 0..7 \ {5} : b[i] = 0
  <2> HIDE DEF a
  <2>. QED BY <1>1, OrFacts DEF WithPrivilege
<1>3. /\ DOMAIN c = 0..7 /\ c[5] = 128 + type
      /\ \A i \in 0..7 \ {5} : c[i] = 0
  <2> HIDE DEF b
  <2>. QED BY <1>2, OrFacts DEF WithGateType, GateTypes
<1>4. /\ DOMAIN d = 0..7 /\ d[5] = 128 + type /\ d[2] = 8 /\ d[3] = 0
      /\ d[0] = 0 /\ d[1] = 0 /\ d[4] = 0
  <2> HIDE DEF c
  <2>. QED BY <1>3 DEF WithSegment
<1>5. IsBuilt(e, type, address)
  <2> HIDE DEF d
  <2>. QED BY <1>4 DEF WithOffset, IsBuilt
<1>. QED BY <1>5

\* The table after the first k entries are added.
T0 == Cleared(OldTable)
T1 == WithEntry(T0, Registered[1])
T2 == WithEntry(T1, Registered[2])
T3 == WithEntry(T2, Registered[3])
T4 == WithEntry(T3, Registered[4])
T5 == WithEntry(T4, Registered[5])

LEMMA IDTUnfolds == IDT = T5
<1> DEFINE Step(t) == [k \in 0..Len(Registered) |->
                          IF k = 0 THEN T0 ELSE WithEntry(t[k - 1], Registered[k])]
           tables == <<T1, T2, T3, T4, T5>>
           t == [k \in 0..5 |-> IF k = 0 THEN T0 ELSE tables[k]]
           built == CHOOSE u : u = Step(u)
<1>1. Len(Registered) = 5
  BY DEF Registered
<1>2. /\ t[0] = T0 /\ t[1] = T1 /\ t[2] = T2 /\ t[3] = T3 /\ t[4] = T4 /\ t[5] = T5
      /\ t = [k \in 0..5 |-> t[k]]
  <2> HIDE DEF Step
  <2>. QED OBVIOUS
<1>3. t = Step(t)
  <2> HIDE DEF t
  <2>1. ASSUME NEW k \in 0..5 PROVE t[k] = IF k = 0 THEN T0 ELSE WithEntry(t[k - 1], Registered[k])
    <3>1. k \in {0, 1, 2, 3, 4, 5}
      OBVIOUS
    <3>. QED BY <1>2, <3>1 DEF T1, T2, T3, T4, T5
  <2>2. t = [k \in 0..5 |-> IF k = 0 THEN T0 ELSE WithEntry(t[k - 1], Registered[k])]
    BY <1>2, <2>1
  <2>. QED BY <1>1, <2>2
<1>4. built = Step(built)
  <2> HIDE DEF Step, t
  <2>. QED BY <1>3
<1>5. IDT = built[5]
  BY <1>1 DEF IDT, T0
<1>6. /\ built[0] = T0
      /\ \A k \in 1..5 : built[k] = WithEntry(built[k - 1], Registered[k])
  <2> HIDE DEF built
  <2>1. \A k \in 0..5 : Step(built)[k] = IF k = 0 THEN T0 ELSE WithEntry(built[k - 1], Registered[k])
    BY <1>1
  <2> HIDE DEF Step
  <2>. QED BY <1>4, <2>1
<1>7. built[1] = T1 /\ built[2] = T2 /\ built[3] = T3 /\ built[4] = T4 /\ built[5] = T5
  <2> HIDE DEF built
  <2>1. built[1] = WithEntry(built[0], Registered[1])
    BY <1>6
  <2>2. built[2] = WithEntry(built[1], Registered[2])
    BY <1>6
  <2>3. built[3] = WithEntry(built[2], Registered[3])
    BY <1>6
  <2>4. built[4] = WithEntry(built[3], Registered[4])
    BY <1>6
  <2>5. built[5] = WithEntry(built[4], Registered[5])
    BY <1>6
  <2>. QED BY <1>6, <2>1, <2>2, <2>3, <2>4, <2>5 DEF T1, T2, T3, T4, T5
<1>. QED BY <1>5, <1>7

\* Adding a gate of the kernel to an empty entry writes its bytes there and
\* changes no other entry.
LEMMA EntryAdded ==
    ASSUME NEW t, DOMAIN t = Vectors, NEW v \in DOMAIN Handlers, t[v] = EmptyEntry,
           NEW type \in {Trap32, Interrupt32}
    PROVE  LET u == WithEntry(t, Gate(v, 0, type, 8))
           IN  /\ DOMAIN u = Vectors
               /\ IsBuilt(u[v], type, Handlers[v])
               /\ \A w \in Vectors \ {v} : u[w] = t[w]
<1>1. v \in Vectors /\ type \in {14, 15}
  BY DescriptorsAssumption DEF Vectors, DivideError, InvalidOpcode, SegmentNotPresent,
     GeneralProtection, LinuxSyscall, Trap32, Interrupt32
<1> DEFINE g == Gate(v, 0, type, 8)
           e == WithOffset(WithSegment(WithGateType(WithPrivilege(WithPresentBit(
                    EmptyEntry, 1), 0), type), 8), Handlers[v])
<1>2. IsBuilt(e, type, Handlers[v])
  BY <1>1, BuiltEntry
<1>3. g.vector = v /\ g.privilege = 0 /\ g.type = type /\ g.selector = 8 /\ g.offset = Handlers[v]
  BY DEF Gate
<1>4. WithEntry(t, g) = [t EXCEPT ![v] = e]
  <2> HIDE DEF g
  <2>. QED BY <1>1, <1>3 DEF WithEntry
<1>. QED
  <2> HIDE DEF e
  <2>. QED BY <1>1, <1>2, <1>4

Kind(v) == IF v = LinuxSyscall THEN Interrupt32 ELSE Trap32

\* Every vector with a handler has the bytes of its gate, every other is empty.
LEMMA IDTEntries ==
    /\ \A v \in DOMAIN Handlers : IsBuilt(IDT[v], Kind(v), Handlers[v])
    /\ \A v \in Vectors \ DOMAIN Handlers : IDT[v] = EmptyEntry
<1> USE DEF DivideError, InvalidOpcode, SegmentNotPresent, GeneralProtection, LinuxSyscall
<1>1. DOMAIN Handlers = {0, 6, 11, 13, 128}
  BY DescriptorsAssumption
<1>2. /\ Registered[1] = Gate(0, 0, Trap32, 8) /\ Registered[2] = Gate(6, 0, Trap32, 8)
      /\ Registered[3] = Gate(11, 0, Trap32, 8) /\ Registered[4] = Gate(13, 0, Trap32, 8)
      /\ Registered[5] = Gate(128, 0, Interrupt32, 8)
  BY DEF Registered
<1>3. DOMAIN T0 = Vectors /\ \A v \in Vectors : T0[v] = EmptyEntry
  BY DEF T0, Cleared, Limit, Vectors
<1>4. {0, 6, 11, 13, 128} \subseteq Vectors
  BY DEF Vectors
<1>5. /\ DOMAIN T1 = Vectors /\ IsBuilt(T1[0], Trap32, Handlers[0])
      /\ \A v \in Vectors \ {0} : T1[v] = EmptyEntry
  <2>1. T0[0] = EmptyEntry /\ 0 \in DOMAIN Handlers
    BY <1>1, <1>3, <1>4
  <2>. QED BY <1>2, <1>3, <2>1, EntryAdded DEF T1
<1>6. /\ DOMAIN T2 = Vectors /\ IsBuilt(T2[6], Trap32, Handlers[6]) /\ T2[0] = T1[0]
      /\ \A v \in Vectors \ {0, 6} : T2[v] = EmptyEntry
  <2>1. T1[6] = EmptyEntry /\ 6 \in DOMAIN Handlers
    BY <1>1, <1>4, <1>5
  <2>. QED BY <1>2, <1>4, <1>5, <2>1, EntryAdded DEF T2
<1>7. /\ DOMAIN T3 = Vectors /\ IsBuilt(T3[11], Trap32, Handlers[11])
      /\ T3[0] = T1[0] /\ T3[6] = T2[6]
      /\ \A v \in Vectors \ {0, 6, 11} : T3[v] = EmptyEntry
  <2>1. T2[11] = EmptyEntry /\ 11 \in DOMAIN Handlers
    BY <1>1, <1>4, <1>6
  <2>. QED BY <1>2, <1>4, <1>6, <2>1, EntryAdded DEF T3
<1>8. /\ DOMAIN T4 = Vectors /\ IsBuilt(T4[13], Trap32, Handlers[13])
      /\ T4[0] = T1[0] /\ T4[6] = T2[6] /\ T4[11] = T3[11]
      /\ \A v \in Vectors \ {0, 6, 11, 13} : T4[v] = EmptyEntry
  <2>1. T3[13] = EmptyEntry /\ 13 \in DOMAIN Handlers
    BY <1>1, <1>4, <1>7
  <2>. QED BY <1>2, <1>4, <1>7, <2>1, EntryAdded DEF T4
<1>9. /\ DOMAIN T5 = Vectors /\ IsBuilt(T5[128], Interrupt32, Handlers[128])
      /\ T5[0] = T1[0] /\ T5[6] = T2[6] /\ T5[11] = T3[11] /\ T5[13] = T4[13]
      /\ \A v \in Vectors \ {0, 6, 11, 13, 128} : T5[v] = EmptyEntry
  <2>1. T4[128] = EmptyEntry /\ 128 \in DOMAIN Handlers
    BY <1>1, <1>4, <1>8
  <2>. QED BY <1>2, <1>4, <1>8, <2>1, EntryAdded DEF T5
<1>. QED BY <1>1, <1>5, <1>6, <1>7, <1>8, <1>9, IDTUnfolds DEF Kind

\* An address is put together again from the four bytes it was taken apart into.
LEMMA AddressBytes ==
    ASSUME NEW a, IsAddress(a)
    PROVE  LET b0 == a % 256
               b1 == (a \div 256) % 256
               b2 == (a \div 65536) % 256
               b3 == (a \div 16777216) % 256
           IN  /\ b0 + b1 * 256 + b2 * 65536 + b3 * 16777216 = a
               /\ b0 + 256 * (b1 + 256 * (b2 + 256 * b3)) = a
  BY SMT DEF IsAddress, Byte

\* What the CPU and the print functions find in the bytes of a gate.
LEMMA BuiltReads ==
    ASSUME NEW e, NEW type \in {14, 15}, NEW a, IsAddress(a),
           IsBuilt(e, type, a)
    PROVE  /\ Decoded(e) = [present |-> 1, privilege |-> 0, type |-> type, selector |-> 8,
                            offset |-> a]
           /\ e[0] + 256 * (e[1] + 256 * (e[6] + 256 * e[7])) = a
           /\ e[2] + 256 * e[3] = 8
           /\ e[5] % 32 = type /\ e[5] % 16 = type /\ e[5] >= 128
<1>1. e[5] = 143 \/ e[5] = 142
  BY DEF IsBuilt
<1>2. /\ e[5] \div 128 = 1 /\ (e[5] \div 32) % 4 = 0
      /\ e[5] % 32 = type /\ e[5] % 16 = type /\ e[5] >= 128
  BY DEF IsBuilt
<1>3. e[2] + 256 * e[3] = 8 /\ e[2] + e[3] * 256 = 8
  BY DEF IsBuilt
<1>4. /\ e[0] + e[1] * 256 + e[6] * 65536 + e[7] * 16777216 = a
      /\ e[0] + 256 * (e[1] + 256 * (e[6] + 256 * e[7])) = a
  BY AddressBytes, SMT DEF IsBuilt
<1>. QED BY <1>2, <1>3, <1>4, SMT DEF Decoded

LEMMA HandlerFacts ==
    /\ DOMAIN Handlers = {0, 6, 11, 13, 128}
    /\ DOMAIN Handlers \subseteq Vectors /\ GeneralProtection \in DOMAIN Handlers
    /\ \A v \in DOMAIN Handlers :
          /\ Kind(v) \in {14, 15} /\ (Kind(v) = 14 <=> v = LinuxSyscall)
          /\ IsAddress(Handlers[v])
  BY DescriptorsAssumption DEF DivideError, InvalidOpcode, SegmentNotPresent,
     GeneralProtection, LinuxSyscall, Vectors, Kind, Trap32, Interrupt32

\* The entry that add_IDT_entry is asked for, by its vector.
LEMMA RegisteredFacts ==
    /\ {Registered[k].vector : k \in 1..Len(Registered)} = DOMAIN Handlers
    /\ \A k \in 1..Len(Registered) :
          LET g == Registered[k]
          IN  /\ g.vector \in DOMAIN Handlers /\ g.privilege = 0 /\ g.selector = 8
              /\ g.type = Kind(g.vector) /\ g.offset = Handlers[g.vector]
<1> USE DEF DivideError, InvalidOpcode, SegmentNotPresent, GeneralProtection, LinuxSyscall
<1>1. Len(Registered) = 5 /\ DOMAIN Handlers = {0, 6, 11, 13, 128}
  BY HandlerFacts DEF Registered
<1>2. /\ Registered[1] = Gate(0, 0, Trap32, 8) /\ Registered[2] = Gate(6, 0, Trap32, 8)
      /\ Registered[3] = Gate(11, 0, Trap32, 8) /\ Registered[4] = Gate(13, 0, Trap32, 8)
      /\ Registered[5] = Gate(128, 0, Interrupt32, 8)
  BY DEF Registered
<1>3. ASSUME NEW k \in 1..Len(Registered)
      PROVE  LET g == Registered[k]
             IN  /\ g.vector \in DOMAIN Handlers /\ g.privilege = 0 /\ g.selector = 8
                 /\ g.type = Kind(g.vector) /\ g.offset = Handlers[g.vector]
  <2>1. k \in {1, 2, 3, 4, 5}
    BY <1>1
  <2>. QED BY <1>1, <1>2, <2>1 DEF Gate, Kind
<1>4. /\ Registered[1].vector = 0 /\ Registered[2].vector = 6 /\ Registered[3].vector = 11
      /\ Registered[4].vector = 13 /\ Registered[5].vector = 128
  BY <1>2 DEF Gate
<1>5. {Registered[k].vector : k \in 1..Len(Registered)} = DOMAIN Handlers
  <2>1. \A v \in DOMAIN Handlers : \E k \in 1..Len(Registered) : v = Registered[k].vector
    BY <1>1, <1>4
  <2>. QED BY <1>3, <2>1, Zenon
<1>. QED BY <1>3, <1>5

\* A vector is entered by its own gate if a handler is registered for it, and by
\* the gate of the general protection fault if not.
LEMMA GateEntered ==
    \A v \in Vectors :
        /\ Accepted(v) <=> v \in DOMAIN Handlers
        /\ Entered(v) = IF v \in DOMAIN Handlers THEN v ELSE GeneralProtection
<1>1. ASSUME NEW v \in Vectors PROVE Accepted(v) <=> v \in DOMAIN Handlers
  <2>1. v * 8 + 7 <= Limit
    BY DEF Vectors, Limit
  <2>2. CASE v \in DOMAIN Handlers
    <3>1. IDT[v][5] % 32 = Kind(v) /\ IDT[v][5] >= 128 /\ Kind(v) \in GateTypes
      BY <2>2, HandlerFacts, IDTEntries, BuiltReads DEF GateTypes
    <3>. QED BY <2>1, <2>2, <3>1 DEF Accepted
  <2>3. CASE v \notin DOMAIN Handlers
    <3>1. IDT[v][5] = 0
      BY <2>3, IDTEntries DEF EmptyEntry
    <3>. QED BY <2>3, <3>1 DEF Accepted
  <2>. QED BY <2>2, <2>3
<1>2. GeneralProtection \in Vectors /\ Accepted(GeneralProtection)
  BY <1>1, HandlerFacts
<1>. QED BY <1>1, <1>2 DEF Entered

LEMMA EntersCorrectly == EntersAsRegistered
<1> SUFFICES ASSUME NEW k \in 1..Len(Registered)
             PROVE  LET v == Registered[k].vector
                    IN  /\ Entered(v) = v
                        /\ Target(v).ip = Registered[k].offset
                        /\ Number(Target(v).selector) = KernelCS
                        /\ Target(v).masks <=> v = LinuxSyscall
  BY DEF EntersAsRegistered
<1> DEFINE v == Registered[k].vector
<1>1. v \in DOMAIN Handlers /\ v \in Vectors /\ Registered[k].offset = Handlers[v]
  BY RegisteredFacts, HandlerFacts
<1> HIDE DEF v
<1>2. Entered(v) = v
  BY <1>1, GateEntered
<1>3. /\ IDT[v][0] + 256 * (IDT[v][1] + 256 * (IDT[v][6] + 256 * IDT[v][7])) = Handlers[v]
      /\ IDT[v][2] + 256 * IDT[v][3] = 8
      /\ IDT[v][5] % 16 = Kind(v)
  <2>1. IsBuilt(IDT[v], Kind(v), Handlers[v])
    BY <1>1, IDTEntries
  <2>2. Kind(v) \in {14, 15} /\ IsAddress(Handlers[v])
    BY <1>1, HandlerFacts
  <2>. QED BY <2>1, <2>2, BuiltReads
<1>4. /\ Target(v).ip = Handlers[v] /\ Target(v).selector = 8
      /\ Target(v).masks <=> Kind(v) \in {6, 14}
  BY <1>3 DEF Target
<1>5. Target(v).masks <=> v = LinuxSyscall
  BY <1>1, <1>4, HandlerFacts
<1>. QED BY <1>1, <1>2, <1>4, <1>5 DEF v, KernelCS

LEMMA PrintedEntries ==
    /\ DOMAIN PrintedIDT = DOMAIN Handlers
    /\ \A v \in DOMAIN Handlers :
          PrintedIDT[v] = [present |-> 1, privilege |-> 0, type |-> Kind(v), selector |-> 8,
                           offset |-> Handlers[v]]
<1>1. 0..((Limit + 1) \div 8 - 1) = Vectors
  BY DEF Limit, Vectors
<1>2. \A v \in DOMAIN Handlers :
          Decoded(IDT[v]) = [present |-> 1, privilege |-> 0, type |-> Kind(v), selector |-> 8,
                             offset |-> Handlers[v]]
  BY HandlerFacts, IDTEntries, BuiltReads
<1>3. \A v \in Vectors \ DOMAIN Handlers : Decoded(IDT[v]).present = 0
  BY IDTEntries, SMT DEF EmptyEntry, Decoded
<1>4. \A v \in Vectors : Decoded(IDT[v]).present # 0 <=> v \in DOMAIN Handlers
  <2>1. ASSUME NEW v \in DOMAIN Handlers PROVE Decoded(IDT[v]).present # 0
    <3> DEFINE d == Decoded(IDT[v])
    <3>1. d = [present |-> 1, privilege |-> 0, type |-> Kind(v), selector |-> 8,
               offset |-> Handlers[v]]
      BY <1>2
    <3> HIDE DEF d
    <3>2. d.present = 1
      BY <3>1
    <3>. QED BY <3>2 DEF d
  <2>. QED BY <1>3, <2>1
<1>5. {v \in Vectors : Decoded(IDT[v]).present # 0} = DOMAIN Handlers
  BY <1>4, HandlerFacts
<1>. QED BY <1>1, <1>2, <1>5 DEF PrintedIDT

\* A flat descriptor of ring 0 code is printed as one.
LEMMA FlatCodeReads ==
    ASSUME NEW e \in Entries, FlatKernelCode(e)
    PROVE  IsFlatCode(Segment(e))
<1> DEFINE f == e[6] \div 16
<1>1. /\ e[2] + e[3] * 256 + e[4] * 65536 + e[7] * 16777216 = 0
      /\ e[0] + e[1] * 256 + (e[6] % 16) * 65536 = 1048575
  BY SMT DEF FlatKernelCode
<1>2. /\ (e[5] \div 128) % 2 = 1 /\ (e[5] \div 32) % 4 = 0 /\ (e[5] \div 16) % 2 = 1
      /\ (e[5] \div 8) % 2 = 1
  BY DEF FlatKernelCode
<1>3. (f \div 8) % 2 = 1 /\ (f \div 4) % 2 = 1 /\ (f \div 2) % 2 = 0
  <2>1. e[6] \in Int /\ e[6] \div 32 = 6
    BY DEF Entries, Byte, FlatKernelCode
  <2>2. f = 12 \/ f = 13
    BY <2>1
  <2>. QED BY <2>2
<1> DEFINE s == Segment(e)
<1>4. s.base = 0 /\ s.limit = 1048575
  BY <1>1, SMT DEF Segment
<1>5. s.present = 1 /\ s.privilege = 0 /\ s.type = 1 /\ s.executable = 1
  BY <1>2, SMT DEF Segment
<1>6. s.granularity = 1 /\ s.size = 1 /\ s.longMode = 0
  BY <1>3, SMT DEF Segment
<1>. QED BY <1>4, <1>5, <1>6, SMT DEF IsFlatCode

\* The tables are printed as they were built.
LEMMA PrintsCorrectly == PrintsAsRegistered
<1>1. DOMAIN PrintedIDT = {Registered[k].vector : k \in 1..Len(Registered)}
  BY PrintedEntries, RegisteredFacts
<1>2. ASSUME NEW k \in 1..Len(Registered),
             NEW field \in {"privilege", "type", "selector", "offset"}
      PROVE  PrintedIDT[Registered[k].vector][field] = Registered[k][field]
  <2> DEFINE g == Registered[k]
  <2>1. /\ g.vector \in DOMAIN Handlers /\ g.privilege = 0 /\ g.selector = 8
        /\ g.type = Kind(g.vector) /\ g.offset = Handlers[g.vector]
    BY RegisteredFacts
  <2> HIDE DEF g
  <2>2. PrintedIDT[g.vector] = [present |-> 1, privilege |-> 0, type |-> Kind(g.vector),
                                selector |-> 8, offset |-> Handlers[g.vector]]
    BY <2>1, PrintedEntries
  <2>3. PrintedIDT[g.vector][field] = g[field]
    BY <2>1, <2>2
  <2>. QED BY <2>3 DEF g
<1>3. ASSUME NEW v \in DOMAIN PrintedIDT
      PROVE  IsFlatCode(PrintedGDT[PrintedIDT[v].selector \div 8 + 1])
  <2>1. PrintedIDT[v].selector = 8
    BY PrintedEntries
  <2>2. PrintedIDT[v].selector \div 8 + 1 = 2
    BY <2>1
  <2>3. LoaderGDT[2] \in Entries /\ FlatKernelCode(LoaderGDT[2]) /\ 2 \in 1..Len(LoaderGDT)
    BY DescriptorsAssumption
  <2>4. PrintedGDT[2] = Segment(LoaderGDT[2])
    BY <2>3 DEF PrintedGDT
  <2>. QED BY <2>2, <2>3, <2>4, FlatCodeReads
<1>. QED BY <1>1, <1>2, <1>3 DEF PrintsAsRegistered

\* While programs run, every gate of the interrupt table leads where it was
\* registered, with the code segment and the masking it was registered with, the
\* tables are printed so, and every other vector gives the general protection
\* fault: for any handlers' addresses and whatever the memory of the table held
\* before configure_interrupt_descriptor_table.
THEOREM GatesStayRegistered == CSSpec => []GatesAsRegistered
<1>1. NoOtherGate
  BY GateEntered, HandlerFacts DEF NoOtherGate
<1>2. GatesAsRegistered
  BY <1>1, EntersCorrectly, PrintsCorrectly DEF GatesAsRegistered
<1>. QED BY <1>2, PTL
=============================================================================
