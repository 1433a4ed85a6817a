----------------------------- MODULE HeapProofs -----------------------------
(***************************************************************************)
(* Theorems about Heap, for every number and size of blocks and red zones  *)
(* that HeapAssumption allows, and about ByteStackBuffer, the stack behind *)
(* its free list, for every size of the buffer and all values.             *)
(***************************************************************************)
EXTENDS Heap, ByteStackBuffer, ListFacts, SequenceTheorems

BlockAddresses == {AddressOf(i) : i \in Indexes}

LEMMA StridePositive == Stride \in Nat \ {0}
  BY HeapAssumption DEF Stride

\* A block's address is not NULL, and leads back to the block.
LEMMA BlockOfAddress ==
    ASSUME NEW i \in Indexes
    PROVE  /\ AddressOf(i) \in Nat
           /\ AddressOf(i) # NULL
           /\ IndexOf(AddressOf(i)) = i
<1> DEFINE off == i * Stride
<1>1. /\ i \in Nat /\ i < 256
      /\ BufferStart \in Nat \ {0}
  BY HeapAssumption DEF Indexes
<1>2. off \in Nat /\ off \div Stride = i
  BY <1>1, StridePositive, BlockOffset
<1>3. AddressOf(i) = BufferStart + off
  BY DEF AddressOf
<1> HIDE DEF off
<1>4. AddressOf(i) \in Nat /\ AddressOf(i) # NULL
  BY <1>1, <1>2, <1>3 DEF NULL
<1>5. AddressOf(i) - BufferStart = off
  BY <1>1, <1>2, <1>3
<1>6. IndexOf(AddressOf(i)) = i % 256
  BY <1>2, <1>5 DEF IndexOf
<1>7. i % 256 = i
  BY <1>1
<1>. QED BY <1>4, <1>6, <1>7

\* What is known of an address a caller holds.
LEMMA AddressOfBlock ==
    ASSUME NEW a \in BlockAddresses
    PROVE  a # NULL /\ IndexOf(a) \in Indexes /\ AddressOf(IndexOf(a)) = a
<1>1. PICK i \in Indexes : a = AddressOf(i)
  BY DEF BlockAddresses
<1>. QED BY <1>1, BlockOfAddress

LEMMA DistinctAddresses ==
    ASSUME NEW i \in Indexes, NEW j \in Indexes, AddressOf(i) = AddressOf(j)
    PROVE  i = j
  BY BlockOfAddress

-----------------------------------------------------------------------------
(* The inductive invariant: the type and the books. *)

HeapInv == TypeOK /\ BlocksAccounted

LEMMA HeapInvInit == Init => HeapInv
<1> SUFFICES ASSUME Init PROVE HeapInv
  OBVIOUS
<1>1. BlockCount \in Nat
  BY HeapAssumption
<1>2. freeBlocks = [k \in 1..BlockCount |-> k - 1] /\ held = {} /\ result = NoResult
  BY DEF Init
<1>3. freeBlocks \in Seq(Indexes) /\ Len(freeBlocks) = BlockCount
  <2>1. \A k \in 1..BlockCount : k - 1 \in Indexes
    BY <1>1 DEF Indexes
  <2>. QED BY <1>1, <1>2, <2>1
<1>4. NoDuplicates(freeBlocks)
  BY <1>1, <1>2, <1>3 DEF NoDuplicates
<1>5. Cells(freeBlocks) = Indexes
  <2>1. ASSUME NEW i \in Indexes PROVE i \in Cells(freeBlocks)
    <3>1. i + 1 \in 1..BlockCount /\ freeBlocks[i + 1] = i
      BY <1>1, <1>2 DEF Indexes
    <3>. QED BY <1>3, <3>1 DEF Cells
  <2>2. ASSUME NEW k \in 1..BlockCount PROVE freeBlocks[k] \in Indexes
    BY <1>1, <1>2 DEF Indexes
  <2>. QED BY <1>3, <2>1, <2>2 DEF Cells
<1>. QED BY <1>2, <1>3, <1>4, <1>5 DEF HeapInv, TypeOK, BlocksAccounted, NoResult

\* What an allocation that succeeds does, in terms of blocks.
LEMMA MallocEffect ==
    ASSUME HeapInv, NEW size, Malloc(size), size \in 1..BlockSize, CanPop(freeBlocks)
    PROVE  \E i \in Indexes :
              /\ AddressOf(i) \notin held
              /\ result' = Malloced(size, AddressOf(i))
              /\ held' = held \cup {AddressOf(i)}
              /\ freeBlocks' \in Seq(Indexes)
              /\ NoDuplicates(freeBlocks')
              /\ Cells(freeBlocks') = Cells(freeBlocks) \ {i}
<1> DEFINE i == Top(freeBlocks)
<1>1. freeBlocks \in Seq(Indexes) /\ NoDuplicates(freeBlocks)
      /\ Cells(freeBlocks) = {j \in Indexes : AddressOf(j) \notin held}
  BY DEF HeapInv, TypeOK, BlocksAccounted
<1>2. i \in Indexes /\ Pop(freeBlocks) \in Seq(Indexes)
  BY <1>1, PopType
<1>3. NoDuplicates(Pop(freeBlocks)) /\ i \in Cells(freeBlocks)
      /\ Cells(Pop(freeBlocks)) = Cells(freeBlocks) \ {i}
  BY <1>1, PopFresh
<1>4. Popped(freeBlocks) = AddressOf(i) /\ AddressOf(i) # NULL
  <2>1. ~ (i >= BlockCount)
    BY <1>2, HeapAssumption DEF Indexes
  <2>. QED BY <1>2, <2>1, BlockOfAddress DEF Popped
<1>5. /\ freeBlocks' = Pop(freeBlocks)
      /\ result' = Malloced(size, AddressOf(i))
      /\ held' = held \cup {AddressOf(i)}
  BY <1>4 DEF Malloc
<1>6. AddressOf(i) \notin held
  BY <1>1, <1>3
<1>. QED BY <1>2, <1>3, <1>5, <1>6

\* What a free of a held block does.
LEMMA FreeEffect ==
    ASSUME HeapInv, NEW p \in held, Free(p)
    PROVE  /\ held' = held \ {p}
           /\ freeBlocks' \in Seq(Indexes)
           /\ NoDuplicates(freeBlocks')
           /\ Cells(freeBlocks') = Cells(freeBlocks) \cup {IndexOf(p)}
<1> DEFINE i == IndexOf(p)
<1>1. freeBlocks \in Seq(Indexes) /\ NoDuplicates(freeBlocks)
      /\ Cells(freeBlocks) = {j \in Indexes : AddressOf(j) \notin held}
      /\ p \in BlockAddresses
  BY DEF HeapInv, TypeOK, BlocksAccounted, BlockAddresses
<1>2. p # NULL /\ i \in Indexes /\ AddressOf(i) = p
  BY <1>1, AddressOfBlock
<1>3. i \notin Cells(freeBlocks)
  BY <1>1, <1>2
<1>4. freeBlocks' = Push(freeBlocks, i, BlockCount) /\ held' = held \ {p}
  BY <1>2 DEF Free
<1>5. BlockCount \in Nat
  BY HeapAssumption
<1>6. CanPush(freeBlocks, BlockCount)
  BY <1>1, <1>2, <1>3, <1>5, RoomLeft DEF Indexes
<1>7. NoDuplicates(freeBlocks') /\ Cells(freeBlocks') = Cells(freeBlocks) \cup {i}
  BY <1>1, <1>2, <1>3, <1>4, <1>5, <1>6, PushFresh
<1>8. freeBlocks' \in Seq(Indexes)
  BY <1>1, <1>2, <1>4, <1>6 DEF Push
<1>. QED BY <1>4, <1>7, <1>8

LEMMA HeapInvMalloc ==
    ASSUME HeapInv, NEW size, Malloc(size)
    PROVE  HeapInv'
<1>1. CASE size \in 1..BlockSize /\ CanPop(freeBlocks)
  <2>1. PICK i \in Indexes :
              /\ AddressOf(i) \notin held
              /\ result' = Malloced(size, AddressOf(i))
              /\ held' = held \cup {AddressOf(i)}
              /\ freeBlocks' \in Seq(Indexes)
              /\ NoDuplicates(freeBlocks')
              /\ Cells(freeBlocks') = Cells(freeBlocks) \ {i}
    BY <1>1, MallocEffect
  <2>2. TypeOK'
    BY <2>1 DEF HeapInv, TypeOK, Malloced
  <2>3. ASSUME NEW j \in Indexes
        PROVE  j \in Cells(freeBlocks') <=> AddressOf(j) \notin held'
    BY <2>1, DistinctAddresses DEF HeapInv, BlocksAccounted
  <2>4. Cells(freeBlocks') \subseteq Indexes
    BY <2>1 DEF HeapInv, BlocksAccounted
  <2>. QED BY <2>1, <2>2, <2>3, <2>4 DEF HeapInv, BlocksAccounted
<1>2. CASE ~ (size \in 1..BlockSize /\ CanPop(freeBlocks))
  <2>1. result' = Malloced(size, NULL) /\ UNCHANGED <<freeBlocks, held>>
    BY <1>2 DEF Malloc
  <2>. QED BY <2>1 DEF Malloced, HeapInv, TypeOK, BlocksAccounted
<1>. QED BY <1>1, <1>2

LEMMA HeapInvFree ==
    ASSUME HeapInv, NEW p \in held \cup {NULL}, Free(p)
    PROVE  HeapInv'
<1>1. NULL \notin held
  BY AddressOfBlock DEF HeapInv, TypeOK, BlockAddresses
<1>2. CASE p = NULL
  <2>1. freeBlocks' = freeBlocks /\ held' = held /\ result' = NoResult
    BY <1>1, <1>2 DEF Free
  <2>. QED BY <2>1 DEF NoResult, HeapInv, TypeOK, BlocksAccounted
<1>3. CASE p \in held
  <2>1. /\ held' = held \ {p}
        /\ freeBlocks' \in Seq(Indexes)
        /\ NoDuplicates(freeBlocks')
        /\ Cells(freeBlocks') = Cells(freeBlocks) \cup {IndexOf(p)}
        /\ result' = NoResult
    BY <1>3, FreeEffect DEF Free
  <2>2. IndexOf(p) \in Indexes /\ AddressOf(IndexOf(p)) = p
    BY <1>3, AddressOfBlock DEF HeapInv, TypeOK, BlockAddresses
  <2>3. TypeOK'
    BY <2>1 DEF NoResult, HeapInv, TypeOK
  <2>4. ASSUME NEW j \in Indexes
        PROVE  j \in Cells(freeBlocks') <=> AddressOf(j) \notin held'
    BY <2>1, <2>2, DistinctAddresses DEF HeapInv, BlocksAccounted
  <2>5. Cells(freeBlocks') \subseteq Indexes
    BY <2>1, <2>2 DEF HeapInv, BlocksAccounted
  <2>. QED BY <2>1, <2>3, <2>4, <2>5 DEF HeapInv, BlocksAccounted
<1>. QED BY <1>2, <1>3

LEMMA HeapInvNext == HeapInv /\ [Next]_vars => HeapInv'
<1> SUFFICES ASSUME HeapInv, [Next]_vars PROVE HeapInv'
  OBVIOUS
<1>1. ASSUME NEW size \in Sizes, Malloc(size) PROVE HeapInv'
  BY <1>1, HeapInvMalloc
<1>2. ASSUME NEW p \in held \cup {NULL}, Free(p) PROVE HeapInv'
  BY <1>2, HeapInvFree
<1>3. CASE UNCHANGED vars
  BY <1>3 DEF vars, HeapInv, TypeOK, BlocksAccounted
<1>. QED BY <1>1, <1>2, <1>3 DEF Next

LEMMA HeapInvAlways == Spec => []HeapInv
  BY HeapInvInit, HeapInvNext, PTL DEF Spec

\* The free list holds block indexes only, and callers hold addresses of
\* blocks only.
THEOREM HeapTypeCorrect == Spec => []TypeOK
<1>1. HeapInv => TypeOK
  BY DEF HeapInv
<1>. QED BY <1>1, HeapInvAlways, PTL

\* No block is lost and none is given to two callers.
THEOREM HeapAccounted == Spec => []BlocksAccounted
<1>1. HeapInv => BlocksAccounted
  BY DEF HeapInv
<1>. QED BY <1>1, HeapInvAlways, PTL

-----------------------------------------------------------------------------
(* Red zones: TypeOK alone gives them. *)

\* A block ends where the next one begins, or before.
LEMMA BlockEnd ==
    ASSUME NEW i \in Nat, NEW j \in Nat, NEW s \in Nat \ {0}, i < j
    PROVE  i * s + s <= j * s
<1>1. PICK d \in Nat : j = i + 1 + d
  <2>1. j - i - 1 \in Nat /\ j = i + 1 + (j - i - 1)
    OBVIOUS
  <2>. QED BY <2>1
<1>2. j * s = i * s + s + d * s
  BY <1>1
<1>3. d * s \in Nat /\ i * s \in Nat
  BY <1>1
<1>. QED BY <1>2, <1>3

\* The blocks that callers have, with the red zones after them, never overlap.
THEOREM RedZonesKept == Spec => []RedZonesBetween
<1>1. ASSUME TypeOK PROVE RedZonesBetween
  <2>1. /\ Stride \in Nat \ {0} /\ Stride = BlockSize + RedZoneSize
        /\ BlockSize \in Nat /\ RedZoneSize \in Nat
        /\ BufferStart \in Nat /\ BlockCount \in Nat
    BY HeapAssumption, StridePositive DEF Stride
  <2>2. ASSUME NEW i \in Indexes, NEW n \in Nat, i < n
        PROVE  AddressOf(i) + Stride <= BufferStart + n * Stride
    <3>1. i \in Nat /\ i * Stride \in Nat /\ n * Stride \in Nat
      BY <2>1, <2>2 DEF Indexes
    <3>2. i * Stride + Stride <= n * Stride
      BY <2>1, <2>2, <3>1, BlockEnd
    <3> DEFINE a == i * Stride
               b == n * Stride
    <3>3. AddressOf(i) = BufferStart + a
      BY DEF AddressOf
    <3>4. a + Stride <= b /\ a \in Nat /\ b \in Nat
      BY <3>1, <3>2
    <3> HIDE DEF a
    <3>5. AddressOf(i) + Stride <= BufferStart + b
      BY <2>1, <3>3, <3>4
    <3>. QED BY <3>5
  <2>3. ASSUME NEW i \in Indexes, NEW j \in Indexes, AddressOf(i) < AddressOf(j)
        PROVE  AddressOf(i) + Stride <= AddressOf(j)
    <3>1. i \in Nat /\ j \in Nat
      BY <2>1 DEF Indexes
    <3>2. AddressOf(i) \in Nat /\ AddressOf(j) \in Nat
      BY BlockOfAddress
    <3>3. i # j
      BY <2>3, <3>2
    <3>4. ~ (j < i)
      <4>1. SUFFICES ASSUME j < i PROVE FALSE
        OBVIOUS
      <4>2. AddressOf(j) + Stride <= AddressOf(i)
        BY <2>2, <3>1, <4>1 DEF AddressOf
      <4>. QED BY <2>1, <2>3, <3>2, <4>2
    <3>5. i < j
      BY <3>1, <3>3, <3>4
    <3>. QED BY <2>2, <3>1, <3>5 DEF AddressOf
  <2>4. ASSUME NEW p \in held
        PROVE  /\ p + Stride <= BufferStart + BlockCount * Stride
               /\ \A q \in held : p < q => p + BlockSize + RedZoneSize <= q
    <3>1. PICK i \in Indexes : p = AddressOf(i)
      BY <1>1 DEF TypeOK
    <3>2. i < BlockCount
      BY <2>1 DEF Indexes
    <3>3. p + Stride <= BufferStart + BlockCount * Stride
      BY <2>1, <2>2, <3>1, <3>2
    <3>4. ASSUME NEW q \in held, p < q PROVE p + BlockSize + RedZoneSize <= q
      <4>1. PICK j \in Indexes : q = AddressOf(j)
        BY <1>1 DEF TypeOK
      <4>2. p + Stride <= q
        BY <2>3, <3>1, <3>4, <4>1
      <4>3. p \in Nat
        BY <3>1, BlockOfAddress
      <4>4. p + Stride = p + BlockSize + RedZoneSize
        BY <2>1, <4>3
      <4>. QED BY <4>2, <4>4
    <3>. QED BY <3>3, <3>4
  <2>. QED BY <2>4 DEF RedZonesBetween
<1>. QED BY <1>1, HeapTypeCorrect, PTL

-----------------------------------------------------------------------------
(* The heap implements Allocator. *)

\* An allocation is refused only for its size or when every block is out.
LEMMA PromiseMalloc ==
    ASSUME HeapInv, NEW size \in Sizes, Malloc(size)
    PROVE  Promise!Malloc(size)
<1>1. /\ freeBlocks \in Seq(Indexes)
      /\ held \subseteq BlockAddresses
      /\ Cells(freeBlocks) = {j \in Indexes : AddressOf(j) \notin held}
  BY DEF HeapInv, TypeOK, BlocksAccounted, BlockAddresses
<1>2. CASE size \in 1..BlockSize /\ CanPop(freeBlocks)
  <2>1. PICK i \in Indexes :
              /\ AddressOf(i) \notin held
              /\ result' = Malloced(size, AddressOf(i))
              /\ held' = held \cup {AddressOf(i)}
    BY <1>2, MallocEffect
  <2>2. AddressOf(i) \in BlockAddresses /\ held # BlockAddresses
    BY <2>1 DEF BlockAddresses
  <2>. QED BY <1>2, <2>1, <2>2 DEF Malloced, Promise!Malloced, Promise!Malloc, Promise!Served, BlockAddresses
<1>3. CASE ~ (size \in 1..BlockSize /\ CanPop(freeBlocks))
  <2>1. result' = Malloced(size, NULL) /\ held' = held
    BY <1>3 DEF Malloc
  <2>2. ~ (size \in 1..BlockSize /\ held # BlockAddresses)
    <3>1. CASE ~ (size \in 1..BlockSize)
      BY <3>1
    <3>2. CASE ~ CanPop(freeBlocks)
      <4>1. Cells(freeBlocks) = {}
        BY <1>1, <3>2 DEF Cells, CanPop
      <4>2. BlockAddresses \subseteq held
        BY <1>1, <4>1 DEF BlockAddresses
      <4>. QED BY <1>1, <4>2
    <3>. QED BY <1>3, <3>1, <3>2
  <2>. QED BY <2>1, <2>2 DEF Malloced, Promise!Malloced, Promise!Malloc, Promise!Served, BlockAddresses
<1>. QED BY <1>2, <1>3

\* The heap implements the allocator.
THEOREM HeapIsAllocator == Spec => ImplementsAllocator
<1>1. Init => Promise!Init
  BY DEF Init, NoResult, Promise!Init, Promise!Freed
<1>2. HeapInv /\ [Next]_vars => [Promise!Next]_(Promise!vars)
  <2> SUFFICES ASSUME HeapInv, [Next]_vars PROVE [Promise!Next]_(Promise!vars)
    OBVIOUS
  <2>1. ASSUME NEW size \in Sizes, Malloc(size) PROVE Promise!Next
    BY <2>1, PromiseMalloc DEF Promise!Next
  <2>2. ASSUME NEW p \in held \cup {NULL}, Free(p) PROVE Promise!Next
    BY <2>2 DEF Free, NoResult, Promise!Freed, Promise!Free, Promise!Next
  <2>3. CASE UNCHANGED vars
    BY <2>3 DEF vars, Promise!vars
  <2>. QED BY <2>1, <2>2, <2>3 DEF Next
<1>. QED BY <1>1, <1>2, HeapInvAlways, PTL DEF Spec, ImplementsAllocator, Promise!Spec

-----------------------------------------------------------------------------
(* The stack: types.  The tests of Full and Empty keep the pointer in range. *)

Answers == [call : {"init", "push", "pop"}, ok : BOOLEAN, value : Values \cup {0}]

LEMMA AnswerType ==
    ASSUME NEW c \in {"init", "push", "pop"}, NEW r \in BOOLEAN, NEW v \in Values \cup {0}
    PROVE  Answer(c, r, v) \in Answers
  BY Zenon DEF Answer, Answers

LEMMA PushKeepsType ==
    ASSUME BufferTypeOK, NEW v \in Values, StackPush(v)
    PROVE  BufferTypeOK'
<1>1. Size \in Nat /\ stack_pointer \in 0..Size
  BY BufferAssumption DEF BufferTypeOK
<1>2. CASE Full
  <2>1. answer' \in Answers
    BY <1>2, AnswerType DEF StackPush
  <2>. QED BY <1>2, <2>1 DEF BufferTypeOK, StackPush, Answers
<1>3. CASE ~ Full
  <2>1. stack_pointer \in BufferCells /\ stack_pointer + 1 \in 0..Size
    BY <1>1, <1>3 DEF Full, BufferCells
  <2>2. buffer' \in [BufferCells -> Values \cup {0}]
    BY <1>3, <2>1 DEF BufferTypeOK, StackPush
  <2>3. answer' \in Answers
    BY <1>3, AnswerType DEF StackPush
  <2>. QED BY <1>3, <2>1, <2>2, <2>3 DEF BufferTypeOK, StackPush, Answers
<1>. QED BY <1>2, <1>3

LEMMA PopKeepsType ==
    ASSUME BufferTypeOK, StackPop
    PROVE  BufferTypeOK'
<1>1. Size \in Nat /\ stack_pointer \in 0..Size
  BY BufferAssumption DEF BufferTypeOK
<1>2. CASE Empty
  <2>1. answer' \in Answers
    BY <1>2, AnswerType DEF StackPop
  <2>. QED BY <1>2, <2>1 DEF BufferTypeOK, StackPop, Answers
<1>3. CASE ~ Empty
  <2>1. stack_pointer - 1 \in BufferCells /\ stack_pointer - 1 \in 0..Size
    BY <1>1, <1>3 DEF Empty, BufferCells
  <2>2. buffer' \in [BufferCells -> Values \cup {0}] /\ buffer[stack_pointer - 1] \in Values \cup {0}
    BY <1>3, <2>1 DEF BufferTypeOK, StackPop
  <2>3. answer' \in Answers
    BY <1>3, <2>2, AnswerType DEF StackPop
  <2>. QED BY <1>3, <2>1, <2>2, <2>3 DEF BufferTypeOK, StackPop, Answers
<1>. QED BY <1>2, <1>3

\* The pointer never leaves the buffer by more than the cell behind it,
\* whatever is pushed and popped.
THEOREM BufferTypeCorrect == BufferSpec => []BufferTypeOK
<1>1. BufferInit => BufferTypeOK
  BY BufferAssumption DEF BufferInit, BufferTypeOK, BufferCells, Answer
<1>2. BufferTypeOK /\ [BufferNext]_bvars => BufferTypeOK'
  <2> SUFFICES ASSUME BufferTypeOK, [BufferNext]_bvars PROVE BufferTypeOK'
    OBVIOUS
  <2>1. CASE StackPop
    BY <2>1, PopKeepsType
  <2>2. ASSUME NEW v \in Values, StackPush(v) PROVE BufferTypeOK'
    BY <2>2, PushKeepsType
  <2>3. CASE UNCHANGED bvars
    BY <2>3 DEF bvars, BufferTypeOK
  <2>. QED BY <2>1, <2>2, <2>3 DEF BufferNext
<1>. QED BY <1>1, <1>2, PTL DEF BufferSpec

-----------------------------------------------------------------------------
(* The stack: the cells below the pointer are the items of the LIFO. *)

\* The content is a sequence; it is full and empty when the code finds it so.
LEMMA ContentType ==
    ASSUME BufferTypeOK
    PROVE  /\ Content \in Seq(Values \cup {0})
           /\ Len(Content) = stack_pointer
           /\ Abstract!CanPush(Content, Size) = ~ Full
           /\ Abstract!CanPop(Content) = ~ Empty
<1>1. Size \in Nat /\ stack_pointer \in 0..Size
  BY BufferAssumption DEF BufferTypeOK
<1>2. \A k \in 1..stack_pointer : buffer[k - 1] \in Values \cup {0}
  BY <1>1 DEF BufferTypeOK, BufferCells
<1>3. Content \in Seq(Values \cup {0}) /\ Len(Content) = stack_pointer
  BY <1>1, <1>2 DEF Content
<1>4. Abstract!CanPush(Content, Size) = ~ Full
  BY <1>1, <1>3 DEF Abstract!CanPush, Full
<1>5. Abstract!CanPop(Content) = ~ Empty
  BY <1>1, <1>3 DEF Abstract!CanPop, Empty
<1>. QED BY <1>3, <1>4, <1>5

\* A push on the buffer appends to the content, or answers that it is full.
LEMMA PushIsPush ==
    ASSUME BufferTypeOK, NEW v \in Values, StackPush(v)
    PROVE  Abstract!PushCall(v)
<1>1. /\ Size \in Nat /\ stack_pointer \in 0..Size
      /\ BufferTypeOK'
  BY BufferAssumption, PushKeepsType DEF BufferTypeOK
<1>2. CASE Full
  <2>1. Content' = Content
    BY <1>2 DEF StackPush, Content
  <2>2. Abstract!Push(Content, v, Size) = Content
    BY <1>2, ContentType DEF Abstract!Push
  <2>. QED BY <1>2, <2>1, <2>2, ContentType DEF StackPush, Answer, Abstract!PushCall, Abstract!Answer
<1>3. CASE ~ Full
  <2>1. /\ stack_pointer' = stack_pointer + 1
        /\ buffer' = [buffer EXCEPT ![stack_pointer] = v]
    BY <1>3 DEF StackPush
  <2>2. /\ stack_pointer \in BufferCells
        /\ buffer \in [BufferCells -> Values \cup {0}]
    BY <1>1, <1>3 DEF Full, BufferCells, BufferTypeOK
  <2>3. /\ Content' \in Seq(Values \cup {0})
        /\ Len(Content') = stack_pointer + 1
    <3>1. \A k \in 1..stack_pointer' : buffer'[k - 1] \in Values \cup {0}
      BY <1>1 DEF BufferTypeOK, BufferCells
    <3>. QED BY <1>1, <2>1, <3>1 DEF Content
  <2>4. Abstract!Push(Content, v, Size) = Append(Content, v)
    BY <1>3, ContentType DEF Abstract!Push
  <2>5. ASSUME NEW k \in 1..(stack_pointer + 1)
        PROVE  Content'[k] = Append(Content, v)[k]
    <3>1. Content'[k] = buffer'[k - 1]
      BY <2>1 DEF Content
    <3>2. CASE k = stack_pointer + 1
      BY <1>1, <2>1, <2>2, <3>1, <3>2, ContentType, AppendProperties
    <3>3. CASE k \in 1..stack_pointer
      <4>1. buffer'[k - 1] = buffer[k - 1]
        BY <1>1, <2>1, <2>2, <3>3 DEF BufferCells
      <4>2. Append(Content, v)[k] = Content[k]
        BY <3>3, ContentType, AppendProperties
      <4>. QED BY <3>1, <3>3, <4>1, <4>2 DEF Content
    <3>4. k = stack_pointer + 1 \/ k \in 1..stack_pointer
      BY <1>1
    <3>. QED BY <3>2, <3>3, <3>4
  <2>6. Append(Content, v) \in Seq(Values \cup {0}) /\ Len(Append(Content, v)) = stack_pointer + 1
    BY ContentType
  <2>7. Content' = Append(Content, v)
    BY <2>3, <2>5, <2>6, SeqEqual
  <2>. QED BY <1>3, <2>4, <2>7, ContentType DEF StackPush, Answer, Abstract!PushCall, Abstract!Answer
<1>. QED BY <1>2, <1>3

\* A pop takes the last item off and answers it, or answers that there is none.
LEMMA PopIsPop ==
    ASSUME BufferTypeOK, StackPop
    PROVE  Abstract!PopCall
<1>1. Size \in Nat /\ stack_pointer \in 0..Size
  BY BufferAssumption DEF BufferTypeOK
<1>2. CASE Empty
  <2>1. Content' = Content
    BY <1>2 DEF StackPop, Content
  <2>2. Abstract!Pop(Content) = Content
    BY <1>2, ContentType DEF Abstract!Pop
  <2>. QED BY <1>2, <2>1, <2>2, ContentType DEF StackPop, Answer, Abstract!PopCall, Abstract!Answer
<1>3. CASE ~ Empty
  <2>1. /\ stack_pointer' = stack_pointer - 1
        /\ buffer' = [buffer EXCEPT ![stack_pointer - 1] = 0]
        /\ stack_pointer - 1 \in Nat
        /\ stack_pointer - 1 \in BufferCells
        /\ buffer \in [BufferCells -> Values \cup {0}]
    BY <1>1, <1>3 DEF StackPop, Empty, BufferCells, BufferTypeOK
  <2>2. Content' = [k \in 1..(stack_pointer - 1) |-> buffer'[k - 1]]
    BY <2>1 DEF Content
  <2>3. ASSUME NEW k \in 1..(stack_pointer - 1) PROVE buffer'[k - 1] = Content[k]
    BY <1>1, <2>1, <2>3 DEF Content, BufferCells
  <2>4. Abstract!Pop(Content) = SubSeq(Content, 1, stack_pointer - 1)
    BY <1>3, ContentType DEF Abstract!Pop
  <2>5. SubSeq(Content, 1, stack_pointer - 1) = [k \in 1..(stack_pointer - 1) |-> Content[k]]
    BY <2>1, ContentType
  <2>6. Content' = Abstract!Pop(Content)
    BY <2>2, <2>3, <2>4, <2>5
  <2>7. Abstract!Top(Content) = buffer[stack_pointer - 1]
    <3>1. stack_pointer \in 1..stack_pointer
      BY <1>1, <2>1
    <3>. QED BY <3>1, ContentType DEF Abstract!Top, Content
  <2>. QED BY <1>3, <2>6, <2>7, ContentType DEF StackPop, Answer, Abstract!PopCall, Abstract!Answer
<1>. QED BY <1>2, <1>3

\* stack.c implements the bounded LIFO that the pool of process stacks and the
\* heap are modelled with, at both ends of every buffer.
THEOREM BufferIsLIFO == BufferSpec => ImplementsLIFO
<1>1. BufferInit => Abstract!Init
  BY DEF BufferInit, Answer, Content, Abstract!Init, Abstract!NoCall
<1>2. BufferTypeOK /\ [BufferNext]_bvars => [Abstract!Next]_(Abstract!vars)
  <2> SUFFICES ASSUME BufferTypeOK, [BufferNext]_bvars PROVE [Abstract!Next]_(Abstract!vars)
    OBVIOUS
  <2>1. CASE StackPop
    BY <2>1, PopIsPop DEF Abstract!Next
  <2>2. ASSUME NEW v \in Values, StackPush(v) PROVE Abstract!Next
    BY <2>2, PushIsPush DEF Abstract!Next
  <2>3. CASE UNCHANGED bvars
    BY <2>3 DEF bvars, Abstract!vars, Content
  <2>. QED BY <2>1, <2>2, <2>3 DEF BufferNext
<1>. QED BY <1>1, <1>2, BufferTypeCorrect, PTL DEF BufferSpec, ImplementsLIFO, Abstract!Spec
=============================================================================
