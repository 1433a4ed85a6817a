--------------------------- MODULE ByteStackBuffer ---------------------------
(***************************************************************************)
(* memory/stack.c as written: a caller's byte buffer and a pointer that    *)
(* walks over it.  stack_pointer is kept as its offset from buffer_start.  *)
(* The handle and the out-parameter are never NULL at a call site, so the  *)
(* NULL checks of the three functions are left out.                        *)
(***************************************************************************)
EXTENDS Naturals, Sequences

CONSTANTS
    Size,    \* handle->buffer_size
    Values   \* the bytes a client pushes

ASSUME BufferAssumption ==
    /\ Size \in Nat \ {0}
    /\ Values \subseteq Nat

VARIABLES
    buffer,         \* *buffer_start, Size cells
    stack_pointer,  \* offset of the first free cell
    answer          \* [call, ok, value] of the last call

bvars == <<buffer, stack_pointer, answer>>

BufferCells == 0..(Size - 1)

Answer(c, r, v) == [call |-> c, ok |-> r, value |-> v]

\* stack_init on the static, hence zeroed, buffer of a client.
BufferInit ==
    /\ buffer = [c \in BufferCells |-> 0]
    /\ stack_pointer = 0
    /\ answer = Answer("init", TRUE, 0)

FullOneEarly == stack_pointer >= Size - 1   \* mutant: the last cell is never used
Full  == stack_pointer > Size - 1
Empty == stack_pointer = 0

StackPush(v) ==
    IF Full
    THEN /\ answer' = Answer("push", FALSE, v)
         /\ UNCHANGED <<buffer, stack_pointer>>
    ELSE /\ buffer' = [buffer EXCEPT ![stack_pointer] = v]
         /\ stack_pointer' = stack_pointer + 1
         /\ answer' = Answer("push", TRUE, v)

\* The cell popped is cleared behind the pointer.
StackPop ==
    IF Empty
    THEN /\ answer' = Answer("pop", FALSE, 0)
         /\ UNCHANGED <<buffer, stack_pointer>>
    ELSE /\ stack_pointer' = stack_pointer - 1
         /\ buffer' = [buffer EXCEPT ![stack_pointer - 1] = 0]
         /\ answer' = Answer("pop", TRUE, buffer[stack_pointer - 1])

BufferNext == StackPop \/ \E v \in Values : StackPush(v)

BufferSpec == BufferInit /\ [][BufferNext]_bvars

-----------------------------------------------------------------------------

\* Every variable has its type; the pointer may stand one past the buffer.
BufferTypeOK ==
    /\ buffer \in [BufferCells -> Values \cup {0}]
    /\ stack_pointer \in 0..Size
    /\ answer \in [call : {"init", "push", "pop"}, ok : BOOLEAN, value : Values \cup {0}]

\* The cells below the pointer, oldest first.
Content == [k \in 1..stack_pointer |-> buffer[k - 1]]

Abstract == INSTANCE LIFO WITH items <- Content

\* The buffer and pointer implement the bounded LIFO, answers included.
ImplementsLIFO == Abstract!Spec
=============================================================================
