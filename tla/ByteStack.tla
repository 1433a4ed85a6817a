----------------------------- MODULE ByteStack -----------------------------
(***************************************************************************)
(* The bounded LIFO of memory/stack.c as its two clients see it: the       *)
(* process-stack pool of scheduler.c and the heap of memory/malloc.c keep  *)
(* their free block indexes in one.  The content is the sequence of the    *)
(* cells below stack_pointer, oldest first; a call that returns false      *)
(* leaves it unchanged.  ByteStackBuffer shows that the buffer and pointer *)
(* of the code behave like these operators.                                *)
(***************************************************************************)
EXTENDS Naturals, Sequences

\* stack_push: refused once all `size' cells are taken.
CanPush(s, size) == Len(s) < size
Push(s, v, size) == IF CanPush(s, size) THEN Append(s, v) ELSE s

\* stack_pop: refused on the empty stack; otherwise returns the newest cell.
CanPop(s) == s # <<>>
Top(s)    == s[Len(s)]
Pop(s)    == IF CanPop(s) THEN SubSeq(s, 1, Len(s) - 1) ELSE s

\* The cells of a stack, and that no value is stacked twice.
Cells(s)        == {s[k] : k \in 1..Len(s)}
NoDuplicates(s) == \A j, k \in 1..Len(s) : s[j] = s[k] => j = k
=============================================================================
