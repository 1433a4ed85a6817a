-------------------------------- MODULE LIFO --------------------------------
(***************************************************************************)
(* What memory/stack.c promises: a last-in first-out list of at most Size  *)
(* values.  A call answers [ok, value]; a refused call (push on the full   *)
(* stack, pop on the empty one) changes nothing.                           *)
(***************************************************************************)
EXTENDS ByteStack

CONSTANTS
    Size,    \* buffer_size given to stack_init
    Values   \* the bytes pushed (u8 in the code)

VARIABLES
    items,   \* the stacked values, oldest first
    answer   \* what the last call returned

vars == <<items, answer>>

NoCall       == [call |-> "init", ok |-> TRUE, value |-> 0]
Answer(c, r, v) == [call |-> c, ok |-> r, value |-> v]

Init ==
    /\ items = <<>>
    /\ answer = NoCall

PushCall(v) ==
    /\ items' = Push(items, v, Size)
    /\ answer' = Answer("push", CanPush(items, Size), v)

PopCall ==
    /\ items' = Pop(items)
    /\ answer' = Answer("pop", CanPop(items), IF CanPop(items) THEN Top(items) ELSE 0)

Next == PopCall \/ \E v \in Values : PushCall(v)

Spec == Init /\ [][Next]_vars
=============================================================================
