----------------------------- MODULE Allocator -----------------------------
(***************************************************************************)
(* What the heap promises its callers: blocks of their own, and a refusal  *)
(* only for a size it does not serve or when every block is out.           *)
(***************************************************************************)
EXTENDS Naturals

CONSTANTS
    Blocks,    \* the blocks, by their address
    NoBlock,   \* what a refused call returns
    MaxSize,   \* the largest size served
    Sizes      \* the sizes callers ask for

VARIABLES
    held,      \* the blocks callers have
    result     \* the last call: its size (0 for free) and the block returned

vars == <<held, result>>

Malloced(size, b) == [call |-> "malloc", size |-> size, block |-> b]
Freed             == [call |-> "free", size |-> 0, block |-> NoBlock]

Init == held = {} /\ result = Freed

Served(size) == size \in 1..MaxSize /\ held # Blocks

Malloc(size) ==
    \/ /\ Served(size)
       /\ \E b \in Blocks \ held :
             /\ held' = held \cup {b}
             /\ result' = Malloced(size, b)
    \/ /\ ~Served(size)
       /\ result' = Malloced(size, NoBlock)
       /\ UNCHANGED held

Free(p) ==
    /\ held' = held \ {p}
    /\ result' = Freed

Next ==
    \/ \E size \in Sizes : Malloc(size)
    \/ \E p \in held \cup {NoBlock} : Free(p)

Spec == Init /\ [][Next]_vars
=============================================================================
