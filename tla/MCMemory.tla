------------------------------ MODULE MCMemory ------------------------------
(***************************************************************************)
(* The directory memory/ for TLC: the heap, with one block more than the   *)
(* code has, and a stack of stack.c.  The stack is driven by calls that    *)
(* the heap never makes, such as a push on a full buffer, and so stands    *)
(* beside it.                                                              *)
(***************************************************************************)
EXTENDS Heap, ByteStackBuffer

MCBlockCount  == 4
MCBlockSize   == 4
MCRedZoneSize == 2
MCBufferStart == 7
MCSizes       == {0, 1, 4, 5}

MCSize   == 4
MCValues == {1, 2, 3}

MemoryInit == Init /\ BufferInit

MemoryNext ==
    \/ Next /\ UNCHANGED bvars
    \/ BufferNext /\ UNCHANGED vars

MemorySpec == MemoryInit /\ [][MemoryNext]_<<vars, bvars>>
=============================================================================
