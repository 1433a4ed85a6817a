--------------------------- MODULE MCContextSwitch ---------------------------
(* Instance of ContextSwitch for TLC: the kernel and two user processes. *)
EXTENDS ContextSwitch

MCMaxProcs   == 3
MCStackCount == 2
MCBlockSize  == 4
MCPoolStart  == 6
MCMaxLocals  == 1
MCValues     == {0}
MCOneWrite   == {<<1, 5>>}
MCWrites     == {<<1, 5>>, <<1, 2000>>, <<2, 5>>}

\* Addresses without two equal bytes, a table full of ones, and the loader's
\* segments as dumped at the end of GDT_Global_Descriptor_Table.c.
MCHandlers == [v \in {0, 6, 11, 13, 128} |-> 1056816 + 33554432 + v]
MCOldTable == [v \in Vectors |-> [i \in 0..7 |-> 255]]
Bytes(a, b, c, d, e, f, g, h) == [i \in 0..7 |-> <<a, b, c, d, e, f, g, h>>[i + 1]]
MCLoaderGDT == <<
    Bytes(240, 255, 0, 0, 0, 0, 0, 0),
    Bytes(255, 255, 0, 0, 0, 154, 207, 0),
    Bytes(255, 255, 0, 0, 0, 147, 207, 0),
    Bytes(255, 255, 0, 0, 0, 158, 0, 0),
    Bytes(255, 255, 0, 0, 0, 147, 0, 0)>>
=============================================================================
