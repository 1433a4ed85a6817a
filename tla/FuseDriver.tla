----------------------------- MODULE FuseDriver -----------------------------
(***************************************************************************)
(* fs/tinyfs/tests/fuse_test.c: TinyFS as it is driven through FUSE.       *)
(* Creating and deleting are the calls of fs_operations.c; writing is not  *)
(* fs_write but goes to the clusters at an offset the caller names.        *)
(*                                                                         *)
(* The driver adds the bytes written to the size whatever the offset, so   *)
(* that a file written over, or written behind its end, has a size that    *)
(* is not that of its content: SizeInChain and ImplementsFileTable do not  *)
(* hold here.                                                              *)
(***************************************************************************)
EXTENDS TinyFS

CONSTANTS
    WriteOffsets,   \* bound of the model: the offsets written at
    SizeRange       \* 2^16: how many values the size of an entry has

ASSUME FuseDriverAssumption ==
    /\ WriteOffsets \subseteq Nat
    /\ SizeRange \in Nat \ {0}

\* fuse_write: the file is found by its name at each call.  The size is set only
\* if every byte was written; what was linked and written before the disk was
\* found to be full stays.
FuseWrite(name, offset, chunk) ==
    /\ Matches(Disk, name) # {}
    /\ LET i == Lowest(Matches(Disk, name))
           e == Entry(Disk, i)
           d == WriteData(Disk, e.cluster, offset, chunk)
           size == (e.size + Len(chunk)) % SizeRange
           s == IF d.ok THEN Write8(d, Rootdir, EntryOffset(i) + 1, size) ELSE d
       IN  fat' = s.fat /\ cell' = s.cell
    /\ UNCHANGED files

FuseNext ==
    \/ \E name \in Names : CreateFile(name) \/ Delete(name)
    \/ CreateRefused
    \/ \E name \in Names, offset \in WriteOffsets, chunk \in Chunks :
          FuseWrite(name, offset, chunk)

FuseSpec == Init /\ [][FuseNext]_vars

-----------------------------------------------------------------------------
(* Properties *)

\* A file: its entry, and what its clusters hold, also beyond its size.
File(i) ==
    LET e == Entry(Disk, i) IN [entry |-> e, bytes |-> [c \in Chain(fat, e.cluster) |-> cell[c]]]

\* Whatever offsets are written at, over the size, behind the end and on a disk
\* that fills up half-way: a call adds, removes or changes at most one file, down
\* to the last cell of its clusters, and every other file stays as it is.
OneFileAtATime ==
    [][Cardinality({i \in files \cup files' :
                       i \notin files \cap files' \/ File(i)' # File(i)}) <= 1]_vars
=============================================================================
