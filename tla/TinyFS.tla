------------------------------- MODULE TinyFS -------------------------------
(***************************************************************************)
(* fs/tinyfs/code: the file system on a disk image.  Cluster 1 is the FAT, *)
(* cluster 2 starts the chain of the root directory, the others hold data. *)
(*                                                                         *)
(* A directory entry is three cells instead of sixteen bytes: the name (0  *)
(* in an unused entry), the size and the first data cluster.  As 16 does   *)
(* not divide 100, 3 must not divide ClusterSize: an entry can straddle    *)
(* two clusters of the directory.  The FAT takes one cluster for itself    *)
(* and is kept apart, as no other chain reaches it.                        *)
(*                                                                         *)
(* The behaviour starts with an empty, zeroed image.  Calls do not         *)
(* interleave: the kernel runs them from the shell without giving the CPU  *)
(* away, and the FUSE driver is mounted single-threaded (-s).  The calls   *)
(* here are those of fs_operations.c; FuseDriver has the driver's own way  *)
(* of writing, which is not fs_write.                                      *)
(***************************************************************************)
EXTENDS Integers, Sequences, FiniteSets

CONSTANTS
    ClusterCount,   \* DEFAULT_CLUSTER_COUNT, what the code takes for the count
    ClusterSize,    \* DEFAULT_CLUSTER_SIZE, in cells
    Names,          \* names callers use, none empty
    Chunks          \* bound of the model: what one fs_write can append

EndOfChain == 255

ASSUME TinyFSAssumption ==
    /\ ClusterCount \in 3..254
    /\ ClusterSize \in Nat \ {0}
    /\ Names \subseteq Nat \ {0}
    /\ Chunks \subseteq Seq(Nat)
    /\ \A chunk \in Chunks :          \* no caller asks for a name that data spells
          \A k \in DOMAIN chunk : chunk[k] \notin Names

VARIABLES
    fat,     \* the FAT: 0 free, EndOfChain, or the next cluster
    cell,    \* the content of every cluster
    files    \* history: directory indexes created and not deleted since

vars == <<fat, cell, files>>

Clusters == 0..(ClusterCount - 1)
Rootdir  == 2

-----------------------------------------------------------------------------
(* FAT_cluster.c and cluster chains. *)

\* FAT_get_linked_cluster
Linked(f, c) == IF c \in {0, EndOfChain} THEN EndOfChain ELSE f[c]

\* The cluster n links after head.
Hop(f, head, n) ==
    LET hop[k \in 0..n] == IF k = 0 THEN head ELSE Linked(f, hop[k - 1])
    IN  hop[n]

\* The clusters linked from head, up to the end or to one that is free.
Chain(f, head) ==
    LET hop[k \in 0..ClusterCount] == IF k = 0 THEN head ELSE Linked(f, hop[k - 1])
    IN  {hop[k] : k \in 0..ClusterCount} \ {0, EndOfChain}

Free(f) == {c \in 3..(ClusterCount - 1) : f[c] = 0}

\* Mutant: the last cluster of a chain passes for a free one.
LowestUnlinked(f) ==
    LET unlinked == {c \in 3..(ClusterCount - 1) : f[c] \in {0, EndOfChain}}
    IN  CHOOSE c \in unlinked : \A e \in unlinked : c <= e

\* FAT_allocate_cluster takes the lowest free cluster.
LowestFree(f) == CHOOSE c \in Free(f) : \A e \in Free(f) : c <= e

\* get_cluster_chain_size, of a chain that ends
ChainSize(f, head) == Cardinality(Chain(f, head))

\* Mutant: only the first cluster is freed.
FreedHead(f, head) == [f EXCEPT ![head] = 0]

\* free_clusters
FreedChain(f, head) == [c \in Clusters |-> IF c \in Chain(f, head) THEN 0 ELSE f[c]]

\* allocate_clusters_upto_offset, n clusters after head: the FAT, the cluster
\* reached, and whether the disk was full.  What was linked before it was
\* found to be full stays linked.
Grown(f, head, n) ==
    LET step[k \in 0..n] ==
          IF k = 0 THEN [fat |-> f, at |-> head, full |-> FALSE]
          ELSE LET s    == step[k - 1]
                   next == Linked(s.fat, s.at)
                   new  == LowestFree(s.fat)
               IN  IF s.full THEN s
                   ELSE IF next # EndOfChain THEN [s EXCEPT !.at = next]
                   ELSE IF Free(s.fat) = {} THEN [s EXCEPT !.full = TRUE]
                   ELSE [s EXCEPT !.fat = [@ EXCEPT ![new] = EndOfChain, ![s.at] = new],
                                  !.at = new]
    IN  step[n]

-----------------------------------------------------------------------------
(* cluster_operations.c, on a disk [fat, cell, ok]; ok is the value that   *)
(* the callers collect with `ret |='.                                      *)

Disk == [fat |-> fat, cell |-> cell, ok |-> TRUE]

NotRead == -1

\* cluster_read_8bit: past the end of the chain nothing is read.
Read8(d, head, offset) ==
    LET c == Hop(d.fat, head, offset \div ClusterSize)
    IN  IF c = EndOfChain THEN NotRead ELSE d.cell[c][offset % ClusterSize]

\* Mutant: on a full disk the value goes into the last cluster of the chain.
Write8InLast(d, head, offset, value) ==
    LET g == Grown(d.fat, head, offset \div ClusterSize)
    IN  [d EXCEPT !.fat = g.fat, !.ok = @ /\ ~g.full,
                  !.cell[g.at][offset % ClusterSize] = value]

\* cluster_write_8bit: beyond the chain's end it is lengthened.
Write8(d, head, offset, value) ==
    LET n     == offset \div ClusterSize
        found == Hop(d.fat, head, n)
        g     == IF found # EndOfChain THEN [fat |-> d.fat, at |-> found, full |-> FALSE]
                                       ELSE Grown(d.fat, head, n)
    IN  IF g.full
        THEN [d EXCEPT !.fat = g.fat, !.ok = FALSE]
        ELSE [d EXCEPT !.fat = g.fat, !.cell[g.at][offset % ClusterSize] = value]

\* cluster_write_data: every byte is tried, whatever became of those before.
WriteData(d, head, offset, values) ==
    LET after[k \in 0..Len(values)] ==
          IF k = 0 THEN d ELSE Write8(after[k - 1], head, offset + k - 1, values[k])
    IN  after[Len(values)]

-----------------------------------------------------------------------------
(* rootdir_cluster.c *)

EntrySize == 3
EntryOffset(i) == i * EntrySize

\* rootdir_get_table_size
TableSize(d) == (ChainSize(d.fat, Rootdir) * ClusterSize) \div EntrySize

\* rootdir_get_file_entry
EntryName(d, i) == Read8(d, Rootdir, EntryOffset(i))
Entry(d, i) ==
    [name    |-> EntryName(d, i),
     size    |-> Read8(d, Rootdir, EntryOffset(i) + 1),
     cluster |-> Read8(d, Rootdir, EntryOffset(i) + 2)]

Indexes(d) == 0..(TableSize(d) - 1)
Used(d)    == {i \in Indexes(d) : EntryName(d, i) # 0}

Lowest(S) == CHOOSE i \in S : \A j \in S : i <= j

\* rootdir_find_file
Matches(d, name) == {i \in Used(d) : EntryName(d, i) = name}

\* rootdir_find_free_index: the index after the table if every entry is used.
FreeIndex(d) ==
    IF Used(d) = Indexes(d) THEN TableSize(d) ELSE Lowest(Indexes(d) \ Used(d))

\* rootdir_set_file_entry
SetEntry(d, i, name, size, cluster) ==
    WriteData(d, Rootdir, EntryOffset(i), <<name, size, cluster>>)

-----------------------------------------------------------------------------
(* fs_operations.c *)

Init ==
    /\ fat = [c \in Clusters |-> IF c <= Rootdir THEN EndOfChain ELSE 0]
    /\ cell = [c \in Clusters |-> [k \in 0..(ClusterSize - 1) |-> 0]]
    /\ files = {}

\* fs_create_file: the data cluster is taken before the entry is written, and
\* given back if the directory cannot grow.
CreateFile(name) ==
    /\ Free(fat) # {}
    /\ LET i == FreeIndex(Disk)
           c == LowestFree(fat)
           d == SetEntry([Disk EXCEPT !.fat[c] = EndOfChain], i, name, 0, c)
       IN  /\ cell' = d.cell
           /\ IF d.ok
              THEN /\ fat' = d.fat
                   /\ files' = files \cup {i}
              ELSE /\ fat' = FreedChain(d.fat, c)
                   /\ UNCHANGED files

\* No cluster for the data is free.
CreateRefused ==
    /\ Free(fat) = {}
    /\ UNCHANGED vars

\* fs_delete: the entry's name is cleared, its chain is freed.
Delete(name) ==
    /\ Matches(Disk, name) # {}
    /\ LET i == Lowest(Matches(Disk, name))
       IN  /\ cell' = Write8(Disk, Rootdir, EntryOffset(i), 0).cell
           /\ fat' = FreedChain(fat, Entry(Disk, i).cluster)
           /\ files' = files \ {i}

\* Mutant: the size grows although the disk was full.
WriteUnchecked(h, chunk) ==
    /\ EntryName(Disk, h) # 0
    /\ LET e == Entry(Disk, h)
           d == WriteData(Disk, e.cluster, e.size, chunk)
           s == Write8(d, Rootdir, EntryOffset(h) + 1, e.size + Len(chunk))
       IN  fat' = s.fat /\ cell' = s.cell
    /\ UNCHANGED files

\* fs_write appends; the size is set only if every byte was written.  A handle
\* is the index of an entry and never expires: the entry is read again at each
\* call, so a handle of a deleted file stands for the file that took the index
\* over, and the handles that reach an entry are the indexes of the files.
Write(h, chunk) ==
    /\ EntryName(Disk, h) # 0
    /\ LET e == Entry(Disk, h)
           d == WriteData(Disk, e.cluster, e.size, chunk)
           s == IF d.ok THEN Write8(d, Rootdir, EntryOffset(h) + 1, e.size + Len(chunk)) ELSE d
       IN  fat' = s.fat /\ cell' = s.cell
    /\ UNCHANGED files

Next ==
    \/ \E name \in Names : CreateFile(name) \/ Delete(name)
    \/ CreateRefused
    \/ \E h \in files, chunk \in Chunks : Write(h, chunk)

Spec == Init /\ [][Next]_vars

-----------------------------------------------------------------------------
(* Properties *)

\* Every variable has its type.
TypeOK ==
    /\ fat \in [Clusters -> Clusters \cup {EndOfChain}]
    /\ DOMAIN cell = Clusters
    /\ \A c \in Clusters : cell[c] \in [0..(ClusterSize - 1) -> Nat]
    /\ files \subseteq Used(Disk)

\* The chains of the directory and of the files.
Heads == {Rootdir} \cup {Entry(Disk, i).cluster : i \in files}

ChainsApart ==
    /\ \A i, j \in files : Entry(Disk, i).cluster = Entry(Disk, j).cluster => i = j
    /\ \A h \in Heads : Hop(fat, h, ClusterCount) = EndOfChain
    /\ \A g, h \in Heads : g # h => Chain(fat, g) \cap Chain(fat, h) = {}

\* After any history of calls, failed ones included, the chains end and no cluster
\* is in two of them: no call can write into a file or into the directory through
\* another file.  And a cluster is taken exactly if a file or the directory has
\* it: none is lost, and none that is in use is listed as free.
ClustersAccounted ==
    /\ ChainsApart
    /\ {c \in 3..(ClusterCount - 1) : fat[c] # 0} =
          (UNION {Chain(fat, h) : h \in Heads}) \ {Rootdir}

\* After any creates, deletes and fs_writes the clusters of a file hold its whole
\* content: reading it stays in its chain.  Under FuseDriver this is not so.
SizeInChain ==
    \A i \in files :
        LET e == Entry(Disk, i) IN e.size <= ChainSize(fat, e.cluster) * ClusterSize

Content(i) ==
    LET e == Entry(Disk, i) IN [k \in 1..e.size |-> Read8(Disk, e.cluster, k - 1)]

Table ==
    INSTANCE FileTable WITH
        name <- [i \in files |-> EntryName(Disk, i)],
        content <- [i \in files |-> Content(i)]

\* The image implements the table of files: whatever clusters are shared out,
\* reused and run out, every file reads as what was appended to it.
ImplementsFileTable == Table!Spec

\* The directory lists the files that were created and no others, also after
\* the table was enlarged.
OnlyCreatedListed == Used(Disk) = files
=============================================================================
