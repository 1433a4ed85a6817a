----------------------------- MODULE TinyFSProofs -----------------------------
(***************************************************************************)
(* The types, the accounting of clusters, that files fit their chains, and *)
(* the refinement of FileTable, for every size of the disk and of its      *)
(* clusters, all names and all contents.                                   *)
(*                                                                         *)
(* The chains are described by paths: for every head the sequence of the   *)
(* clusters linked from it.  What lies in a chain is then addressed by its *)
(* offset, and different offsets of all chains are different cells.        *)
(***************************************************************************)
EXTENDS TinyFS, ListFacts, SequenceTheorems

Offsets  == 0..(ClusterSize - 1)
Linkable == Rootdir..(ClusterCount - 1)
Data     == 3..(ClusterCount - 1)
Fats     == [Clusters -> Clusters \cup {EndOfChain}]
Memories == [Clusters -> [Offsets -> Nat]]
Disks    == [fat : Fats, cell : Memories, ok : BOOLEAN]

\* The offset o lies in the chain whose path is s.
Within(s, o) == o \div ClusterSize < Len(s)

\* What the memory m holds at offset o of it.
Stored(m, s, o) == m[s[(o \div ClusterSize) + 1]][o % ClusterSize]

OnPath(p, c) == \E h \in DOMAIN p : \E k \in 1..Len(p[h]) : p[h][k] = c

\* s is the chain of f that starts at h.
PathFrom(f, h, s) ==
    /\ s \in Seq(Linkable)
    /\ Len(s) >= 1
    /\ s[1] = h
    /\ \A k \in 1..Len(s) : f[s[k]] = IF k = Len(s) THEN EndOfChain ELSE s[k + 1]

NothingShared(p) ==
    \A g, h \in DOMAIN p : \A j \in 1..Len(p[g]), k \in 1..Len(p[h]) :
        p[g][j] = p[h][k] => g = h /\ j = k

\* The chains of the FAT f, by their heads, are the paths p.
Laid(f, p) ==
    /\ f \in Fats
    /\ Rootdir \in DOMAIN p
    /\ \A h \in DOMAIN p : PathFrom(f, h, p[h])
    /\ NothingShared(p)
    /\ \A c \in Data : f[c] # 0 <=> OnPath(p, c)

\* The paths q are the paths p with the one from h lengthened.
Lengthened(p, q, h) ==
    /\ DOMAIN q = DOMAIN p
    /\ \A g \in DOMAIN p \ {h} : q[g] = p[g]
    /\ Len(p[h]) <= Len(q[h])
    /\ \A k \in 1..Len(p[h]) : q[h][k] = p[h][k]

-----------------------------------------------------------------------------
(* Offsets. *)

LEMMA Sizes ==
    /\ ClusterCount \in Nat /\ ClusterCount >= 3 /\ ClusterCount <= 254
    /\ ClusterSize \in Nat /\ ClusterSize >= 1
    /\ \A o \in Offsets : o \in Nat /\ o < ClusterSize
    /\ Linkable \subseteq Clusters
    /\ Data \subseteq Linkable
    /\ \A c \in Linkable : c \in Nat /\ c # 0 /\ c # EndOfChain
    /\ Rootdir \in Linkable /\ Rootdir \notin Data
    /\ Linkable = {Rootdir} \cup Data
    /\ EndOfChain \notin Clusters /\ 0 \in Clusters
  BY TinyFSAssumption DEF Offsets, Linkable, Data, Clusters, Rootdir, EndOfChain

LEMMA Division ==
    ASSUME NEW o \in Nat
    PROVE  /\ o \div ClusterSize \in Nat
           /\ o % ClusterSize \in Offsets
           /\ o = ClusterSize * (o \div ClusterSize) + (o % ClusterSize)
<1>1. ClusterSize \in Nat /\ ClusterSize >= 1
  BY Sizes
<1>2. o \div ClusterSize \in Nat /\ o % ClusterSize \in 0..(ClusterSize - 1)
  BY <1>1
<1>3. o = ClusterSize * (o \div ClusterSize) + (o % ClusterSize)
  BY <1>1
<1>. QED BY <1>2, <1>3 DEF Offsets

\* An offset is determined by its cluster and its place there.
LEMMA SameOffset ==
    ASSUME NEW a \in Nat, NEW b \in Nat,
           a \div ClusterSize = b \div ClusterSize, a % ClusterSize = b % ClusterSize
    PROVE  a = b
  BY Division

LEMMA OffsetOf ==
    ASSUME NEW m \in Nat, NEW j \in Offsets
    PROVE  \E o \in Nat : o \div ClusterSize = m /\ o % ClusterSize = j
<1> DEFINE o == ClusterSize * m + j
<1>1. ClusterSize \in Nat /\ ClusterSize >= 1 /\ j \in Nat /\ j < ClusterSize
  BY Sizes
<1>2. o \in Nat
  BY <1>1
<1>3. o \div ClusterSize = m /\ o % ClusterSize = j
  BY <1>1, <1>2
<1>. QED BY <1>2, <1>3

LEMMA OffsetsGrow ==
    ASSUME NEW a \in Nat, NEW b \in Nat, a <= b
    PROVE  a \div ClusterSize <= b \div ClusterSize
<1>1. ClusterSize \in Nat /\ ClusterSize >= 1
  BY Sizes
<1>. QED BY <1>1

\* An offset lies in n clusters exactly if it is below their size.
LEMMA Below ==
    ASSUME NEW o \in Nat, NEW n \in Nat
    PROVE  o \div ClusterSize < n <=> o < n * ClusterSize
<1>1. ClusterSize \in Nat /\ ClusterSize >= 1
  BY Sizes
<1>. QED BY <1>1

-----------------------------------------------------------------------------
(* Following the links. *)

\* The recursion of Hop and of Chain.
Hops(f, head, n) ==
    LET hop[k \in 0..n] == IF k = 0 THEN head ELSE Linked(f, hop[k - 1]) IN hop

\* A function that starts at head and follows the links is what it computes.
LEMMA HopIs ==
    ASSUME NEW f, NEW head, NEW n \in Nat, NEW g,
           g[0] = head, \A k \in 1..n : g[k] = Linked(f, g[k - 1])
    PROVE  \A k \in 0..n : Hops(f, head, n)[k] = g[k]
<1> DEFINE Step(e) == [k \in 0..n |-> IF k = 0 THEN head ELSE Linked(f, e[k - 1])]
           hop == CHOOSE e : e = Step(e)
           found == [k \in 0..n |-> g[k]]
<1>1. found = Step(found)
  <2>1. ASSUME NEW k \in 0..n PROVE found[k] = IF k = 0 THEN head ELSE Linked(f, found[k - 1])
    <3>1. CASE k = 0
      BY <3>1
    <3>2. CASE k # 0
      <4>1. k \in 1..n /\ k - 1 \in 0..n
        BY <3>2
      <4>. QED BY <3>2, <4>1
    <3>. QED BY <3>1, <3>2
  <2>. QED BY <2>1
<1>2. hop = Step(hop)
  <2> HIDE DEF Step, found
  <2>. QED BY <1>1
<1>3. StepAlike(hop, g, n)
  <2> HIDE DEF hop, found
  <2>1. hop[0] = g[0]
    BY <1>2
  <2>2. ASSUME NEW k \in 1..n, hop[k - 1] = g[k - 1] PROVE hop[k] = g[k]
    <3>1. k \in 0..n /\ k # 0
      OBVIOUS
    <3>2. hop[k] = Linked(f, hop[k - 1])
      BY <1>2, <3>1
    <3>. QED BY <2>2, <3>2
  <2>. QED BY <2>1, <2>2 DEF StepAlike
<1>4. \A k \in 0..n : hop[k] = g[k]
  <2> HIDE DEF hop, Step, found
  <2>. QED BY <1>3, SameRecursion
<1>. QED BY <1>4 DEF Hops

\* What is linked behind a cluster of a path.
LEMMA LinkedOnPath ==
    ASSUME NEW f, NEW h, NEW s, PathFrom(f, h, s), NEW k \in 1..Len(s)
    PROVE  /\ s[k] \in Linkable
           /\ Linked(f, s[k]) = IF k = Len(s) THEN EndOfChain ELSE s[k + 1]
<1>1. s[k] \in Linkable
  BY DEF PathFrom
<1>2. s[k] # 0 /\ s[k] # EndOfChain
  BY <1>1, Sizes
<1>. QED BY <1>1, <1>2 DEF PathFrom, Linked

\* The links from a head follow its path and then stay at the end.
OnwardFrom(s, n) == IF n < Len(s) THEN s[n + 1] ELSE EndOfChain

LEMMA OnwardSteps ==
    ASSUME NEW f, NEW h, NEW s, PathFrom(f, h, s)
    PROVE  /\ OnwardFrom(s, 0) = h
           /\ \A k \in Nat \ {0} : OnwardFrom(s, k) = Linked(f, OnwardFrom(s, k - 1))
<1>1. Len(s) \in Nat /\ Len(s) >= 1 /\ s[1] = h
  BY DEF PathFrom
<1>2. ASSUME NEW k \in Nat \ {0} PROVE OnwardFrom(s, k) = Linked(f, OnwardFrom(s, k - 1))
  <2>1. k - 1 \in Nat /\ (k - 1) + 1 = k
    OBVIOUS
  <2>2. CASE k - 1 < Len(s)
    <3>1. k \in 1..Len(s)
      BY <1>1, <2>2
    <3>2. OnwardFrom(s, k - 1) = s[k]
      BY <2>1, <2>2 DEF OnwardFrom
    <3>3. Linked(f, s[k]) = IF k = Len(s) THEN EndOfChain ELSE s[k + 1]
      BY <3>1, LinkedOnPath
    <3>. QED BY <1>1, <3>1, <3>2, <3>3 DEF OnwardFrom
  <2>3. CASE ~ (k - 1 < Len(s))
    <3>1. OnwardFrom(s, k - 1) = EndOfChain /\ OnwardFrom(s, k) = EndOfChain
      BY <1>1, <2>3 DEF OnwardFrom
    <3>. QED BY <3>1 DEF Linked
  <2>. QED BY <2>2, <2>3
<1>. QED BY <1>1, <1>2 DEF OnwardFrom

LEMMA HopOnPath ==
    ASSUME NEW f, NEW h, NEW s, PathFrom(f, h, s), NEW n \in Nat
    PROVE  Hop(f, h, n) = OnwardFrom(s, n)
<1> DEFINE g == [k \in Nat |-> OnwardFrom(s, k)]
<1>1. g[0] = h
  BY OnwardSteps
<1>2. \A k \in 1..n : g[k] = Linked(f, g[k - 1])
  <2> SUFFICES ASSUME NEW k \in 1..n PROVE g[k] = Linked(f, g[k - 1])
    OBVIOUS
  <2>1. k \in Nat \ {0} /\ k - 1 \in Nat
    OBVIOUS
  <2>. QED BY <2>1, OnwardSteps
<1>3. g[n] = OnwardFrom(s, n) /\ n \in 0..n
  OBVIOUS
<1>4. Hop(f, h, n) = Hops(f, h, n)[n]
  BY DEF Hop, Hops
<1> HIDE DEF g
<1>. QED BY <1>1, <1>2, <1>3, <1>4, HopIs

\* No path is longer than there are clusters.
LEMMA PathFits ==
    ASSUME NEW f, NEW p, Laid(f, p), NEW h \in DOMAIN p
    PROVE  /\ Len(p[h]) \in Nat /\ Len(p[h]) >= 1
           /\ Len(p[h]) <= ClusterCount
           /\ IsFiniteSet({p[h][k] : k \in 1..Len(p[h])})
           /\ Cardinality({p[h][k] : k \in 1..Len(p[h])}) = Len(p[h])
<1> DEFINE s == p[h]
           S == {s[k] : k \in 1..Len(s)}
<1>1. s \in Seq(Linkable) /\ Len(s) \in Nat /\ Len(s) >= 1
  BY DEF Laid, PathFrom
<1>2. IsFiniteSet(Clusters) /\ Cardinality(Clusters) = ClusterCount
  <2>1. ClusterCount \in Nat
    BY Sizes
  <2>. QED BY <2>1, IntervalSize DEF Clusters
<1>3. S \subseteq Clusters
  BY <1>1, Sizes
<1>4. IsFiniteSet(S) /\ Cardinality(S) <= ClusterCount
  BY <1>2, <1>3, FS_Subset
<1>5. [k \in 1..Len(s) |-> s[k]] \in Bijection(1..Len(s), S)
  <2>1. \A j, k \in 1..Len(s) : s[j] = s[k] => j = k
    BY DEF Laid, NothingShared
  <2> HIDE DEF s
  <2>2. [k \in 1..Len(s) |-> s[k]] \in [1..Len(s) -> S]
    OBVIOUS
  <2>. QED BY <2>1, <2>2 DEF Bijection, Injection, IsInjective, Surjection
<1>6. IsFiniteSet(1..Len(s)) /\ Cardinality(1..Len(s)) = Len(s)
  BY <1>1, IntervalSize
<1>7. Cardinality(S) = Len(s)
  <2> HIDE DEF s, S
  <2>. QED BY <1>5, <1>6, FS_Bijection DEF ExistsBijection
<1>. QED BY <1>1, <1>4, <1>7

\* The chain of a head consists of the clusters of its path.
LEMMA ChainOnPath ==
    ASSUME NEW f, NEW p, Laid(f, p), NEW h \in DOMAIN p
    PROVE  /\ Chain(f, h) = {p[h][k] : k \in 1..Len(p[h])}
           /\ ChainSize(f, h) = Len(p[h])
           /\ Hop(f, h, ClusterCount) = EndOfChain
<1> DEFINE s == p[h]
           n == ClusterCount
           hop == Hops(f, h, n)
           g == [k \in Nat |-> OnwardFrom(s, k)]
<1>1. PathFrom(f, h, s) /\ n \in Nat /\ Len(s) \in Nat /\ Len(s) <= n
  BY PathFits, Sizes DEF Laid
<1>2. \A k \in 0..n : hop[k] = OnwardFrom(s, k)
  <2>1. g[0] = h
    BY <1>1, OnwardSteps
  <2>2. \A k \in 1..n : g[k] = Linked(f, g[k - 1])
    <3> SUFFICES ASSUME NEW k \in 1..n PROVE g[k] = Linked(f, g[k - 1])
      OBVIOUS
    <3>1. k \in Nat \ {0} /\ k - 1 \in Nat
      BY <1>1
    <3>. QED BY <1>1, <3>1, OnwardSteps
  <2>3. \A k \in 0..n : g[k] = OnwardFrom(s, k)
    BY <1>1
  <2>4. n \in Nat
    BY <1>1
  <2> HIDE DEF g, n
  <2>5. \A k \in 0..n : hop[k] = g[k]
    BY <2>1, <2>2, <2>4, HopIs
  <2>. QED BY <2>3, <2>5
<1>3. Chain(f, h) = {hop[k] : k \in 0..n} \ {0, EndOfChain}
  BY DEF Chain, Hops
<1> HIDE DEF hop
<1>4. ASSUME NEW k \in 0..n, hop[k] \notin {0, EndOfChain}
      PROVE  hop[k] \in {s[j] : j \in 1..Len(s)}
  <2>1. k < Len(s) /\ hop[k] = s[k + 1]
    BY <1>2, <1>4 DEF OnwardFrom
  <2>2. k + 1 \in 1..Len(s)
    BY <1>1, <2>1
  <2>. QED BY <2>1, <2>2
<1>5. ASSUME NEW j \in 1..Len(s) PROVE s[j] \in {hop[k] : k \in 0..n} \ {0, EndOfChain}
  <2>1. j - 1 \in 0..n /\ j - 1 < Len(s) /\ (j - 1) + 1 = j
    BY <1>1
  <2>2. hop[j - 1] = s[j]
    BY <1>2, <2>1 DEF OnwardFrom
  <2>3. s[j] \in Linkable
    BY <1>1, LinkedOnPath
  <2>4. s[j] \notin {0, EndOfChain}
    BY <2>3, Sizes
  <2>. QED BY <2>1, <2>2, <2>4
<1>6. Chain(f, h) = {s[j] : j \in 1..Len(s)}
  <2> HIDE DEF s, n
  <2>. QED BY <1>3, <1>4, <1>5
<1>7. Hop(f, h, n) = EndOfChain
  BY <1>1, HopOnPath DEF OnwardFrom
<1>. QED BY <1>6, <1>7, PathFits DEF ChainSize

-----------------------------------------------------------------------------
(* Taking clusters and giving them back. *)

\* What stands on a path is linkable and not free.
LEMMA OnPathTaken ==
    ASSUME NEW f, NEW p, Laid(f, p), NEW h \in DOMAIN p, NEW k \in 1..Len(p[h])
    PROVE  /\ p[h][k] \in Linkable
           /\ f[p[h][k]] # 0
           /\ OnPath(p, p[h][k])
<1>1. PathFrom(f, h, p[h])
  BY DEF Laid
<1>2. p[h][k] \in Linkable
  BY <1>1, LinkedOnPath
<1>3. f[p[h][k]] = IF k = Len(p[h]) THEN EndOfChain ELSE p[h][k + 1]
  BY <1>1 DEF PathFrom
<1>4. k # Len(p[h]) => p[h][k + 1] \in Linkable
  <2>1. k # Len(p[h]) => k + 1 \in 1..Len(p[h])
    BY <1>1 DEF PathFrom
  <2>. QED BY <1>1, <2>1, LinkedOnPath
<1>5. f[p[h][k]] # 0
  BY <1>3, <1>4, Sizes DEF EndOfChain
<1>. QED BY <1>2, <1>5 DEF OnPath

\* Every head is the first cluster of its path.
LEMMA HeadOnPath ==
    ASSUME NEW f, NEW p, Laid(f, p), NEW h \in DOMAIN p
    PROVE  h \in Linkable /\ 1 \in 1..Len(p[h]) /\ p[h][1] = h
<1>1. PathFrom(f, h, p[h]) /\ Len(p[h]) \in Nat
  BY PathFits DEF Laid
<1>2. 1 \in 1..Len(p[h]) /\ p[h][1] = h
  BY <1>1 DEF PathFrom
<1>. QED BY <1>1, <1>2, LinkedOnPath

\* A free cluster is on no path.
LEMMA FreeOffPath ==
    ASSUME NEW f, NEW p, Laid(f, p), NEW c \in Free(f)
    PROVE  /\ c \in Data /\ c \in Clusters
           /\ f[c] = 0
           /\ \A h \in DOMAIN p : \A k \in 1..Len(p[h]) : p[h][k] # c
           /\ c \notin DOMAIN p
<1>1. c \in Data /\ f[c] = 0 /\ c \in Clusters
  BY Sizes DEF Free, Data
<1>2. \A h \in DOMAIN p : \A k \in 1..Len(p[h]) : p[h][k] # c
  BY <1>1, OnPathTaken
<1>. QED BY <1>1, <1>2, HeadOnPath

LEMMA LowestFreeIsFree ==
    ASSUME NEW f, Free(f) # {}
    PROVE  LowestFree(f) \in Free(f)
<1>1. Free(f) \in SUBSET Nat
  BY Sizes DEF Free
<1>2. \E c \in Free(f) : \A e \in Free(f) : c <= e
  BY <1>1, LeastNatural
<1>. QED BY <1>2 DEF LowestFree

\* Linking a free cluster behind the last one of a chain lengthens its path.
LEMMA ChainLengthens ==
    ASSUME NEW f, NEW p, Laid(f, p), NEW h \in DOMAIN p, NEW new \in Free(f),
           NEW last, last = p[h][Len(p[h])]
    PROVE  LET q == [p EXCEPT ![h] = Append(@, new)]
           IN  /\ Laid([f EXCEPT ![new] = EndOfChain, ![last] = new], q)
               /\ Lengthened(p, q, h)
               /\ Len(q[h]) = Len(p[h]) + 1
               /\ q[h][Len(q[h])] = new
<1> DEFINE n == Len(p[h])
           q == [p EXCEPT ![h] = Append(@, new)]
           e == [f EXCEPT ![new] = EndOfChain, ![last] = new]
<1>1. /\ n \in Nat /\ n >= 1 /\ p[h] \in Seq(Linkable)
      /\ last \in Linkable /\ last \in Clusters
      /\ new \in Data /\ new \in Linkable /\ new \in Clusters /\ f[new] = 0
      /\ \A g \in DOMAIN p : \A k \in 1..Len(p[g]) : p[g][k] # new
      /\ new # last
  <2>1. n \in Nat /\ n >= 1 /\ n \in 1..n /\ p[h] \in Seq(Linkable)
    BY PathFits DEF Laid, PathFrom
  <2>2. last \in Linkable
    BY <2>1, OnPathTaken
  <2>. QED BY <2>1, <2>2, FreeOffPath, Sizes
<1>2. /\ q[h] = Append(p[h], new)
      /\ \A g \in DOMAIN p \ {h} : q[g] = p[g]
      /\ DOMAIN q = DOMAIN p
  OBVIOUS
<1>3. /\ q[h] \in Seq(Linkable)
      /\ Len(q[h]) = n + 1
      /\ q[h][n + 1] = new
      /\ \A k \in 1..n : q[h][k] = p[h][k]
  <2>1. new \in Linkable /\ p[h] \in Seq(Linkable) /\ q[h] = Append(p[h], new)
    BY <1>1, <1>2
  <2> HIDE DEF q
  <2>. QED BY <2>1
<1>4. /\ e \in Fats
      /\ e[new] = EndOfChain /\ e[last] = new
      /\ \A c \in Clusters \ {new, last} : e[c] = f[c]
  <2>1. f \in Fats
    BY DEF Laid
  <2>. QED BY <1>1, <2>1 DEF Fats
<1> HIDE DEF q, e
<1>5. Lengthened(p, q, h)
  BY <1>1, <1>2, <1>3 DEF Lengthened
<1>6. NothingShared(q)
  <2> SUFFICES ASSUME NEW a \in DOMAIN p, NEW b \in DOMAIN p,
                      NEW j \in 1..Len(q[a]), NEW k \in 1..Len(q[b]), q[a][j] = q[b][k]
               PROVE  a = b /\ j = k
    BY <1>2 DEF NothingShared
  <2>1. ASSUME NEW g \in DOMAIN p, NEW i \in 1..Len(q[g])
        PROVE  \/ i \in 1..Len(p[g]) /\ q[g][i] = p[g][i] /\ q[g][i] # new
               \/ g = h /\ i = n + 1 /\ q[g][i] = new
    <3>1. CASE g # h
      BY <1>1, <1>2, <3>1
    <3>2. CASE g = h
      <4>1. i \in 1..n \/ i = n + 1
        BY <1>1, <1>3, <3>2
      <4>. QED BY <1>1, <1>3, <3>2, <4>1
    <3>. QED BY <3>1, <3>2
  <2>2. NothingShared(p)
    BY DEF Laid
  <2>. QED BY <2>1, <2>2 DEF NothingShared
<1>7. ASSUME NEW g \in DOMAIN p PROVE PathFrom(e, g, q[g])
  <2>1. PathFrom(f, g, p[g]) /\ Len(p[g]) \in Nat
    BY PathFits DEF Laid
  <2>2. CASE g # h
    <3>1. \A k \in 1..Len(p[g]) : p[g][k] \in Clusters /\ p[g][k] # new /\ p[g][k] # last
      <4> SUFFICES ASSUME NEW k \in 1..Len(p[g])
                   PROVE  p[g][k] \in Clusters /\ p[g][k] # new /\ p[g][k] # last
        OBVIOUS
      <4>1. p[g][k] \in Clusters /\ p[g][k] # new
        BY <1>1, OnPathTaken, Sizes
      <4>2. n \in 1..n
        BY <1>1
      <4>. QED BY <2>2, <4>1, <4>2 DEF Laid, NothingShared
    <3>2. q[g] = p[g]
      BY <1>2, <2>2
    <3>. QED BY <1>4, <2>1, <3>1, <3>2 DEF PathFrom
  <2>3. CASE g = h
    <3>1. q[h][1] = h /\ Len(q[h]) >= 1
      BY <1>1, <1>3, <2>1, <2>3 DEF PathFrom
    <3>2. ASSUME NEW k \in 1..(n + 1)
          PROVE  e[q[h][k]] = IF k = n + 1 THEN EndOfChain ELSE q[h][k + 1]
      <4>1. CASE k = n + 1
        BY <1>3, <1>4, <4>1
      <4>2. CASE k = n
        <5>1. q[h][k] = last /\ q[h][k + 1] = new
          BY <1>1, <1>3, <4>2
        <5>. QED BY <1>1, <1>4, <4>2, <5>1
      <4>3. CASE k # n /\ k # n + 1
        <5>1. k \in 1..n /\ k + 1 \in 1..n /\ k # n
          BY <1>1, <4>3
        <5>2. q[h][k] = p[h][k] /\ q[h][k + 1] = p[h][k + 1]
          BY <1>3, <5>1
        <5>3. p[h][k] \in Clusters /\ p[h][k] # new
          BY <1>1, <5>1, OnPathTaken, Sizes
        <5>4. p[h][k] # last
          <6>1. n \in 1..n
            BY <1>1
          <6>. QED BY <5>1, <6>1 DEF Laid, NothingShared
        <5>5. f[p[h][k]] = p[h][k + 1]
          BY <2>1, <2>3, <5>1 DEF PathFrom
        <5>. QED BY <1>4, <4>3, <5>2, <5>3, <5>4, <5>5
      <4>. QED BY <4>1, <4>2, <4>3
    <3>. QED BY <1>3, <2>3, <3>1, <3>2 DEF PathFrom
  <2>. QED BY <2>2, <2>3
<1>8. ASSUME NEW c \in Data PROVE e[c] # 0 <=> OnPath(q, c)
  <2>1. c \in Clusters /\ (f[c] # 0 <=> OnPath(p, c))
    BY Sizes DEF Laid
  <2>2. n + 1 \in 1..(n + 1) /\ n \in 1..n
    BY <1>1
  <2>3. CASE c = new
    <3>1. OnPath(q, c)
      BY <1>2, <1>3, <2>2, <2>3 DEF OnPath
    <3>. QED BY <1>4, <2>3, <3>1 DEF EndOfChain
  <2>4. CASE c # new
    <3>1. e[c] # 0 <=> f[c] # 0
      <4>1. CASE c = last
        <5>1. f[last] # 0
          BY <2>2, OnPathTaken
        <5>. QED BY <1>1, <1>4, <4>1, <5>1, Sizes
      <4>2. CASE c # last
        BY <1>4, <2>1, <2>4, <4>2
      <4>. QED BY <4>1, <4>2
    <3>2. OnPath(p, c) => OnPath(q, c)
      <4> SUFFICES ASSUME NEW g \in DOMAIN p, NEW k \in 1..Len(p[g]), p[g][k] = c
                   PROVE  OnPath(q, c)
        BY DEF OnPath
      <4>1. k \in 1..Len(q[g]) /\ q[g][k] = c
        <5>1. CASE g = h
          BY <1>1, <1>3, <5>1
        <5>2. CASE g # h
          BY <1>2, <5>2
        <5>. QED BY <5>1, <5>2
      <4>. QED BY <1>2, <4>1 DEF OnPath
    <3>3. OnPath(q, c) => OnPath(p, c)
      <4> SUFFICES ASSUME NEW g \in DOMAIN p, NEW k \in 1..Len(q[g]), q[g][k] = c
                   PROVE  OnPath(p, c)
        BY <1>2 DEF OnPath
      <4>1. k \in 1..Len(p[g]) /\ p[g][k] = c
        <5>1. CASE g = h
          <6>1. k \in 1..n \/ k = n + 1
            BY <1>1, <1>3, <5>1
          <6>. QED BY <1>3, <2>4, <5>1, <6>1
        <5>2. CASE g # h
          BY <1>2, <5>2
        <5>. QED BY <5>1, <5>2
      <4>. QED BY <4>1 DEF OnPath
    <3>. QED BY <2>1, <3>1, <3>2, <3>3
  <2>. QED BY <2>3, <2>4
<1>9. Laid(e, q)
  <2>1. Rootdir \in DOMAIN q
    BY <1>2 DEF Laid
  <2>. QED BY <1>2, <1>4, <1>6, <1>7, <1>8, <2>1 DEF Laid
<1>. QED BY <1>3, <1>5, <1>9 DEF q, e

\* A free cluster that is ended is a chain of its own.
LEMMA ChainAdded ==
    ASSUME NEW f, NEW p, Laid(f, p), NEW c \in Free(f),
           NEW q, DOMAIN q = DOMAIN p \cup {c},
           q[c] = <<c>>, \A g \in DOMAIN p : q[g] = p[g],
           NEW e \in Fats, e[c] = EndOfChain, \A d \in Clusters \ {c} : e[d] = f[d]
    PROVE  Laid(e, q)
<1>1. /\ c \in Data /\ c \in Linkable /\ c \in Clusters /\ f[c] = 0
      /\ \A g \in DOMAIN p : \A k \in 1..Len(p[g]) : p[g][k] # c
      /\ c \notin DOMAIN p
  BY FreeOffPath, Sizes
<1>2. /\ DOMAIN q = DOMAIN p \cup {c}
      /\ q[c] = <<c>>
      /\ \A g \in DOMAIN p : q[g] = p[g]
  BY <1>1
<1>3. q[c] \in Seq(Linkable) /\ Len(q[c]) = 1 /\ q[c][1] = c
  BY <1>1, <1>2
<1>4. /\ e \in Fats
      /\ e[c] = EndOfChain
      /\ \A d \in Clusters \ {c} : e[d] = f[d]
  OBVIOUS
<1>5. NothingShared(q)
  <2> SUFFICES ASSUME NEW a \in DOMAIN q, NEW b \in DOMAIN q,
                      NEW j \in 1..Len(q[a]), NEW k \in 1..Len(q[b]), q[a][j] = q[b][k]
               PROVE  a = b /\ j = k
    BY DEF NothingShared
  <2>1. ASSUME NEW g \in DOMAIN q, NEW i \in 1..Len(q[g])
        PROVE  \/ g \in DOMAIN p /\ i \in 1..Len(p[g]) /\ q[g][i] = p[g][i] /\ q[g][i] # c
               \/ g = c /\ i = 1 /\ q[g][i] = c
    <3>1. CASE g \in DOMAIN p
      BY <1>1, <1>2, <3>1
    <3>2. CASE g = c
      <4>1. Len(q[g]) = 1 /\ q[g][1] = c
        BY <1>3, <3>2
      <4>2. i = 1
        BY <4>1
      <4>. QED BY <3>2, <4>1, <4>2
    <3>. QED BY <1>2, <3>1, <3>2
  <2>2. NothingShared(p)
    BY DEF Laid
  <2>. QED BY <2>1, <2>2 DEF NothingShared
<1>6. ASSUME NEW g \in DOMAIN q PROVE PathFrom(e, g, q[g])
  <2>1. CASE g = c
    <3>1. ASSUME NEW k \in 1..Len(q[c])
          PROVE  e[q[c][k]] = IF k = Len(q[c]) THEN EndOfChain ELSE q[c][k + 1]
      <4>1. Len(q[c]) = 1 /\ q[c][1] = c
        BY <1>3
      <4>2. k = 1
        BY <4>1
      <4>. QED BY <1>4, <4>1, <4>2
    <3>2. PathFrom(e, c, q[c])
      <4>1. Len(q[c]) >= 1
        BY <1>3
      <4>. QED BY <1>3, <3>1, <4>1 DEF PathFrom
    <3>. QED BY <2>1, <3>2
  <2>2. CASE g # c
    <3>1. g \in DOMAIN p /\ q[g] = p[g] /\ PathFrom(f, g, p[g])
      BY <1>2, <2>2 DEF Laid
    <3>2. \A k \in 1..Len(p[g]) : e[p[g][k]] = f[p[g][k]]
      <4> SUFFICES ASSUME NEW k \in 1..Len(p[g]) PROVE e[p[g][k]] = f[p[g][k]]
        OBVIOUS
      <4>1. p[g][k] \in Clusters /\ p[g][k] # c
        BY <1>1, <3>1, OnPathTaken, Sizes
      <4>. QED BY <1>4, <4>1
    <3>. QED BY <3>1, <3>2 DEF PathFrom
  <2>. QED BY <2>1, <2>2
<1>7. ASSUME NEW d \in Data PROVE e[d] # 0 <=> OnPath(q, d)
  <2>1. d \in Clusters /\ (f[d] # 0 <=> OnPath(p, d))
    BY Sizes DEF Laid
  <2>2. CASE d = c
    <3>1. OnPath(q, d)
      BY <1>2, <1>3, <2>2 DEF OnPath
    <3>. QED BY <1>4, <2>2, <3>1 DEF EndOfChain
  <2>3. CASE d # c
    <3>1. e[d] = f[d]
      BY <1>4, <2>1, <2>3
    <3>2. OnPath(p, d) <=> OnPath(q, d)
      BY <1>2, <1>3, <2>3 DEF OnPath
    <3>. QED BY <2>1, <3>1, <3>2
  <2>. QED BY <2>2, <2>3
<1>8. Laid(e, q)
  <2>1. Rootdir \in DOMAIN q
    BY <1>2 DEF Laid
  <2>. QED BY <1>2, <1>4, <1>5, <1>6, <1>7, <2>1 DEF Laid
<1>. QED BY <1>8

\* Freeing a chain other than the directory's removes its path and no other.
LEMMA ChainRemoved ==
    ASSUME NEW f, NEW p, Laid(f, p), NEW h \in DOMAIN p \ {Rootdir}
    PROVE  Laid(FreedChain(f, h), [g \in DOMAIN p \ {h} |-> p[g]])
<1> DEFINE q == [g \in DOMAIN p \ {h} |-> p[g]]
           e == FreedChain(f, h)
<1>1. Chain(f, h) = {p[h][k] : k \in 1..Len(p[h])}
  BY ChainOnPath
<1>2. /\ DOMAIN q = DOMAIN p \ {h}
      /\ \A g \in DOMAIN q : q[g] = p[g]
  OBVIOUS
<1>3. e = [c \in Clusters |-> IF c \in Chain(f, h) THEN 0 ELSE f[c]]
  BY DEF FreedChain
<1>4. e \in Fats
  <2>1. f \in Fats
    BY DEF Laid
  <2>. QED BY <1>3, <2>1, Sizes DEF Fats
<1>5. \A c \in Clusters : e[c] = IF c \in Chain(f, h) THEN 0 ELSE f[c]
  BY <1>3
<1> HIDE DEF q, e
<1>6. NothingShared(q)
  BY <1>2 DEF Laid, NothingShared
<1>7. ASSUME NEW g \in DOMAIN q PROVE PathFrom(e, g, q[g])
  <2>1. g \in DOMAIN p /\ g # h /\ q[g] = p[g] /\ PathFrom(f, g, p[g])
    BY <1>2 DEF Laid
  <2>2. \A k \in 1..Len(p[g]) : e[p[g][k]] = f[p[g][k]]
    <3> SUFFICES ASSUME NEW k \in 1..Len(p[g]) PROVE e[p[g][k]] = f[p[g][k]]
      OBVIOUS
    <3>1. p[g][k] \in Clusters
      BY <2>1, OnPathTaken, Sizes
    <3>2. p[g][k] \notin Chain(f, h)
      BY <1>1, <2>1 DEF Laid, NothingShared
    <3>. QED BY <1>5, <3>1, <3>2
  <2>. QED BY <2>1, <2>2 DEF PathFrom
<1>8. ASSUME NEW c \in Data PROVE e[c] # 0 <=> OnPath(q, c)
  <2>1. c \in Clusters /\ (f[c] # 0 <=> OnPath(p, c))
    BY Sizes DEF Laid
  <2>2. CASE c \in Chain(f, h)
    <3>1. PICK k \in 1..Len(p[h]) : p[h][k] = c
      BY <1>1, <2>2
    <3>2. ~ OnPath(q, c)
      BY <1>2, <3>1 DEF OnPath, Laid, NothingShared
    <3>. QED BY <1>5, <2>1, <2>2, <3>2
  <2>3. CASE c \notin Chain(f, h)
    <3>1. OnPath(q, c) <=> OnPath(p, c)
      BY <1>1, <1>2, <2>3 DEF OnPath
    <3>. QED BY <1>5, <2>1, <2>3, <3>1
  <2>. QED BY <2>2, <2>3
<1>9. Laid(e, q)
  <2>1. Rootdir \in DOMAIN q
    BY <1>2 DEF Laid
  <2>. QED BY <1>2, <1>4, <1>6, <1>7, <1>8, <2>1 DEF Laid
<1>. QED BY <1>9 DEF q, e

\* Two ways to lengthen a chain, one after the other, and none.
LEMMA LengthenedTwice ==
    ASSUME NEW p, NEW q, NEW r, NEW h, Lengthened(p, q, h), Lengthened(q, r, h),
           h \in DOMAIN p, Len(p[h]) \in Nat, Len(q[h]) \in Nat, Len(r[h]) \in Nat
    PROVE  Lengthened(p, r, h)
<1>1. DOMAIN r = DOMAIN p /\ \A g \in DOMAIN p \ {h} : r[g] = p[g]
  BY DEF Lengthened
<1>2. Len(p[h]) <= Len(r[h]) /\ \A k \in 1..Len(p[h]) : k \in 1..Len(q[h])
  BY DEF Lengthened
<1>3. \A k \in 1..Len(p[h]) : r[h][k] = p[h][k]
  BY <1>2 DEF Lengthened
<1>. QED BY <1>1, <1>2, <1>3 DEF Lengthened

LEMMA NotLengthened ==
    ASSUME NEW p, NEW h, Len(p[h]) \in Nat
    PROVE  Lengthened(p, p, h)
  BY DEF Lengthened

\* Lengthening takes clusters that were on no path.
LEMMA NewOnPath ==
    ASSUME NEW f, NEW p, Laid(f, p), NEW e, NEW q, Laid(e, q), NEW h \in DOMAIN p,
           Lengthened(p, q, h), NEW k \in 1..Len(q[h]), k > Len(p[h])
    PROVE  q[h][k] \in Data /\ ~ OnPath(p, q[h][k])
<1>1. Len(p[h]) \in Nat /\ Len(p[h]) >= 1 /\ Len(q[h]) \in Nat /\ h \in DOMAIN q
  BY PathFits DEF Lengthened
<1>2. ASSUME NEW g \in DOMAIN p, NEW j \in 1..Len(p[g]), p[g][j] = q[h][k] PROVE FALSE
  <2>1. g \in DOMAIN q /\ j \in 1..Len(q[g]) /\ q[g][j] = p[g][j] /\ (g = h => j # k)
    <3>1. CASE g = h
      BY <1>1, <3>1 DEF Lengthened
    <3>2. CASE g # h
      BY <3>2 DEF Lengthened
    <3>. QED BY <3>1, <3>2
  <2>2. g = h /\ j = k
    BY <1>1, <1>2, <2>1 DEF Laid, NothingShared
  <2>. QED BY <2>1, <2>2
<1>3. ~ OnPath(p, q[h][k])
  BY <1>2 DEF OnPath
<1>4. q[h][k] \in Linkable
  BY <1>1, OnPathTaken
<1>5. OnPath(p, Rootdir)
  <2>1. Rootdir \in DOMAIN p
    BY DEF Laid
  <2>2. 1 \in 1..Len(p[Rootdir]) /\ p[Rootdir][1] = Rootdir
    BY <2>1, HeadOnPath
  <2>. QED BY <2>1, <2>2 DEF OnPath
<1>. QED BY <1>3, <1>4, <1>5, Sizes

-----------------------------------------------------------------------------
(* Lengthening a chain up to an offset. *)

Growths == [fat : Fats, at : Clusters, full : BOOLEAN]

\* One link further, as Grown goes.
GrowStep(s) ==
    LET next == Linked(s.fat, s.at)
        new  == LowestFree(s.fat)
    IN  IF s.full THEN s
        ELSE IF next # EndOfChain THEN [s EXCEPT !.at = next]
        ELSE IF Free(s.fat) = {} THEN [s EXCEPT !.full = TRUE]
        ELSE [s EXCEPT !.fat = [@ EXCEPT ![new] = EndOfChain, ![s.at] = new],
                       !.at = new]

LEMMA GrowStepCases ==
    ASSUME NEW s \in Growths
    PROVE  /\ s.full => GrowStep(s) = s
           /\ (~ s.full /\ Linked(s.fat, s.at) # EndOfChain) =>
                  GrowStep(s) = [fat |-> s.fat, at |-> Linked(s.fat, s.at), full |-> FALSE]
           /\ (~ s.full /\ Linked(s.fat, s.at) = EndOfChain /\ Free(s.fat) = {}) =>
                  GrowStep(s) = [fat |-> s.fat, at |-> s.at, full |-> TRUE]
           /\ (~ s.full /\ Linked(s.fat, s.at) = EndOfChain /\ Free(s.fat) # {}) =>
                  LET new == LowestFree(s.fat)
                  IN  GrowStep(s) =
                        [fat  |-> [s.fat EXCEPT ![new] = EndOfChain, ![s.at] = new],
                         at   |-> new,
                         full |-> FALSE]
<1> DEFINE next == Linked(s.fat, s.at)
           new  == LowestFree(s.fat)
           e    == [s.fat EXCEPT ![new] = EndOfChain, ![s.at] = new]
<1>1. s = [fat |-> s.fat, at |-> s.at, full |-> s.full] /\ s.full \in BOOLEAN
  BY DEF Growths
<1>2. s.full => GrowStep(s) = s
  BY DEF GrowStep
<1>3. ~ s.full /\ next # EndOfChain => GrowStep(s) = [s EXCEPT !.at = next]
  BY DEF GrowStep
<1>4. ~ s.full /\ next = EndOfChain /\ Free(s.fat) = {} => GrowStep(s) = [s EXCEPT !.full = TRUE]
  BY DEF GrowStep
<1>5. ~ s.full /\ next = EndOfChain /\ Free(s.fat) # {} =>
          GrowStep(s) = [s EXCEPT !.fat = e, !.at = new]
  BY DEF GrowStep
<1> HIDE DEF next, new, e
<1>6. [s EXCEPT !.at = next] = [fat |-> s.fat, at |-> next, full |-> s.full]
  BY <1>1
<1>7. [s EXCEPT !.full = TRUE] = [fat |-> s.fat, at |-> s.at, full |-> TRUE]
  <2> DEFINE yes == TRUE
  <2> HIDE DEF yes
  <2>1. [s EXCEPT !.full = yes] = [fat |-> s.fat, at |-> s.at, full |-> yes]
    BY <1>1
  <2>. QED BY <2>1 DEF yes
<1>8. [s EXCEPT !.fat = e, !.at = new] = [fat |-> e, at |-> new, full |-> s.full]
  <2> DEFINE t == [s EXCEPT !.fat = e]
  <2>1. t = [fat |-> e, at |-> s.at, full |-> s.full]
    BY <1>1
  <2>2. [s EXCEPT !.fat = e, !.at = new] = [t EXCEPT !.at = new]
    BY Zenon
  <2> HIDE DEF t
  <2>3. [t EXCEPT !.at = new] = [fat |-> e, at |-> new, full |-> s.full]
    BY <2>1
  <2>. QED BY <2>2, <2>3
<1>. QED BY <1>1, <1>2, <1>3, <1>4, <1>5, <1>6, <1>7, <1>8 DEF next, new, e

LEMMA GrowStepType == \A s \in Growths : GrowStep(s) \in Growths
<1> SUFFICES ASSUME NEW s \in Growths PROVE GrowStep(s) \in Growths
  OBVIOUS
<1>1. s.fat \in Fats /\ s.at \in Clusters /\ s.full \in BOOLEAN
  BY DEF Growths
<1>2. CASE s.full
  BY <1>2, GrowStepCases
<1>3. CASE ~ s.full /\ Linked(s.fat, s.at) # EndOfChain
  <2>1. Linked(s.fat, s.at) \in Clusters
    BY <1>1, <1>3 DEF Linked, Fats
  <2>2. GrowStep(s) = [fat |-> s.fat, at |-> Linked(s.fat, s.at), full |-> FALSE]
    BY <1>3, GrowStepCases
  <2>. QED BY <1>1, <2>1, <2>2 DEF Growths
<1>4. CASE ~ s.full /\ Linked(s.fat, s.at) = EndOfChain /\ Free(s.fat) = {}
  <2>1. GrowStep(s) = [fat |-> s.fat, at |-> s.at, full |-> TRUE]
    BY <1>4, GrowStepCases
  <2>. QED BY <1>1, <2>1 DEF Growths
<1>5. CASE ~ s.full /\ Linked(s.fat, s.at) = EndOfChain /\ Free(s.fat) # {}
  <2> DEFINE new == LowestFree(s.fat)
             e   == [s.fat EXCEPT ![new] = EndOfChain, ![s.at] = new]
  <2>1. new \in Clusters
    BY <1>5, LowestFreeIsFree, Sizes DEF Free, Data
  <2>2. e \in Fats
    <3> HIDE DEF new
    <3>. QED BY <1>1, <2>1 DEF Fats
  <2>3. GrowStep(s) = [fat |-> e, at |-> new, full |-> FALSE]
    BY <1>5, GrowStepCases
  <2> HIDE DEF new, e
  <2>. QED BY <2>1, <2>2, <2>3 DEF Growths
<1>. QED BY <1>1, <1>2, <1>3, <1>4, <1>5

\* s is reached k links behind h, from the paths p: on the path of h, which was
\* lengthened only as far as that, or the disk is full and the path ends before.
Reached(p, h, k, s) ==
    /\ s \in Growths
    /\ \E q : /\ Laid(s.fat, q)
              /\ Lengthened(p, q, h)
              /\ IF s.full
                 THEN Free(s.fat) = {} /\ Len(q[h]) <= k
                 ELSE /\ k < Len(q[h]) /\ s.at = q[h][k + 1]
                      /\ Len(q[h]) = Len(p[h]) \/ Len(q[h]) = k + 1

LEMMA ReachedNext ==
    ASSUME NEW f, NEW p, Laid(f, p), NEW h \in DOMAIN p, NEW k \in Nat,
           NEW s, Reached(p, h, k, s)
    PROVE  Reached(p, h, k + 1, GrowStep(s))
<1>1. PICK q : /\ Laid(s.fat, q)
               /\ Lengthened(p, q, h)
               /\ IF s.full
                  THEN Free(s.fat) = {} /\ Len(q[h]) <= k
                  ELSE /\ k < Len(q[h]) /\ s.at = q[h][k + 1]
                       /\ Len(q[h]) = Len(p[h]) \/ Len(q[h]) = k + 1
  BY DEF Reached
<1>2. s \in Growths /\ s.full \in BOOLEAN
  BY DEF Reached, Growths
<1>3. h \in DOMAIN q /\ Len(q[h]) \in Nat /\ Len(p[h]) \in Nat /\ Len(p[h]) <= Len(q[h])
  BY <1>1, PathFits DEF Lengthened
<1>4. GrowStep(s) \in Growths
  BY <1>2, GrowStepType
<1>5. CASE s.full
  <2>1. GrowStep(s) = s
    BY <1>2, <1>5, GrowStepCases
  <2>. QED BY <1>1, <1>2, <1>3, <1>5, <2>1 DEF Reached
<1>6. CASE ~ s.full
  <2>1. k + 1 \in 1..Len(q[h]) /\ s.at = q[h][k + 1] /\ PathFrom(s.fat, h, q[h])
    BY <1>1, <1>3, <1>6 DEF Laid
  <2>2. Linked(s.fat, s.at) = IF k + 1 = Len(q[h]) THEN EndOfChain ELSE q[h][(k + 1) + 1]
    BY <2>1, LinkedOnPath
  <2>3. CASE k + 1 # Len(q[h])
    <3>1. k + 2 \in 1..Len(q[h]) /\ q[h][k + 2] \in Linkable
      BY <1>3, <2>1, <2>3, LinkedOnPath
    <3>2. Linked(s.fat, s.at) = q[h][(k + 1) + 1] /\ Linked(s.fat, s.at) # EndOfChain
      BY <2>2, <2>3, <3>1, Sizes
    <3>3. GrowStep(s) = [fat |-> s.fat, at |-> q[h][(k + 1) + 1], full |-> FALSE]
      BY <1>2, <1>6, <3>2, GrowStepCases
    <3>4. k + 1 < Len(q[h]) /\ Len(q[h]) = Len(p[h])
      BY <1>1, <1>3, <1>6, <2>1, <2>3
    <3> DEFINE t == GrowStep(s)
    <3>5. t.fat = s.fat /\ t.at = q[h][(k + 1) + 1] /\ t.full = FALSE /\ t \in Growths
      BY <1>4, <3>3
    <3> HIDE DEF t
    <3>6. Reached(p, h, k + 1, t)
      BY <1>1, <3>4, <3>5 DEF Reached
    <3>. QED BY <3>6 DEF t
  <2>4. CASE k + 1 = Len(q[h]) /\ Free(s.fat) = {}
    <3>1. GrowStep(s) = [fat |-> s.fat, at |-> s.at, full |-> TRUE]
      BY <1>2, <1>6, <2>2, <2>4, GrowStepCases
    <3> DEFINE t == GrowStep(s)
    <3>2. t.fat = s.fat /\ t.full = TRUE /\ t \in Growths
      BY <1>4, <3>1
    <3> HIDE DEF t
    <3>3. Reached(p, h, k + 1, t)
      BY <1>1, <1>3, <2>4, <3>2 DEF Reached
    <3>. QED BY <3>3 DEF t
  <2>5. CASE k + 1 = Len(q[h]) /\ Free(s.fat) # {}
    <3> DEFINE new == LowestFree(s.fat)
               e   == [s.fat EXCEPT ![new] = EndOfChain, ![s.at] = new]
               r   == [q EXCEPT ![h] = Append(@, new)]
               t   == GrowStep(s)
    <3>1. t = [fat |-> e, at |-> new, full |-> FALSE] /\ t \in Growths
      BY <1>2, <1>4, <1>6, <2>2, <2>5, GrowStepCases
    <3>2. new \in Free(s.fat)
      BY <2>5, LowestFreeIsFree
    <3> HIDE DEF new, t
    <3>3. s.at = q[h][Len(q[h])]
      BY <2>1, <2>5
    <3>4. Laid(e, r) /\ Lengthened(q, r, h) /\ Len(r[h]) = Len(q[h]) + 1 /\ r[h][Len(r[h])] = new
      BY <1>1, <1>3, <3>2, <3>3, ChainLengthens
    <3> HIDE DEF e, r
    <3>5. Lengthened(p, r, h)
      <4>1. Len(r[h]) \in Nat
        BY <1>3, <3>4
      <4>. QED BY <1>1, <1>3, <3>4, <4>1, LengthenedTwice
    <3>6. t.fat = e /\ t.at = new /\ t.full = FALSE
      BY <3>1
    <3>7. k + 1 < Len(r[h]) /\ t.at = r[h][(k + 1) + 1] /\ Len(r[h]) = (k + 1) + 1
      BY <2>5, <3>4, <3>6
    <3>8. Reached(p, h, k + 1, t)
      BY <3>1, <3>4, <3>5, <3>6, <3>7 DEF Reached
    <3>. QED BY <3>8 DEF t
  <2>. QED BY <2>3, <2>4, <2>5
<1>. QED BY <1>2, <1>5, <1>6

LEMMA GrownReaches ==
    ASSUME NEW f, NEW p, Laid(f, p), NEW h \in DOMAIN p, NEW n \in Nat
    PROVE  Reached(p, h, n, Grown(f, h, n))
<1> DEFINE start == [fat |-> f, at |-> h, full |-> FALSE]
           Step(e) == [k \in 0..n |-> IF k = 0 THEN start ELSE GrowStep(e[k - 1])]
           grown == CHOOSE e : e = Step(e)
           F == [k \in 1..n |-> [s \in Growths |-> GrowStep(s)]]
           P == {k \in Nat : Reached(p, h, k, grown[k])}
<1>1. start \in Growths
  <2>1. f \in Fats /\ h \in Clusters
    BY HeadOnPath, Sizes DEF Laid
  <2>. QED BY <2>1 DEF Growths
<1>2. F \in [1..n -> [Growths -> Growths]]
  BY GrowStepType
<1>3. PICK g \in [0..n -> Growths] : Recurs(g, start, n, F)
  <2> HIDE DEF F, start
  <2>. QED BY <1>1, <1>2, RecursionExists
<1>4. g = Step(g)
  <2>1. ASSUME NEW k \in 0..n PROVE g[k] = IF k = 0 THEN start ELSE GrowStep(g[k - 1])
    <3>1. CASE k = 0
      BY <1>3, <3>1 DEF Recurs
    <3>2. CASE k # 0
      <4>1. k \in 1..n /\ k - 1 \in 0..n
        BY <3>2
      <4>2. g[k] = F[k][g[k - 1]]
        BY <1>3, <4>1 DEF Recurs
      <4>3. g[k - 1] \in Growths
        BY <4>1
      <4>. QED BY <3>2, <4>1, <4>2, <4>3
    <3>. QED BY <3>1, <3>2
  <2> HIDE DEF start, F
  <2>. QED BY <2>1
<1>5. grown = Step(grown)
  <2> HIDE DEF Step
  <2>. QED BY <1>4
<1>6. Grown(f, h, n) = grown[n]
  BY DEF Grown, GrowStep
<1>7. grown[0] = start /\ \A k \in 1..n : grown[k] = GrowStep(grown[k - 1])
  <2> HIDE DEF grown, start
  <2>1. grown[0] = start
    BY <1>5
  <2>2. ASSUME NEW k \in 1..n PROVE grown[k] = GrowStep(grown[k - 1])
    <3>1. k \in 0..n /\ k # 0
      OBVIOUS
    <3>. QED BY <1>5, <3>1
  <2>. QED BY <2>1, <2>2
<1> HIDE DEF grown
<1>8. 0 \in P
  <2>1. start.fat = f /\ start.at = h /\ start.full = FALSE
    OBVIOUS
  <2>2. Len(p[h]) \in Nat /\ Len(p[h]) >= 1 /\ p[h][1] = h
    BY PathFits, HeadOnPath
  <2>3. Lengthened(p, p, h)
    BY <2>2, NotLengthened
  <2> HIDE DEF start
  <2>4. Reached(p, h, 0, start)
    <3>1. 0 < Len(p[h]) /\ start.at = p[h][0 + 1]
      BY <2>1, <2>2
    <3>. QED BY <1>1, <2>1, <2>3, <3>1 DEF Reached
  <2>. QED BY <1>7, <2>4
<1>9. ASSUME NEW k \in 1..n, k - 1 \in P PROVE k \in P
  <2>1. k - 1 \in Nat /\ (k - 1) + 1 = k /\ k \in Nat
    OBVIOUS
  <2>2. Reached(p, h, k - 1, grown[k - 1])
    BY <1>9
  <2>3. Reached(p, h, (k - 1) + 1, GrowStep(grown[k - 1]))
    BY <2>1, <2>2, ReachedNext
  <2>. QED BY <1>7, <2>1, <2>3
<1>10. n \in P
  <2> HIDE DEF P
  <2>1. \A k \in 0..n : k \in P
    BY <1>8, <1>9, RangeInduction
  <2>. QED BY <2>1
<1>. QED BY <1>6, <1>10

-----------------------------------------------------------------------------
(* Reading and writing at an offset of a chain. *)

LEMMA WithinPath ==
    ASSUME NEW f, NEW p, Laid(f, p), NEW h \in DOMAIN p, NEW o \in Nat, Within(p[h], o)
    PROVE  /\ (o \div ClusterSize) + 1 \in 1..Len(p[h])
           /\ p[h][(o \div ClusterSize) + 1] \in Linkable
           /\ o % ClusterSize \in Offsets
<1>1. o \div ClusterSize \in Nat /\ o % ClusterSize \in Offsets
  BY Division
<1>2. (o \div ClusterSize) + 1 \in 1..Len(p[h])
  BY <1>1, PathFits DEF Within
<1>. QED BY <1>1, <1>2, OnPathTaken

\* What is before an offset within a chain is within it.
LEMMA WithinBefore ==
    ASSUME NEW s, Len(s) \in Nat, NEW a \in Nat, NEW b \in Nat, a <= b, Within(s, b)
    PROVE  Within(s, a)
<1>1. a \div ClusterSize \in Nat /\ b \div ClusterSize \in Nat
  BY Division
<1>2. a \div ClusterSize <= b \div ClusterSize
  BY OffsetsGrow
<1>. QED BY <1>1, <1>2 DEF Within

\* The chain that is lengthened holds what it held.
LEMMA WithinLengthened ==
    ASSUME NEW p, NEW q, NEW h, Lengthened(p, q, h), Len(p[h]) \in Nat, Len(q[h]) \in Nat,
           NEW o \in Nat, Within(p[h], o)
    PROVE  /\ Within(q[h], o)
           /\ q[h][(o \div ClusterSize) + 1] = p[h][(o \div ClusterSize) + 1]
<1>1. o \div ClusterSize \in Nat
  BY Division
<1>2. (o \div ClusterSize) + 1 \in 1..Len(p[h])
  BY <1>1 DEF Within
<1>. QED BY <1>1, <1>2 DEF Within, Lengthened

\* On a full disk no chain gets longer.
LEMMA FullStays ==
    ASSUME NEW f, NEW p, Laid(f, p), NEW e, NEW q, Laid(e, q), NEW h \in DOMAIN p,
           Lengthened(p, q, h), Free(f) = {}
    PROVE  Len(q[h]) = Len(p[h])
<1>1. Len(p[h]) \in Nat /\ Len(q[h]) \in Nat /\ Len(p[h]) <= Len(q[h])
  BY PathFits DEF Lengthened
<1> SUFFICES ASSUME Len(p[h]) < Len(q[h]) PROVE FALSE
  BY <1>1
<1>2. Len(p[h]) + 1 \in 1..Len(q[h]) /\ Len(p[h]) + 1 > Len(p[h])
  BY <1>1
<1>3. PICK c : c = q[h][Len(p[h]) + 1]
  OBVIOUS
<1>4. c \in Data /\ ~ OnPath(p, c)
  BY <1>2, <1>3, NewOnPath
<1>5. f[c] = 0
  BY <1>4 DEF Laid
<1>. QED BY <1>4, <1>5 DEF Free, Data

LEMMA ReadInChain ==
    ASSUME NEW d, NEW p, Laid(d.fat, p), NEW h \in DOMAIN p, NEW o \in Nat
    PROVE  Read8(d, h, o) = IF Within(p[h], o) THEN Stored(d.cell, p[h], o) ELSE NotRead
<1> DEFINE n == o \div ClusterSize
           c == Hop(d.fat, h, n)
<1>1. n \in Nat /\ PathFrom(d.fat, h, p[h])
  BY Division DEF Laid
<1>2. c = OnwardFrom(p[h], n)
  <2> HIDE DEF n
  <2>. QED BY <1>1, HopOnPath
<1>3. Read8(d, h, o) = IF c = EndOfChain THEN NotRead ELSE d.cell[c][o % ClusterSize]
  BY DEF Read8
<1>4. CASE Within(p[h], o)
  <2>1. c = p[h][n + 1]
    BY <1>2, <1>4 DEF OnwardFrom, Within
  <2>2. c # EndOfChain
    BY <1>4, <2>1, WithinPath, Sizes
  <2>. QED BY <1>3, <1>4, <2>1, <2>2 DEF Stored
<1>5. CASE ~ Within(p[h], o)
  <2>1. c = EndOfChain
    BY <1>2, <1>5 DEF OnwardFrom, Within
  <2>. QED BY <1>3, <1>5, <2>1
<1>. QED BY <1>4, <1>5

\* The memory with the value v at an offset of the path s.
Placed(m, s, o, v) == [m EXCEPT ![s[(o \div ClusterSize) + 1]][o % ClusterSize] = v]

\* m is w but for the value v at the offset o of the path s.
OnlyPlaced(w, m, s, o, v) ==
    /\ m \in Memories
    /\ \A c \in Clusters : (\A k \in 1..Len(s) : s[k] # c) => m[c] = w[c]
    /\ \A x \in Nat : Within(s, x) =>
           Stored(m, s, x) = IF x = o THEN v ELSE Stored(w, s, x)

LEMMA PlacedInPath ==
    ASSUME NEW f, NEW p, Laid(f, p), NEW h \in DOMAIN p, NEW o \in Nat, Within(p[h], o),
           NEW m \in Memories, NEW v \in Nat
    PROVE  OnlyPlaced(m, Placed(m, p[h], o, v), p[h], o, v)
<1> DEFINE i == (o \div ClusterSize) + 1
           j == o % ClusterSize
           c == p[h][i]
           w == Placed(m, p[h], o, v)
<1>1. i \in 1..Len(p[h]) /\ c \in Clusters /\ j \in Offsets /\ o \div ClusterSize \in Nat
  BY WithinPath, Sizes, Division
<1>2. w = [m EXCEPT ![c][j] = v]
  BY DEF Placed
<1> HIDE DEF w, j
<1>3. w \in Memories
  BY <1>1, <1>2 DEF Memories
<1>4. \A e \in Clusters : e # c => w[e] = m[e]
  BY <1>1, <1>2 DEF Memories
<1>5. w[c] = [m[c] EXCEPT ![j] = v]
  BY <1>1, <1>2 DEF Memories
<1>6. \A k \in Offsets : w[c][k] = IF k = j THEN v ELSE m[c][k]
  BY <1>1, <1>5 DEF Memories
<1>7. ASSUME NEW x \in Nat, Within(p[h], x)
      PROVE  Stored(w, p[h], x) = IF x = o THEN v ELSE Stored(m, p[h], x)
  <2> DEFINE a == (x \div ClusterSize) + 1
             b == x % ClusterSize
  <2>1. a \in 1..Len(p[h]) /\ p[h][a] \in Clusters /\ b \in Offsets /\ x \div ClusterSize \in Nat
    BY <1>7, WithinPath, Sizes, Division
  <2>2. Stored(w, p[h], x) = w[p[h][a]][b] /\ Stored(m, p[h], x) = m[p[h][a]][b]
    BY DEF Stored
  <2>3. p[h][a] = c <=> a = i
    BY <1>1, <2>1 DEF Laid, NothingShared
  <2>4. x = o <=> a = i /\ b = j
    <3>1. ASSUME a = i, b = j PROVE x = o
      <4>1. x \div ClusterSize = o \div ClusterSize /\ x % ClusterSize = o % ClusterSize
        BY <1>1, <2>1, <3>1 DEF j
      <4>. QED BY <4>1, SameOffset
    <3>. QED BY <3>1 DEF j
  <2> HIDE DEF a, b, c, i
  <2>. QED BY <1>4, <1>6, <2>1, <2>2, <2>3, <2>4
<1>8. ASSUME NEW e \in Clusters, \A k \in 1..Len(p[h]) : p[h][k] # e PROVE w[e] = m[e]
  BY <1>1, <1>4, <1>8
<1>9. OnlyPlaced(m, w, p[h], o, v)
  BY <1>3, <1>7, <1>8 DEF OnlyPlaced
<1>. QED BY <1>9 DEF w

\* A single cell is written where it is asked for, in a chain lengthened to
\* there; or the disk is full, and the chain is as long as that let it be.
OneWritten(d, p, h, o, v, e, q) ==
    /\ Laid(e.fat, q)
    /\ Lengthened(p, q, h)
    /\ IF Within(q[h], o)
       THEN /\ e.ok = d.ok
            /\ e.cell = Placed(d.cell, q[h], o, v)
            /\ Within(p[h], o) => q = p /\ e.fat = d.fat
       ELSE ~ e.ok /\ e.cell = d.cell /\ Free(e.fat) = {}

LEMMA DiskWith ==
    ASSUME NEW d \in Disks, NEW f \in Fats, NEW m \in Memories
    PROVE  /\ \A b \in BOOLEAN : [fat |-> f, cell |-> m, ok |-> b] \in Disks
           /\ [d EXCEPT !.fat = f, !.cell = m] = [fat |-> f, cell |-> m, ok |-> d.ok]
           /\ [d EXCEPT !.fat = f, !.ok = FALSE] = [fat |-> f, cell |-> d.cell, ok |-> FALSE]
           /\ d = [fat |-> d.fat, cell |-> d.cell, ok |-> d.ok]
           /\ d.fat \in Fats /\ d.cell \in Memories /\ d.ok \in BOOLEAN
<1>1. /\ d = [fat |-> d.fat, cell |-> d.cell, ok |-> d.ok]
      /\ d.fat \in Fats /\ d.cell \in Memories /\ d.ok \in BOOLEAN
  BY DEF Disks
<1>2. \A b \in BOOLEAN : [fat |-> f, cell |-> m, ok |-> b] \in Disks
  BY DEF Disks
<1> DEFINE e == [d EXCEPT !.fat = f]
<1>3. e = [fat |-> f, cell |-> d.cell, ok |-> d.ok]
  BY <1>1
<1>4. /\ [d EXCEPT !.fat = f, !.cell = m] = [e EXCEPT !.cell = m]
      /\ [d EXCEPT !.fat = f, !.ok = FALSE] = [e EXCEPT !.ok = FALSE]
  BY Zenon
<1> HIDE DEF e
<1>5. [e EXCEPT !.cell = m] = [fat |-> f, cell |-> m, ok |-> d.ok]
  BY <1>3
<1>6. [e EXCEPT !.ok = FALSE] = [fat |-> f, cell |-> d.cell, ok |-> FALSE]
  <2> DEFINE no == FALSE
  <2> HIDE DEF no
  <2>1. [e EXCEPT !.ok = no] = [fat |-> f, cell |-> d.cell, ok |-> no]
    BY <1>3
  <2>. QED BY <2>1 DEF no
<1>. QED BY <1>1, <1>2, <1>4, <1>5, <1>6

LEMMA DiskWritten ==
    ASSUME NEW d \in Disks, NEW f \in Fats, NEW m \in Memories
    PROVE  [d EXCEPT !.fat = f, !.cell = m] = [fat |-> f, cell |-> m, ok |-> d.ok]
  BY DiskWith, Zenon

LEMMA OneIsWritten ==
    ASSUME NEW d \in Disks, NEW p, Laid(d.fat, p), NEW h \in DOMAIN p,
           NEW o \in Nat, NEW v \in Nat
    PROVE  /\ Write8(d, h, o, v) \in Disks
           /\ \E q : OneWritten(d, p, h, o, v, Write8(d, h, o, v), q)
<1> DEFINE n     == o \div ClusterSize
           found == Hop(d.fat, h, n)
           g     == IF found # EndOfChain THEN [fat |-> d.fat, at |-> found, full |-> FALSE]
                                          ELSE Grown(d.fat, h, n)
           m     == [d.cell EXCEPT ![g.at][o % ClusterSize] = v]
           e     == Write8(d, h, o, v)
<1>1. n \in Nat /\ PathFrom(d.fat, h, p[h]) /\ Len(p[h]) \in Nat
  BY Division, PathFits DEF Laid
<1>2. found = OnwardFrom(p[h], n)
  <2> HIDE DEF n
  <2>. QED BY <1>1, HopOnPath
<1>3. d.fat \in Fats /\ d.cell \in Memories /\ d.ok \in BOOLEAN
  BY DEF Disks
<1>4. e = IF g.full THEN [d EXCEPT !.fat = g.fat, !.ok = FALSE]
                    ELSE [d EXCEPT !.fat = g.fat, !.cell[g.at][o % ClusterSize] = v]
  BY DEF Write8
<1>5. [d EXCEPT !.fat = g.fat, !.cell[g.at][o % ClusterSize] = v] =
      [d EXCEPT !.fat = g.fat, !.cell = m]
  <2> HIDE DEF g
  <2>. QED BY <1>3 DEF Disks
<1>6. CASE Within(p[h], o)
  <2>1. found = p[h][n + 1]
    BY <1>2, <1>6 DEF OnwardFrom, Within
  <2>2. found \in Linkable /\ found # EndOfChain
    BY <1>6, <2>1, WithinPath, Sizes
  <2>3. g.fat = d.fat /\ g.at = found /\ g.full = FALSE
    BY <2>2
  <2>4. m = Placed(d.cell, p[h], o, v) /\ m \in Memories
    <3>1. m = Placed(d.cell, p[h], o, v)
      BY <2>1, <2>3 DEF Placed
    <3>. QED BY <1>3, <1>6, <3>1, PlacedInPath DEF OnlyPlaced
  <2>5. e = [d EXCEPT !.fat = g.fat, !.cell = m]
    BY <1>4, <1>5, <2>3
  <2> HIDE DEF m, g, e
  <2>6. e = [fat |-> d.fat, cell |-> m, ok |-> d.ok]
    <3>1. g.fat \in Fats /\ m \in Memories
      BY <1>3, <2>3, <2>4
    <3>2. e = [fat |-> g.fat, cell |-> m, ok |-> d.ok]
      BY <2>5, <3>1, DiskWritten, Zenon
    <3>. QED BY <2>3, <3>2
  <2>7. e \in Disks
    BY <1>3, <2>4, <2>6, DiskWith
  <2>8. e.fat = d.fat /\ e.cell = m /\ e.ok = d.ok
    BY <2>6
  <2>9. OneWritten(d, p, h, o, v, e, p)
    BY <1>1, <1>6, <2>4, <2>8, NotLengthened DEF OneWritten
  <2>. QED BY <2>7, <2>9 DEF e
<1>7. CASE ~ Within(p[h], o)
  <2>1. found = EndOfChain
    BY <1>2, <1>7 DEF OnwardFrom, Within
  <2>2. g = Grown(d.fat, h, n)
    BY <2>1
  <2> HIDE DEF g, n, found
  <2>3. Reached(p, h, n, g)
    BY <1>1, <2>2, GrownReaches
  <2>4. PICK q : /\ Laid(g.fat, q)
                 /\ Lengthened(p, q, h)
                 /\ IF g.full
                    THEN Free(g.fat) = {} /\ Len(q[h]) <= n
                    ELSE /\ n < Len(q[h]) /\ g.at = q[h][n + 1]
                         /\ Len(q[h]) = Len(p[h]) \/ Len(q[h]) = n + 1
    BY <2>3 DEF Reached
  <2>5. g.fat \in Fats /\ g.full \in BOOLEAN /\ h \in DOMAIN q /\ Len(q[h]) \in Nat
    BY <2>3, <2>4, PathFits DEF Reached, Growths, Lengthened
  <2>6. CASE g.full
    <3>1. e = [fat |-> g.fat, cell |-> d.cell, ok |-> FALSE]
      BY <1>3, <1>4, <2>5, <2>6, DiskWith
    <3> HIDE DEF e
    <3>2. e \in Disks
      BY <1>3, <2>5, <3>1, DiskWith
    <3>3. e.fat = g.fat /\ e.cell = d.cell /\ e.ok = FALSE
      BY <3>1
    <3>4. ~ Within(q[h], o)
      BY <1>1, <2>4, <2>5, <2>6 DEF Within, n
    <3>5. OneWritten(d, p, h, o, v, e, q)
      BY <2>4, <2>6, <3>3, <3>4 DEF OneWritten
    <3>. QED BY <3>2, <3>5 DEF e
  <2>7. CASE ~ g.full
    <3>1. Within(q[h], o) /\ g.at = q[h][n + 1]
      BY <2>4, <2>7 DEF Within, n
    <3>2. m = Placed(d.cell, q[h], o, v) /\ m \in Memories
      <4>1. m = Placed(d.cell, q[h], o, v)
        BY <3>1 DEF Placed, n
      <4>. QED BY <1>3, <2>4, <2>5, <3>1, <4>1, PlacedInPath DEF OnlyPlaced
    <3>3. e = [d EXCEPT !.fat = g.fat, !.cell = m]
      BY <1>4, <1>5, <2>7
    <3> HIDE DEF m, e
    <3>4. e = [fat |-> g.fat, cell |-> m, ok |-> d.ok]
      <4>1. g.fat \in Fats /\ m \in Memories
        BY <2>5, <3>2
      <4>. QED BY <3>3, <4>1, DiskWritten, Zenon
    <3>5. e \in Disks
      BY <1>3, <2>5, <3>2, <3>4, DiskWith
    <3>6. e.fat = g.fat /\ e.cell = m /\ e.ok = d.ok
      BY <3>4
    <3>7. OneWritten(d, p, h, o, v, e, q)
      BY <1>7, <2>4, <3>1, <3>2, <3>6 DEF OneWritten
    <3>. QED BY <3>5, <3>7 DEF e
  <2>. QED BY <2>5, <2>6, <2>7
<1>. QED BY <1>6, <1>7

\* The memory m holds what w holds, and k of the values at the offset o of the
\* path s.
Written(w, m, s, o, values, k) ==
    /\ m \in Memories
    /\ \A c \in Clusters : (\A j \in 1..Len(s) : s[j] # c) => m[c] = w[c]
    /\ \A x \in Nat : Within(s, x) =>
           Stored(m, s, x) = IF o <= x /\ x < o + k THEN values[x - o + 1] ELSE Stored(w, s, x)

\* The first k of the values are written as far as the disk had room.
SomeWritten(d, p, h, o, values, k, e, q) ==
    /\ Laid(e.fat, q)
    /\ Lengthened(p, q, h)
    /\ Written(d.cell, e.cell, q[h], o, values, k)
    /\ k = 0 => e = d /\ q = p
    /\ k > 0 => IF Within(q[h], o + k - 1)
                THEN /\ e.ok = d.ok
                     /\ Within(p[h], o + k - 1) => q = p /\ e.fat = d.fat
                ELSE ~ e.ok /\ Free(e.fat) = {}

LEMMA OneBefore ==
    ASSUME NEW o \in Nat, NEW k \in Nat, k - 1 > 0
    PROVE  o + (k - 1) - 1 \in Nat /\ o + (k - 1) - 1 <= o + k - 1
  OBVIOUS

LEMMA OneMoreWritten ==
    ASSUME NEW d \in Disks, NEW p, Laid(d.fat, p), NEW h \in DOMAIN p, NEW o \in Nat,
           NEW values \in Seq(Nat), NEW k \in 1..Len(values),
           NEW e \in Disks, NEW q, SomeWritten(d, p, h, o, values, k - 1, e, q),
           NEW w \in Disks, NEW r, OneWritten(e, q, h, o + k - 1, values[k], w, r)
    PROVE  SomeWritten(d, p, h, o, values, k, w, r)
<1> DEFINE y == o + k - 1
           v == values[k]
<1>1. k - 1 \in Nat /\ k \in Nat /\ k > 0 /\ y \in Nat /\ v \in Nat
  OBVIOUS
<1>2. /\ Laid(e.fat, q) /\ Lengthened(p, q, h)
      /\ Laid(w.fat, r) /\ Lengthened(q, r, h)
  BY DEF SomeWritten, OneWritten
<1>3. /\ h \in DOMAIN q /\ h \in DOMAIN r
      /\ Len(p[h]) \in Nat /\ Len(q[h]) \in Nat /\ Len(r[h]) \in Nat
  <2>1. h \in DOMAIN q /\ h \in DOMAIN r
    BY <1>2 DEF Lengthened
  <2>. QED BY <1>2, <2>1, PathFits
<1>4. Lengthened(p, r, h)
  BY <1>2, <1>3, LengthenedTwice
<1>5. e.cell \in Memories /\ Written(d.cell, e.cell, q[h], o, values, k - 1)
  BY DEF SomeWritten, Written
\* Had the disk been full before, this chain would not have become longer.
<1>6. ASSUME k - 1 > 0, ~ Within(q[h], o + (k - 1) - 1)
      PROVE  Len(r[h]) = Len(q[h]) /\ ~ Within(r[h], y)
  <2>1. Free(e.fat) = {}
    BY <1>6 DEF SomeWritten
  <2>2. Len(r[h]) = Len(q[h])
    BY <1>2, <1>3, <2>1, FullStays
  <2>3. o + (k - 1) - 1 \in Nat /\ o + (k - 1) - 1 <= y
    BY <1>1, <1>6, OneBefore
  <2>4. ~ Within(q[h], y)
    BY <1>1, <1>3, <1>6, <2>3, WithinBefore
  <2>. QED BY <2>2, <2>4 DEF Within
<1>7. ASSUME NEW x \in Nat, Within(r[h], x), ~ Within(q[h], x)
      PROVE  /\ Stored(e.cell, r[h], x) = Stored(d.cell, r[h], x)
             /\ ~ (o <= x /\ x < o + (k - 1))
  <2> DEFINE i == (x \div ClusterSize) + 1
             c == r[h][i]
  <2>1. i \in 1..Len(r[h]) /\ i > Len(q[h])
    <3>1. x \div ClusterSize \in Nat
      BY Division
    <3>. QED BY <1>3, <1>7, <3>1 DEF Within
  <2>2. c \in Data /\ ~ OnPath(q, c) /\ c \in Clusters
    <3> HIDE DEF i
    <3>. QED BY <1>2, <1>3, <2>1, NewOnPath, Sizes
  <2>3. \A j \in 1..Len(q[h]) : q[h][j] # c
    BY <1>3, <2>2 DEF OnPath
  <2>4. e.cell[c] = d.cell[c]
    <3> HIDE DEF c
    <3>. QED BY <1>5, <2>2, <2>3 DEF Written
  <2>5. ASSUME o <= x, x < o + (k - 1) PROVE FALSE
    <3>1. k - 1 > 0 /\ o + (k - 1) - 1 \in Nat /\ x <= o + (k - 1) - 1
      BY <1>1, <2>5
    <3>2. ~ Within(q[h], o + (k - 1) - 1)
      BY <1>3, <1>7, <3>1, WithinBefore
    <3>3. Len(r[h]) = Len(q[h])
      BY <1>6, <3>1, <3>2
    <3>. QED BY <1>7, <3>3 DEF Within
  <2>. QED BY <2>4, <2>5 DEF Stored
<1>8. ASSUME NEW x \in Nat, Within(r[h], x)
      PROVE  Stored(e.cell, r[h], x) =
                 IF o <= x /\ x < o + (k - 1) THEN values[x - o + 1] ELSE Stored(d.cell, r[h], x)
  <2>1. CASE Within(q[h], x)
    <3>1. r[h][(x \div ClusterSize) + 1] = q[h][(x \div ClusterSize) + 1]
      <4> HIDE DEF y, v
      <4>. QED BY <1>2, <1>3, <2>1, WithinLengthened
    <3>2. /\ Stored(e.cell, r[h], x) = Stored(e.cell, q[h], x)
          /\ Stored(d.cell, r[h], x) = Stored(d.cell, q[h], x)
      BY <3>1 DEF Stored
    <3>. QED BY <1>5, <2>1, <3>2 DEF Written
  <2>2. CASE ~ Within(q[h], x)
    BY <1>7, <1>8, <2>2
  <2>. QED BY <2>1, <2>2
<1>9. ASSUME NEW c \in Clusters, \A j \in 1..Len(r[h]) : r[h][j] # c
      PROVE  e.cell[c] = d.cell[c]
  <2>1. \A j \in 1..Len(q[h]) : q[h][j] # c
    <3> SUFFICES ASSUME NEW j \in 1..Len(q[h]) PROVE q[h][j] # c
      OBVIOUS
    <3>1. j \in 1..Len(r[h]) /\ r[h][j] = q[h][j]
      BY <1>2, <1>3 DEF Lengthened
    <3>. QED BY <1>9, <3>1
  <2>. QED BY <1>5, <2>1 DEF Written
<1>10. CASE Within(r[h], y)
  <2>1. w.ok = e.ok /\ w.cell = Placed(e.cell, r[h], y, v)
    BY <1>10 DEF OneWritten
  <2>2. /\ w.cell \in Memories
        /\ \A c \in Clusters : (\A j \in 1..Len(r[h]) : r[h][j] # c) => w.cell[c] = e.cell[c]
        /\ \A x \in Nat : Within(r[h], x) =>
               Stored(w.cell, r[h], x) = IF x = y THEN v ELSE Stored(e.cell, r[h], x)
    <3>1. y \in Nat /\ v \in Nat /\ e.cell \in Memories
      BY <1>1, <1>5
    <3> HIDE DEF y, v
    <3>2. Laid(w.fat, r) /\ h \in DOMAIN r /\ Within(r[h], y)
      BY <1>2, <1>3, <1>10
    <3>3. OnlyPlaced(e.cell, Placed(e.cell, r[h], y, v), r[h], y, v)
      BY <3>1, <3>2, PlacedInPath
    <3>4. OnlyPlaced(e.cell, w.cell, r[h], y, v)
      BY <2>1, <3>3
    <3>. QED BY <3>4 DEF OnlyPlaced
  <2>3. Written(d.cell, w.cell, r[h], o, values, k)
    <3>1. ASSUME NEW x \in Nat, Within(r[h], x)
          PROVE  Stored(w.cell, r[h], x) =
                     IF o <= x /\ x < o + k THEN values[x - o + 1] ELSE Stored(d.cell, r[h], x)
      <4>1. CASE x = y
        <5>1. x - o + 1 = k /\ o <= x /\ x < o + k
          BY <4>1
        <5>. QED BY <2>2, <3>1, <4>1, <5>1
      <4>2. CASE x # y
        <5>1. o <= x /\ x < o + k <=> o <= x /\ x < o + (k - 1)
          BY <4>2
        <5>2. Stored(w.cell, r[h], x) = Stored(e.cell, r[h], x)
          BY <2>2, <3>1, <4>2
        <5>. QED BY <1>8, <3>1, <5>1, <5>2
      <4>. QED BY <4>1, <4>2
    <3>. QED BY <1>9, <2>2, <3>1 DEF Written
  <2>4. w.ok = d.ok
    <3>1. k - 1 > 0 => Within(q[h], o + (k - 1) - 1)
      BY <1>6, <1>10
    <3>2. e.ok = d.ok
      BY <1>1, <3>1 DEF SomeWritten
    <3>. QED BY <2>1, <3>2
  <2>5. ASSUME Within(p[h], y) PROVE r = p /\ w.fat = d.fat
    <3>1. q = p /\ e.fat = d.fat
      <4>1. CASE k - 1 = 0
        BY <4>1 DEF SomeWritten
      <4>2. CASE k - 1 > 0
        <5>1. o + (k - 1) - 1 \in Nat /\ o + (k - 1) - 1 <= y
          BY <1>1, <4>2
        <5>2. Within(p[h], o + (k - 1) - 1)
          BY <1>1, <1>3, <2>5, <5>1, WithinBefore
        <5>3. Within(q[h], o + (k - 1) - 1)
          BY <1>2, <1>3, <5>1, <5>2, WithinLengthened
        <5>. QED BY <4>2, <5>2, <5>3 DEF SomeWritten
      <4>. QED BY <1>1, <4>1, <4>2
    <3>. QED BY <1>10, <2>5, <3>1 DEF OneWritten
  <2>. QED BY <1>1, <1>2, <1>4, <1>10, <2>3, <2>4, <2>5 DEF SomeWritten
<1>11. CASE ~ Within(r[h], y)
  <2>1. ~ w.ok /\ w.cell = e.cell /\ Free(w.fat) = {}
    BY <1>11 DEF OneWritten
  <2>2. Written(d.cell, w.cell, r[h], o, values, k)
    <3>1. ASSUME NEW x \in Nat, Within(r[h], x)
          PROVE  Stored(w.cell, r[h], x) =
                     IF o <= x /\ x < o + k THEN values[x - o + 1] ELSE Stored(d.cell, r[h], x)
      <4>1. x # y
        BY <1>11, <3>1
      <4>2. o <= x /\ x < o + k <=> o <= x /\ x < o + (k - 1)
        BY <4>1
      <4>. QED BY <1>8, <2>1, <3>1, <4>2
    <3>. QED BY <1>5, <1>9, <2>1, <3>1 DEF Written
  <2>. QED BY <1>1, <1>2, <1>4, <1>11, <2>1, <2>2 DEF SomeWritten
<1>. QED BY <1>10, <1>11

LEMMA WriteDataWrites ==
    ASSUME NEW d \in Disks, NEW p, Laid(d.fat, p), NEW h \in DOMAIN p, NEW o \in Nat,
           NEW values \in Seq(Nat)
    PROVE  /\ WriteData(d, h, o, values) \in Disks
           /\ \E q : SomeWritten(d, p, h, o, values, Len(values), WriteData(d, h, o, values), q)
<1> DEFINE n == Len(values)
           Step(a) == [k \in 0..n |->
                          IF k = 0 THEN d ELSE Write8(a[k - 1], h, o + k - 1, values[k])]
           after == CHOOSE a : a = Step(a)
           Good(k, e) == e \in Disks /\ \E q : SomeWritten(d, p, h, o, values, k, e, q)
           F == [k \in 1..n |-> [e \in Disks |->
                    IF \E r : Laid(e.fat, r) /\ h \in DOMAIN r
                    THEN Write8(e, h, o + k - 1, values[k]) ELSE e]]
<1>1. n \in Nat /\ \A k \in 1..n : o + k - 1 \in Nat /\ values[k] \in Nat
  OBVIOUS
<1>2. Good(0, d)
  <2>1. Written(d.cell, d.cell, p[h], o, values, 0)
    <3>1. d.cell \in Memories
      BY DEF Disks
    <3>2. \A x \in Nat : ~ (o <= x /\ x < o + 0)
      OBVIOUS
    <3>. QED BY <3>1, <3>2 DEF Written
  <2>2. Lengthened(p, p, h)
    BY PathFits, NotLengthened
  <2>. QED BY <2>1, <2>2 DEF SomeWritten
<1>3. ASSUME NEW k \in 1..n, NEW e, Good(k - 1, e)
      PROVE  Good(k, Write8(e, h, o + k - 1, values[k]))
  <2> DEFINE w == Write8(e, h, o + k - 1, values[k])
  <2>1. e \in Disks /\ o + k - 1 \in Nat /\ values[k] \in Nat
    BY <1>1, <1>3
  <2>2. PICK q : SomeWritten(d, p, h, o, values, k - 1, e, q)
    BY <1>3
  <2>3. Laid(e.fat, q) /\ h \in DOMAIN q
    BY <2>2 DEF SomeWritten, Lengthened
  <2>4. w \in Disks /\ \E r : OneWritten(e, q, h, o + k - 1, values[k], w, r)
    BY <2>1, <2>3, OneIsWritten
  <2> HIDE DEF w
  <2>5. PICK r : OneWritten(e, q, h, o + k - 1, values[k], w, r)
    BY <2>4
  <2>6. SomeWritten(d, p, h, o, values, k, w, r)
    BY <2>1, <2>2, <2>4, <2>5, OneMoreWritten
  <2>7. Good(k, w)
    BY <2>4, <2>6
  <2>. QED BY <2>7 DEF w
<1>4. F \in [1..n -> [Disks -> Disks]]
  <2>1. ASSUME NEW k \in 1..n, NEW e \in Disks, NEW r, Laid(e.fat, r), h \in DOMAIN r
        PROVE  Write8(e, h, o + k - 1, values[k]) \in Disks
    BY <1>1, <2>1, OneIsWritten
  <2>. QED BY <2>1
<1>5. PICK g \in [0..n -> Disks] : Recurs(g, d, n, F)
  <2>1. n \in Nat
    BY <1>1
  <2> HIDE DEF F, n
  <2>. QED BY <1>4, <2>1, RecursionExists
<1>6. g[0] = d
  BY <1>5 DEF Recurs
<1>7. ASSUME NEW k \in 1..n, Good(k - 1, g[k - 1])
      PROVE  g[k] = Write8(g[k - 1], h, o + k - 1, values[k])
  <2>1. g[k] = F[k][g[k - 1]]
    BY <1>5 DEF Recurs
  <2>2. g[k - 1] \in Disks
    BY <1>7
  <2>3. \E r : Laid(g[k - 1].fat, r) /\ h \in DOMAIN r
    BY <1>7 DEF SomeWritten, Lengthened
  <2>. QED BY <2>1, <2>2, <2>3
<1>8. \A k \in 0..n : Good(k, g[k])
  <2> DEFINE Q == {k \in Nat : k <= n => Good(k, g[k])}
  <2>1. 0 \in Q
    BY <1>2, <1>6
  <2>2. ASSUME NEW k \in 1..n, k - 1 \in Q PROVE k \in Q
    <3>1. Good(k - 1, g[k - 1])
      BY <1>1, <2>2
    <3> HIDE DEF Good
    <3>2. Good(k, g[k])
      BY <1>3, <1>7, <3>1
    <3>. QED BY <3>2
  <2>3. \A k \in 0..n : k \in Q
    <3>1. n \in Nat
      BY <1>1
    <3> HIDE DEF Q, n
    <3>. QED BY <2>1, <2>2, <3>1, RangeInduction
  <2> HIDE DEF Good
  <2>. QED BY <1>1, <2>3
<1>9. g = Step(g)
  <2>1. ASSUME NEW k \in 0..n
        PROVE  g[k] = IF k = 0 THEN d ELSE Write8(g[k - 1], h, o + k - 1, values[k])
    <3>1. CASE k = 0
      BY <1>6, <3>1
    <3>2. CASE k # 0
      <4>1. k \in 1..n /\ k - 1 \in 0..n
        BY <1>1, <3>2
      <4> HIDE DEF Good
      <4>2. Good(k - 1, g[k - 1])
        BY <1>8, <4>1
      <4>. QED BY <1>7, <3>2, <4>1, <4>2
    <3>. QED BY <3>1, <3>2
  <2>. QED BY <2>1
<1>10. after = Step(after)
  <2> HIDE DEF Step
  <2>. QED BY <1>9
<1>11. WriteData(d, h, o, values) = after[n]
  BY DEF WriteData
<1>12. StepAlike(after, g, n)
  <2> HIDE DEF after
  <2>1. after[0] = g[0]
    <3>1. 0 \in 0..n
      BY <1>1
    <3>. QED BY <1>6, <1>10, <3>1
  <2>2. ASSUME NEW k \in 1..n, after[k - 1] = g[k - 1] PROVE after[k] = g[k]
    <3>1. k \in 0..n /\ k # 0 /\ k - 1 \in 0..n
      BY <1>1
    <3>2. after[k] = Write8(after[k - 1], h, o + k - 1, values[k])
      BY <1>10, <3>1
    <3> HIDE DEF Good
    <3>3. Good(k - 1, g[k - 1])
      BY <1>8, <3>1
    <3>. QED BY <1>7, <2>2, <3>2, <3>3
  <2>. QED BY <2>1, <2>2 DEF StepAlike
<1>13. after[n] = g[n]
  <2>1. n \in Nat /\ n \in 0..n
    BY <1>1
  <2> HIDE DEF after, n
  <2>. QED BY <1>12, <2>1, SameRecursion
<1>14. Good(n, g[n])
  <2>1. n \in 0..n
    BY <1>1
  <2> HIDE DEF Good, n
  <2>. QED BY <1>8, <2>1
<1> HIDE DEF after
<1>. QED BY <1>11, <1>13, <1>14

-----------------------------------------------------------------------------
(* The directory, and the invariant. *)

\* What the directory whose path is s says of entry i.
NameIn(m, s, i) == Stored(m, s, EntryOffset(i))
SizeIn(m, s, i) == Stored(m, s, EntryOffset(i) + 1)
HeadIn(m, s, i) == Stored(m, s, EntryOffset(i) + 2)

InTable(s, i) == i \in Nat /\ Within(s, EntryOffset(i) + 2)

\* The files are entries with a name and a chain of their own that they fit.
FilesSound(m, fs, p) ==
    LET s == p[Rootdir]
    IN  /\ \A i \in fs :
              /\ InTable(s, i)
              /\ NameIn(m, s, i) \in Names
              /\ HeadIn(m, s, i) \in Data \cap DOMAIN p
              /\ SizeIn(m, s, i) <= Len(p[HeadIn(m, s, i)]) * ClusterSize
        /\ \A i, j \in fs : HeadIn(m, s, i) = HeadIn(m, s, j) => i = j

\* Every chain is the directory's or that of a file.
ChainsOwned(m, fs, p) ==
    \A h \in DOMAIN p : h = Rootdir \/ \E i \in fs : HeadIn(m, p[Rootdir], i) = h

\* Entries that are no files bear no name that anybody asks for: what a new
\* cluster of the directory brings along is data.
OthersNameless(m, fs, p) ==
    \A i \in Nat : InTable(p[Rootdir], i) /\ i \notin fs => NameIn(m, p[Rootdir], i) \notin Names

OffPath(s, c) == \A k \in 1..Len(s) : s[k] # c

DataNameless(m, p) ==
    \A c \in Data : OffPath(p[Rootdir], c) => \A o \in Offsets : m[c][o] \notin Names

Sound(f, m, fs, p) ==
    /\ Laid(f, p)
    /\ m \in Memories
    /\ FilesSound(m, fs, p)
    /\ ChainsOwned(m, fs, p)
    /\ OthersNameless(m, fs, p)
    /\ DataNameless(m, p)

\* The inductive invariant: chains and directory fit together.
TinyFSInv == \E p : Sound(fat, cell, files, p)

LEMMA EntryOffsets ==
    ASSUME NEW i \in Nat
    PROVE  /\ EntryOffset(i) \in Nat /\ EntryOffset(i) + 1 \in Nat /\ EntryOffset(i) + 2 \in Nat
           /\ EntryOffset(i) = 3 * i
  BY DEF EntryOffset, EntrySize

LEMMA InTableWithin ==
    ASSUME NEW s, Len(s) \in Nat, NEW i, InTable(s, i)
    PROVE  /\ i \in Nat
           /\ Within(s, EntryOffset(i)) /\ Within(s, EntryOffset(i) + 1)
           /\ Within(s, EntryOffset(i) + 2)
<1>1. i \in Nat /\ Within(s, EntryOffset(i) + 2)
  BY DEF InTable
<1>2. /\ EntryOffset(i) \in Nat /\ EntryOffset(i) + 1 \in Nat /\ EntryOffset(i) + 2 \in Nat
      /\ EntryOffset(i) <= EntryOffset(i) + 2 /\ EntryOffset(i) + 1 <= EntryOffset(i) + 2
  <2>1. EntryOffset(i) \in Nat
    BY <1>1, EntryOffsets
  <2>. QED BY <2>1
<1>. QED BY <1>1, <1>2, WithinBefore

\* The table has the entries that lie in the directory's chain as a whole.
LEMMA IndexesInTable ==
    ASSUME NEW d, NEW p, Laid(d.fat, p)
    PROVE  /\ \A i : i \in Indexes(d) <=> InTable(p[Rootdir], i)
           /\ TableSize(d) \in Nat
<1> DEFINE n == Len(p[Rootdir])
           T == TableSize(d)
<1>1. Rootdir \in DOMAIN p /\ n \in Nat /\ ClusterSize \in Nat /\ ClusterSize >= 1
  <2>1. Rootdir \in DOMAIN p
    BY DEF Laid
  <2>. QED BY <2>1, PathFits, Sizes
<1>2. T = (n * ClusterSize) \div 3
  BY <1>1, ChainOnPath DEF TableSize, EntrySize
<1>3. n * ClusterSize \in Nat
  BY <1>1
<1>4. T \in Nat /\ \A i \in Nat : i < T <=> 3 * i + 2 < n * ClusterSize
  <2> DEFINE N == n * ClusterSize
  <2> HIDE DEF N, T
  <2>. QED BY <1>2, <1>3 DEF N
<1>5. ASSUME NEW i \in Nat PROVE i < T <=> Within(p[Rootdir], EntryOffset(i) + 2)
  <2>1. EntryOffset(i) + 2 = 3 * i + 2 /\ 3 * i + 2 \in Nat
    BY EntryOffsets
  <2>2. (3 * i + 2) \div ClusterSize < n <=> 3 * i + 2 < n * ClusterSize
    BY <1>1, <2>1, Below
  <2>. QED BY <1>4, <2>1, <2>2 DEF Within
<1>6. 0..(T - 1) \subseteq Nat /\ \A i \in Nat : i \in 0..(T - 1) <=> i < T
  <2>1. T \in Nat
    BY <1>4
  <2> HIDE DEF T
  <2>. QED BY <2>1
<1>. QED BY <1>4, <1>5, <1>6 DEF Indexes, InTable

LEMMA StoredIsNat ==
    ASSUME NEW f, NEW p, Laid(f, p), NEW h \in DOMAIN p, NEW m \in Memories,
           NEW o \in Nat, Within(p[h], o)
    PROVE  Stored(m, p[h], o) \in Nat
<1>1. p[h][(o \div ClusterSize) + 1] \in Clusters /\ o % ClusterSize \in Offsets
  BY WithinPath, Sizes
<1>. QED BY <1>1 DEF Stored, Memories

\* An entry of the table reads as what the directory's chain holds.
LEMMA EntryReads ==
    ASSUME NEW d, NEW p, Laid(d.fat, p), d.cell \in Memories, NEW i, InTable(p[Rootdir], i)
    PROVE  /\ EntryName(d, i) = NameIn(d.cell, p[Rootdir], i)
           /\ Entry(d, i).name = NameIn(d.cell, p[Rootdir], i)
           /\ Entry(d, i).size = SizeIn(d.cell, p[Rootdir], i)
           /\ Entry(d, i).cluster = HeadIn(d.cell, p[Rootdir], i)
           /\ NameIn(d.cell, p[Rootdir], i) \in Nat
           /\ SizeIn(d.cell, p[Rootdir], i) \in Nat
           /\ HeadIn(d.cell, p[Rootdir], i) \in Nat
<1> DEFINE s == p[Rootdir]
           o == EntryOffset(i)
<1>1. Rootdir \in DOMAIN p
  BY DEF Laid
<1>2. i \in Nat /\ Within(s, o) /\ Within(s, o + 1) /\ Within(s, o + 2)
  BY <1>1, PathFits, InTableWithin
<1>3. o \in Nat /\ o + 1 \in Nat /\ o + 2 \in Nat
  BY <1>2, EntryOffsets
<1>4. ASSUME NEW x \in Nat, Within(s, x)
      PROVE  Read8(d, Rootdir, x) = Stored(d.cell, s, x) /\ Stored(d.cell, s, x) \in Nat
  BY <1>1, <1>4, ReadInChain, StoredIsNat
<1> HIDE DEF s, o
<1>5. /\ EntryName(d, i) = Stored(d.cell, s, o) /\ Stored(d.cell, s, o) \in Nat
      /\ Stored(d.cell, s, o + 1) \in Nat /\ Stored(d.cell, s, o + 2) \in Nat
      /\ Entry(d, i).name = Stored(d.cell, s, o)
      /\ Entry(d, i).size = Stored(d.cell, s, o + 1)
      /\ Entry(d, i).cluster = Stored(d.cell, s, o + 2)
  BY <1>2, <1>3, <1>4 DEF EntryName, Entry, o
<1>. QED BY <1>5 DEF NameIn, SizeIn, HeadIn, s, o

\* The entries that are found for a name are files.
LEMMA MatchesAreFiles ==
    ASSUME NEW d, NEW fs, NEW p, Sound(d.fat, d.cell, fs, p), NEW n \in Names
    PROVE  /\ Matches(d, n) = {i \in fs : NameIn(d.cell, p[Rootdir], i) = n}
           /\ fs \subseteq Used(d)
           /\ \A i \in fs : EntryName(d, i) = NameIn(d.cell, p[Rootdir], i)
<1>1. Laid(d.fat, p) /\ d.cell \in Memories
  BY DEF Sound
<1>2. \A i \in fs : InTable(p[Rootdir], i) /\ NameIn(d.cell, p[Rootdir], i) \in Names
  BY DEF Sound, FilesSound
<1>3. \A i \in fs : i \in Indexes(d) /\ EntryName(d, i) = NameIn(d.cell, p[Rootdir], i)
  BY <1>1, <1>2, IndexesInTable, EntryReads
<1>4. 0 \notin Names
  BY TinyFSAssumption
<1>5. fs \subseteq Used(d)
  BY <1>2, <1>3, <1>4 DEF Used
<1>6. ASSUME NEW i \in Matches(d, n) PROVE i \in fs
  <2>1. i \in Indexes(d) /\ EntryName(d, i) = n
    BY DEF Matches, Used
  <2>2. InTable(p[Rootdir], i) /\ i \in Nat
    BY <1>1, <2>1, IndexesInTable DEF InTable
  <2>3. NameIn(d.cell, p[Rootdir], i) = n
    BY <1>1, <2>1, <2>2, EntryReads
  <2>. QED BY <2>2, <2>3 DEF Sound, OthersNameless
<1>7. Matches(d, n) = {i \in fs : NameIn(d.cell, p[Rootdir], i) = n}
  BY <1>3, <1>5, <1>6 DEF Matches
<1>. QED BY <1>3, <1>5, <1>7

\* What the table of files shows: names and contents.
BytesOf(m, s, n) == [k \in 1..n |-> Stored(m, s, k - 1)]
ContentAt(m, p, i) == BytesOf(m, p[HeadIn(m, p[Rootdir], i)], SizeIn(m, p[Rootdir], i))

NamesOf(m, fs, p)    == [i \in fs |-> NameIn(m, p[Rootdir], i)]
ContentsOf(m, fs, p) == [i \in fs |-> ContentAt(m, p, i)]

SameEntry(m, s, w, r, i) ==
    /\ NameIn(w, r, i) = NameIn(m, s, i)
    /\ SizeIn(w, r, i) = SizeIn(m, s, i)
    /\ HeadIn(w, r, i) = HeadIn(m, s, i)

LEMMA RootPath ==
    ASSUME NEW f, NEW p, Laid(f, p)
    PROVE  /\ Rootdir \in DOMAIN p
           /\ Len(p[Rootdir]) \in Nat
           /\ \A h \in DOMAIN p : Len(p[h]) \in Nat
  BY PathFits DEF Laid

LEMMA SizeWithin ==
    ASSUME NEW s, Len(s) \in Nat, NEW n \in Nat, n <= Len(s) * ClusterSize, NEW k \in 1..n
    PROVE  k - 1 \in Nat /\ Within(s, k - 1)
<1>1. k - 1 \in Nat /\ k - 1 < n /\ ClusterSize \in Nat
  BY Sizes
<1> DEFINE N == Len(s) * ClusterSize
<1>2. N \in Nat
  BY <1>1
<1>3. k - 1 < N
  <2> HIDE DEF N
  <2>1. n <= N
    BY DEF N
  <2>. QED BY <1>1, <1>2, <2>1
<1>. QED BY <1>1, <1>3, Below DEF Within

\* A write into one chain leaves the others as they are.
LEMMA OtherChainKept ==
    ASSUME NEW f, NEW p, Laid(f, p), NEW g \in DOMAIN p, NEW h \in DOMAIN p, g # h,
           NEW m, NEW w, \A c \in Clusters : OffPath(p[h], c) => w[c] = m[c],
           NEW x \in Nat, Within(p[g], x)
    PROVE  Stored(w, p[g], x) = Stored(m, p[g], x)
<1> DEFINE i == (x \div ClusterSize) + 1
<1>1. i \in 1..Len(p[g]) /\ p[g][i] \in Clusters
  BY WithinPath, Sizes
<1>2. OffPath(p[h], p[g][i])
  <2> HIDE DEF i
  <2>. QED BY <1>1 DEF Laid, NothingShared, OffPath
<1>. QED BY <1>1, <1>2 DEF Stored

\* A name or a size is written into an entry, and nothing else changes.
EntryWritten(m, p, i, o, v, w) ==
    LET s == p[Rootdir]
    IN  /\ w \in Memories
        /\ DataNameless(w, p)
        /\ \A j : InTable(s, j) /\ j # i => SameEntry(m, s, w, s, j)
        /\ HeadIn(w, s, i) = HeadIn(m, s, i)
        /\ o = EntryOffset(i) => NameIn(w, s, i) = v /\ SizeIn(w, s, i) = SizeIn(m, s, i)
        /\ o = EntryOffset(i) + 1 => SizeIn(w, s, i) = v /\ NameIn(w, s, i) = NameIn(m, s, i)
        /\ \A g \in DOMAIN p \ {Rootdir} : \A x \in Nat :
               Within(p[g], x) => Stored(w, p[g], x) = Stored(m, p[g], x)

LEMMA EntryWrite ==
    ASSUME NEW f, NEW m, NEW fs, NEW p, Sound(f, m, fs, p),
           NEW i \in fs, NEW o \in {EntryOffset(i), EntryOffset(i) + 1}, NEW v \in Nat,
           NEW w, w = Placed(m, p[Rootdir], o, v)
    PROVE  EntryWritten(m, p, i, o, v, w)
<1> DEFINE s == p[Rootdir]
<1>1. Laid(f, p) /\ Rootdir \in DOMAIN p /\ Len(s) \in Nat /\ m \in Memories /\ InTable(s, i)
  BY RootPath DEF Sound, FilesSound
<1>2. /\ i \in Nat
      /\ Within(s, EntryOffset(i)) /\ Within(s, EntryOffset(i) + 1) /\ Within(s, EntryOffset(i) + 2)
  BY <1>1, InTableWithin
<1>3. EntryOffset(i) \in Nat /\ EntryOffset(i) = 3 * i /\ o \in Nat /\ Within(s, o)
  BY <1>2, EntryOffsets
<1>4. OnlyPlaced(m, w, s, o, v)
  BY <1>1, <1>3, PlacedInPath
<1> HIDE DEF s
<1>5. w \in Memories
  BY <1>4 DEF OnlyPlaced
<1>6. \A x \in Nat : Within(s, x) => Stored(w, s, x) = IF x = o THEN v ELSE Stored(m, s, x)
  BY <1>4 DEF OnlyPlaced
<1>7. \A c \in Clusters : OffPath(s, c) => w[c] = m[c]
  BY <1>4 DEF OnlyPlaced, OffPath
<1>8. ASSUME NEW j, InTable(s, j), j # i PROVE SameEntry(m, s, w, s, j)
  <2>1. /\ j \in Nat
        /\ Within(s, EntryOffset(j)) /\ Within(s, EntryOffset(j) + 1) /\ Within(s, EntryOffset(j) + 2)
    BY <1>1, <1>8, InTableWithin
  <2>2. EntryOffset(j) = 3 * j
    BY <2>1, EntryOffsets
  <2>3. \A x \in {3 * j, 3 * j + 1, 3 * j + 2} : x \in Nat /\ x # o
    BY <1>2, <1>3, <1>8, <2>1
  <2>. QED BY <1>6, <2>1, <2>2, <2>3 DEF SameEntry, NameIn, SizeIn, HeadIn
<1>9. HeadIn(w, s, i) = HeadIn(m, s, i)
  <2>1. EntryOffset(i) + 2 \in Nat /\ EntryOffset(i) + 2 # o
    BY <1>3
  <2>. QED BY <1>2, <1>6, <2>1 DEF HeadIn
<1>10. ASSUME o = EntryOffset(i)
       PROVE  NameIn(w, s, i) = v /\ SizeIn(w, s, i) = SizeIn(m, s, i)
  <2>1. EntryOffset(i) + 1 \in Nat /\ EntryOffset(i) + 1 # o
    BY <1>3, <1>10
  <2>. QED BY <1>2, <1>3, <1>6, <1>10, <2>1 DEF NameIn, SizeIn
<1>11. ASSUME o = EntryOffset(i) + 1
       PROVE  SizeIn(w, s, i) = v /\ NameIn(w, s, i) = NameIn(m, s, i)
  <2>1. EntryOffset(i) # o /\ EntryOffset(i) + 1 \in Nat
    BY <1>3, <1>11
  <2>. QED BY <1>2, <1>3, <1>6, <1>11, <2>1 DEF NameIn, SizeIn
<1>12. DataNameless(w, p)
  <2> SUFFICES ASSUME NEW c \in Data, OffPath(s, c), NEW x \in Offsets PROVE w[c][x] \notin Names
    BY DEF DataNameless, s
  <2>1. w[c] = m[c]
    BY <1>7, Sizes
  <2>. QED BY <2>1 DEF Sound, DataNameless, s
<1>13. ASSUME NEW g \in DOMAIN p \ {Rootdir}, NEW x \in Nat, Within(p[g], x)
       PROVE  Stored(w, p[g], x) = Stored(m, p[g], x)
  BY <1>1, <1>7, <1>13, OtherChainKept DEF s
<1>. QED BY <1>5, <1>8, <1>9, <1>10, <1>11, <1>12, <1>13 DEF s, EntryWritten

\* A file whose entry and whose chain are left alone has the content it had.
LEMMA ContentKept ==
    ASSUME NEW f, NEW m, NEW fs, NEW p, Sound(f, m, fs, p), NEW i \in fs,
           NEW w, NEW q, SameEntry(m, p[Rootdir], w, q[Rootdir], i),
           LET h == HeadIn(m, p[Rootdir], i)
           IN  \A x \in Nat : Within(p[h], x) /\ x < SizeIn(m, p[Rootdir], i) =>
                   Stored(w, q[h], x) = Stored(m, p[h], x)
    PROVE  ContentAt(w, q, i) = ContentAt(m, p, i)
<1> DEFINE h == HeadIn(m, p[Rootdir], i)
           n == SizeIn(m, p[Rootdir], i)
<1>1. /\ InTable(p[Rootdir], i) /\ h \in DOMAIN p /\ n <= Len(p[h]) * ClusterSize
      /\ Laid(f, p) /\ m \in Memories
  BY DEF Sound, FilesSound
<1>2. n \in Nat /\ Len(p[h]) \in Nat
  <2>1. Rootdir \in DOMAIN p /\ Len(p[Rootdir]) \in Nat
    BY <1>1, RootPath
  <2>2. EntryOffset(i) + 1 \in Nat /\ Within(p[Rootdir], EntryOffset(i) + 1)
    BY <1>1, <2>1, InTableWithin, EntryOffsets
  <2>3. n \in Nat
    BY <1>1, <2>1, <2>2, StoredIsNat DEF SizeIn
  <2>. QED BY <1>1, <2>3, RootPath
<1>3. \A x \in Nat : Within(p[h], x) /\ x < n => Stored(w, q[h], x) = Stored(m, p[h], x)
  OBVIOUS
<1>4. /\ ContentAt(m, p, i) = BytesOf(m, p[h], n)
      /\ ContentAt(w, q, i) = BytesOf(w, q[h], n)
  BY DEF ContentAt, SameEntry
<1> HIDE DEF h, n
<1>5. ASSUME NEW k \in 1..n PROVE Stored(w, q[h], k - 1) = Stored(m, p[h], k - 1)
  <2>1. k - 1 \in Nat /\ k - 1 < n /\ Within(p[h], k - 1)
    BY <1>1, <1>2, SizeWithin
  <2>. QED BY <1>3, <2>1
<1>. QED BY <1>4, <1>5 DEF BytesOf

-----------------------------------------------------------------------------
(* The calls. *)

LEMMA DiskNow ==
    ASSUME fat \in Fats, cell \in Memories
    PROVE  Disk \in Disks /\ Disk.fat = fat /\ Disk.cell = cell /\ Disk.ok = TRUE
  BY DEF Disk, Disks

LEMMA InitSound == Init => TinyFSInv
<1> SUFFICES ASSUME Init PROVE TinyFSInv
  OBVIOUS
<1> DEFINE p == [h \in {Rootdir} |-> <<Rootdir>>]
<1>1. DOMAIN p = {Rootdir} /\ p[Rootdir] = <<Rootdir>>
  OBVIOUS
<1>2. /\ p[Rootdir] \in Seq(Linkable) /\ Len(p[Rootdir]) = 1 /\ p[Rootdir][1] = Rootdir
      /\ \A k \in 1..Len(p[Rootdir]) : k = 1
  <2>1. Rootdir \in Linkable
    BY Sizes
  <2>. QED BY <1>1, <2>1
<1> HIDE DEF p
<1>3. fat \in Fats
  BY Sizes DEF Init, Fats
<1>4. fat[Rootdir] = EndOfChain /\ \A c \in Data : fat[c] = 0
  <2>1. Rootdir \in Clusters /\ \A c \in Data : c \in Clusters /\ ~ (c <= Rootdir)
    BY Sizes DEF Data, Rootdir, Clusters
  <2>2. Rootdir <= Rootdir
    BY DEF Rootdir
  <2>. QED BY <2>1, <2>2 DEF Init
<1>5. PathFrom(fat, Rootdir, p[Rootdir])
  BY <1>2, <1>4 DEF PathFrom
<1>6. NothingShared(p)
  BY <1>1, <1>2 DEF NothingShared
<1>7. ASSUME NEW c \in Data PROVE fat[c] # 0 <=> OnPath(p, c)
  <2>1. c # Rootdir
    BY Sizes
  <2>. QED BY <1>1, <1>2, <1>4, <2>1 DEF OnPath
<1>8. Laid(fat, p)
  BY <1>1, <1>3, <1>5, <1>6, <1>7 DEF Laid
<1>9. cell \in Memories /\ \A c \in Clusters : \A o \in Offsets : cell[c][o] = 0
  BY DEF Init, Memories, Offsets
<1>10. 0 \notin Names
  BY TinyFSAssumption
<1>11. DataNameless(cell, p)
  BY <1>9, <1>10, Sizes DEF DataNameless
<1>12. OthersNameless(cell, files, p)
  <2> SUFFICES ASSUME NEW i \in Nat, InTable(p[Rootdir], i)
               PROVE  NameIn(cell, p[Rootdir], i) \notin Names
    BY DEF OthersNameless
  <2>1. Rootdir \in DOMAIN p /\ Len(p[Rootdir]) \in Nat
    BY <1>8, RootPath
  <2>2. EntryOffset(i) \in Nat /\ Within(p[Rootdir], EntryOffset(i))
    BY <2>1, InTableWithin, EntryOffsets
  <2>3. /\ p[Rootdir][(EntryOffset(i) \div ClusterSize) + 1] \in Clusters
        /\ EntryOffset(i) % ClusterSize \in Offsets
    BY <1>8, <2>1, <2>2, WithinPath, Sizes
  <2>. QED BY <1>9, <1>10, <2>3 DEF NameIn, Stored
<1>13. FilesSound(cell, files, p) /\ ChainsOwned(cell, files, p)
  BY <1>1 DEF Init, FilesSound, ChainsOwned
<1>14. Sound(fat, cell, files, p)
  BY <1>8, <1>9, <1>11, <1>12, <1>13 DEF Sound
<1>. QED BY <1>14 DEF TinyFSInv

\* The files keep their entries and contents.
FilesKept(m, p, w, q, fs) ==
    \A j \in fs :
        /\ SameEntry(m, p[Rootdir], w, q[Rootdir], j)
        /\ ContentAt(w, q, j) = ContentAt(m, p, j)

\* The first file of that name is gone, the others stay.
Deleted(name, p, q) ==
    \E i \in files :
        /\ NameIn(cell, p[Rootdir], i) = name
        /\ \A j \in files : NameIn(cell, p[Rootdir], j) = name => i <= j
        /\ files' = files \ {i}
        /\ FilesKept(cell, p, cell', q, files \ {i})

LEMMA LowestIsLeast ==
    ASSUME NEW S, S \subseteq Nat, S # {}
    PROVE  Lowest(S) \in S /\ \A j \in S : Lowest(S) <= j
<1>1. S \in SUBSET Nat
  OBVIOUS
<1>2. \E i \in S : \A j \in S : i <= j
  BY <1>1, LeastNatural
<1>. QED BY <1>2 DEF Lowest

\* A file found by its name.
LEMMA LowestMatch ==
    ASSUME NEW p, Sound(fat, cell, files, p), NEW name \in Names, Matches(Disk, name) # {}
    PROVE  LET i == Lowest(Matches(Disk, name))
           IN  /\ i \in files /\ NameIn(cell, p[Rootdir], i) = name
               /\ \A j \in files : NameIn(cell, p[Rootdir], j) = name => i <= j
<1>1. Disk.fat = fat /\ Disk.cell = cell
  BY DiskNow DEF Sound, Laid
<1>2. Matches(Disk, name) = {i \in files : NameIn(cell, p[Rootdir], i) = name}
  BY <1>1, MatchesAreFiles
<1>3. files \subseteq Nat
  BY DEF Sound, FilesSound, InTable
<1>4. /\ Lowest(Matches(Disk, name)) \in Matches(Disk, name)
      /\ \A j \in Matches(Disk, name) : Lowest(Matches(Disk, name)) <= j
  BY <1>2, <1>3, LowestIsLeast
<1>. QED BY <1>2, <1>4

LEMMA DeleteSound ==
    ASSUME NEW p, Sound(fat, cell, files, p), NEW name \in Names, Delete(name)
    PROVE  \E q : Sound(fat', cell', files', q) /\ Deleted(name, p, q)
<1> DEFINE i == Lowest(Matches(Disk, name))
           s == p[Rootdir]
           h == HeadIn(cell, s, i)
           q == [g \in DOMAIN p \ {h} |-> p[g]]
<1>1. /\ i \in files /\ NameIn(cell, s, i) = name
      /\ \A j \in files : NameIn(cell, s, j) = name => i <= j
  BY LowestMatch DEF Delete
<1>2. /\ cell' = Write8(Disk, Rootdir, EntryOffset(i), 0).cell
      /\ fat' = FreedChain(fat, Entry(Disk, i).cluster)
      /\ files' = files \ {i}
  BY DEF Delete
<1> HIDE DEF i
<1>3. /\ Laid(fat, p) /\ Rootdir \in DOMAIN p /\ Len(s) \in Nat
      /\ fat \in Fats /\ cell \in Memories
      /\ InTable(s, i) /\ h \in Data /\ h \in DOMAIN p
  BY <1>1, RootPath DEF Sound, FilesSound, Laid
<1>4. Disk \in Disks /\ Disk.fat = fat /\ Disk.cell = cell
  BY <1>3, DiskNow
<1>5. Entry(Disk, i).cluster = h
  BY <1>3, <1>4, EntryReads
<1>6. i \in Nat /\ EntryOffset(i) \in Nat /\ Within(s, EntryOffset(i))
  BY <1>3, InTableWithin, EntryOffsets
<1>7. cell' = Placed(cell, s, EntryOffset(i), 0)
  <2>1. PICK r : OneWritten(Disk, p, Rootdir, EntryOffset(i), 0,
                            Write8(Disk, Rootdir, EntryOffset(i), 0), r)
    <3>1. 0 \in Nat
      OBVIOUS
    <3>. QED BY <1>3, <1>4, <1>6, <3>1, OneIsWritten
  <2>2. Within(r[Rootdir], EntryOffset(i))
    <3>1. Lengthened(p, r, Rootdir) /\ Len(r[Rootdir]) \in Nat
      BY <1>3, <2>1, PathFits DEF OneWritten, Lengthened
    <3>. QED BY <1>3, <1>6, <3>1, WithinLengthened
  <2>3. r = p
    BY <1>6, <2>1, <2>2 DEF OneWritten
  <2>. QED BY <1>2, <1>4, <2>1, <2>2, <2>3 DEF OneWritten
<1>8. Laid(fat', q)
  <2>1. h # Rootdir
    BY <1>3, Sizes
  <2>. QED BY <1>2, <1>3, <1>5, <2>1, ChainRemoved
<1>9. DOMAIN q = DOMAIN p \ {h} /\ q[Rootdir] = s /\ \A g \in DOMAIN q : q[g] = p[g]
  <2>1. Rootdir # h
    BY <1>3, Sizes
  <2>. QED BY <1>3, <2>1
<1> HIDE DEF q
<1>10. /\ cell' \in Memories
       /\ DataNameless(cell', p)
       /\ \A j : InTable(s, j) /\ j # i => SameEntry(cell, s, cell', s, j)
       /\ NameIn(cell', s, i) = 0
       /\ \A g \in DOMAIN p \ {Rootdir} : \A x \in Nat :
              Within(p[g], x) => Stored(cell', p[g], x) = Stored(cell, p[g], x)
  <2>1. EntryOffset(i) \in {EntryOffset(i), EntryOffset(i) + 1} /\ 0 \in Nat
    OBVIOUS
  <2>2. EntryWritten(cell, p, i, EntryOffset(i), 0, cell')
    BY <1>1, <1>7, <2>1, EntryWrite
  <2>. QED BY <2>2 DEF EntryWritten
<1>11. ASSUME NEW j \in files \ {i}
       PROVE  /\ InTable(s, j) /\ SameEntry(cell, s, cell', s, j)
              /\ HeadIn(cell, s, j) \in DOMAIN q /\ HeadIn(cell, s, j) # Rootdir
  <2>1. InTable(s, j) /\ HeadIn(cell, s, j) \in DOMAIN p \cap Data /\ HeadIn(cell, s, j) # h
    BY <1>1 DEF Sound, FilesSound
  <2>. QED BY <1>9, <1>10, <2>1, Sizes
<1>12. FilesSound(cell', files', q)
  <2>1. ASSUME NEW j \in files'
        PROVE  /\ InTable(s, j)
               /\ NameIn(cell', s, j) \in Names
               /\ HeadIn(cell', s, j) \in Data \cap DOMAIN q
               /\ SizeIn(cell', s, j) <= Len(q[HeadIn(cell', s, j)]) * ClusterSize
    <3>1. j \in files \ {i}
      BY <1>2
    <3>2. /\ NameIn(cell, s, j) \in Names
          /\ HeadIn(cell, s, j) \in Data
          /\ SizeIn(cell, s, j) <= Len(p[HeadIn(cell, s, j)]) * ClusterSize
      BY <3>1 DEF Sound, FilesSound
    <3>. QED BY <1>9, <1>11, <3>1, <3>2 DEF SameEntry
  <2>2. ASSUME NEW j \in files', NEW k \in files', HeadIn(cell', s, j) = HeadIn(cell', s, k)
        PROVE  j = k
    <3>1. j \in files \ {i} /\ k \in files \ {i}
      BY <1>2
    <3>2. HeadIn(cell, s, j) = HeadIn(cell, s, k)
      BY <1>11, <2>2, <3>1 DEF SameEntry
    <3>. QED BY <3>1, <3>2 DEF Sound, FilesSound
  <2>. QED BY <1>9, <2>1, <2>2 DEF FilesSound
<1>13. ChainsOwned(cell', files', q)
  <2> SUFFICES ASSUME NEW g \in DOMAIN q, g # Rootdir
               PROVE  \E j \in files' : HeadIn(cell', s, j) = g
    BY <1>9 DEF ChainsOwned
  <2>1. PICK j \in files : HeadIn(cell, s, j) = g
    BY <1>9 DEF Sound, ChainsOwned
  <2>2. j \in files \ {i}
    BY <1>9, <2>1
  <2>. QED BY <1>2, <1>11, <2>1, <2>2 DEF SameEntry
<1>14. OthersNameless(cell', files', q)
  <2> SUFFICES ASSUME NEW j \in Nat, InTable(s, j), j \notin files'
               PROVE  NameIn(cell', s, j) \notin Names
    BY <1>9 DEF OthersNameless
  <2>1. CASE j = i
    BY <1>10, <2>1, TinyFSAssumption
  <2>2. CASE j # i
    <3>1. NameIn(cell, s, j) \notin Names
      BY <1>2, <2>2 DEF Sound, OthersNameless
    <3>. QED BY <1>10, <2>2, <3>1 DEF SameEntry
  <2>. QED BY <2>1, <2>2
<1>15. DataNameless(cell', q)
  BY <1>9, <1>10 DEF DataNameless
<1>16. Sound(fat', cell', files', q)
  BY <1>8, <1>10, <1>12, <1>13, <1>14, <1>15 DEF Sound
<1>17. FilesKept(cell, p, cell', q, files \ {i})
  <2> SUFFICES ASSUME NEW j \in files \ {i}
               PROVE  /\ SameEntry(cell, p[Rootdir], cell', q[Rootdir], j)
                      /\ ContentAt(cell', q, j) = ContentAt(cell, p, j)
    BY DEF FilesKept
  <2>1. SameEntry(cell, p[Rootdir], cell', q[Rootdir], j)
    BY <1>9, <1>11
  <2> DEFINE g == HeadIn(cell, p[Rootdir], j)
  <2>2. g \in DOMAIN p \ {Rootdir} /\ q[g] = p[g]
    BY <1>9, <1>11
  <2>3. \A x \in Nat : Within(p[g], x) => Stored(cell', q[g], x) = Stored(cell, p[g], x)
    BY <1>10, <2>2
  <2>4. ContentAt(cell', q, j) = ContentAt(cell, p, j)
    BY <2>1, <2>3, ContentKept
  <2>. QED BY <2>1, <2>4
<1>18. Deleted(name, p, q)
  BY <1>1, <1>2, <1>17 DEF Deleted
<1>. QED BY <1>16, <1>18

\* The index for a new file is that of an unused entry, or the first one behind
\* the table.
LEMMA FreeIndexUnused ==
    ASSUME NEW p, Sound(fat, cell, files, p)
    PROVE  /\ FreeIndex(Disk) \in Nat \ files
           /\ \/ InTable(p[Rootdir], FreeIndex(Disk))
              \/ \A j \in Nat : InTable(p[Rootdir], j) <=> j < FreeIndex(Disk)
<1>1. Laid(fat, p) /\ Disk.fat = fat /\ Disk.cell = cell
  BY DiskNow DEF Sound, Laid
<1>2. (\A i : i \in Indexes(Disk) <=> InTable(p[Rootdir], i)) /\ TableSize(Disk) \in Nat
  BY <1>1, IndexesInTable
<1>3. \A i \in files : InTable(p[Rootdir], i) /\ NameIn(cell, p[Rootdir], i) \in Names
  BY DEF Sound, FilesSound
<1>4. files \subseteq Used(Disk)
  <2>1. \A i \in files : EntryName(Disk, i) = NameIn(cell, p[Rootdir], i)
    BY <1>1, <1>3, EntryReads DEF Sound
  <2>. QED BY <1>2, <1>3, <2>1, TinyFSAssumption DEF Used
<1>5. Indexes(Disk) \subseteq Nat
  BY <1>2 DEF InTable
<1>6. CASE Used(Disk) = Indexes(Disk)
  <2>1. FreeIndex(Disk) = TableSize(Disk)
    BY <1>6 DEF FreeIndex
  <2>2. TableSize(Disk) \notin Indexes(Disk) /\
        \A j \in Nat : j \in Indexes(Disk) <=> j < TableSize(Disk)
    <3> DEFINE T == TableSize(Disk)
    <3>1. T \in Nat /\ Indexes(Disk) = 0..(T - 1)
      BY <1>2 DEF Indexes
    <3> HIDE DEF T
    <3>2. T \notin Indexes(Disk) /\ \A j \in Nat : j \in Indexes(Disk) <=> j < T
      BY <3>1
    <3>. QED BY <3>2 DEF T
  <2>. QED BY <1>2, <1>4, <1>6, <2>1, <2>2
<1>7. CASE Used(Disk) # Indexes(Disk)
  <2> DEFINE S == Indexes(Disk) \ Used(Disk)
  <2>1. S \subseteq Nat /\ S # {}
    BY <1>5, <1>7 DEF Used
  <2>2. FreeIndex(Disk) = Lowest(S)
    BY <1>7 DEF FreeIndex
  <2> HIDE DEF S
  <2>3. FreeIndex(Disk) \in S
    BY <2>1, <2>2, LowestIsLeast
  <2>. QED BY <1>2, <1>4, <1>5, <2>3 DEF S
<1>. QED BY <1>6, <1>7

\* The directory after an entry was set on the disk d, with the cluster c taken
\* for the file: only that entry changed, or it is none yet, as the disk was full.
EntryIsSet(m, p, i, name, c, d, q) ==
    LET s == p[Rootdir]
        r == q[Rootdir]
    IN  /\ Laid(d.fat, q) /\ d \in Disks
        /\ DOMAIN q = DOMAIN p \cup {c}
        /\ q[c] = <<c>>
        /\ \A g \in DOMAIN p \ {Rootdir} : q[g] = p[g]
        /\ \A j : InTable(s, j) /\ j # i => InTable(r, j) /\ SameEntry(m, s, d.cell, r, j)
        /\ IF InTable(r, i)
           THEN d.ok /\ NameIn(d.cell, r, i) = name /\ SizeIn(d.cell, r, i) = 0
                     /\ HeadIn(d.cell, r, i) = c
           ELSE ~ d.ok
        /\ \A j : InTable(r, j) /\ ~ InTable(s, j) /\ j # i =>
               InTable(r, i) /\ NameIn(d.cell, r, j) \notin Names
        /\ DataNameless(d.cell, q)
        /\ \A g \in DOMAIN p \ {Rootdir} : \A x \in Nat :
               Within(p[g], x) => Stored(d.cell, p[g], x) = Stored(m, p[g], x)

LEMMA SetEntrySets ==
    ASSUME NEW f, NEW m, NEW fs, NEW p, Sound(f, m, fs, p), NEW c \in Free(f),
           NEW i \in Nat \ fs,
           \/ InTable(p[Rootdir], i)
           \/ \A j \in Nat : InTable(p[Rootdir], j) <=> j < i,
           NEW name \in Names,
           NEW e \in Disks, e.fat = [f EXCEPT ![c] = EndOfChain], e.cell = m, e.ok
    PROVE  \E q : EntryIsSet(m, p, i, name, c, SetEntry(e, i, name, 0, c), q)
<1> DEFINE s == p[Rootdir]
           b == [g \in DOMAIN p \cup {c} |-> IF g = c THEN <<c>> ELSE p[g]]
           o == EntryOffset(i)
           values == <<name, 0, c>>
           d == SetEntry(e, i, name, 0, c)
<1>1. Laid(f, p) /\ m \in Memories /\ Rootdir \in DOMAIN p /\ Len(s) \in Nat
  BY RootPath DEF Sound
<1>2. c \in Data /\ c \notin DOMAIN p
  BY <1>1, FreeOffPath
<1>3. /\ DOMAIN b = DOMAIN p \cup {c} /\ b[c] = <<c>>
      /\ \A g \in DOMAIN p : b[g] = p[g]
  BY <1>2
<1> HIDE DEF b
<1>4. Laid(e.fat, b)
  <2>1. c \in Clusters /\ f \in Fats
    BY <1>1, <1>2, Sizes DEF Laid
  <2>2. /\ e.fat \in Fats /\ e.fat[c] = EndOfChain
        /\ \A a \in Clusters \ {c} : e.fat[a] = f[a]
    BY <2>1 DEF Fats
  <2>3. PICK g : g = e.fat
    OBVIOUS
  <2>4. g \in Fats /\ g[c] = EndOfChain /\ \A a \in Clusters \ {c} : g[a] = f[a]
    BY <2>2, <2>3
  <2>5. Laid(g, b)
    BY <1>1, <1>3, <2>4, ChainAdded
  <2>. QED BY <2>3, <2>5
<1>5. Rootdir \in DOMAIN b /\ b[Rootdir] = s /\ Rootdir # c
  BY <1>1, <1>2, <1>3
<1>6. /\ o \in Nat /\ o = 3 * i
      /\ values \in Seq(Nat) /\ Len(values) = 3
      /\ values[1] = name /\ values[2] = 0 /\ values[3] = c
  <2>1. name \in Nat /\ c \in Nat
    BY <1>2, Sizes, TinyFSAssumption
  <2>2. o \in Nat /\ o = 3 * i
    BY EntryOffsets
  <2>. QED BY <2>1, <2>2
<1>7. d = WriteData(e, Rootdir, o, values)
  BY DEF SetEntry
<1> HIDE DEF d, o, values
<1>8. /\ d \in Disks
      /\ \E q : SomeWritten(e, b, Rootdir, o, values, 3, d, q)
  <2>1. /\ WriteData(e, Rootdir, o, values) \in Disks
        /\ \E q : SomeWritten(e, b, Rootdir, o, values, Len(values),
                              WriteData(e, Rootdir, o, values), q)
    BY <1>4, <1>5, <1>6, WriteDataWrites
  <2>. QED BY <1>6, <1>7, <2>1
<1>9. PICK q : SomeWritten(e, b, Rootdir, o, values, 3, d, q)
  BY <1>8
<1> DEFINE r == q[Rootdir]
<1>10. /\ Laid(d.fat, q) /\ Lengthened(b, q, Rootdir)
       /\ Written(m, d.cell, r, o, values, 3)
  BY <1>9 DEF SomeWritten
<1>11. Rootdir \in DOMAIN q /\ Len(r) \in Nat
  BY <1>10, RootPath
<1> HIDE DEF r
<1>12. /\ DOMAIN q = DOMAIN p \cup {c} /\ q[c] = <<c>>
       /\ \A g \in DOMAIN p \ {Rootdir} : q[g] = p[g]
  BY <1>3, <1>5, <1>10 DEF Lengthened
<1>13. /\ Within(r, o + 2) => d.ok
       /\ Within(s, o + 2) => r = s
       /\ ~ Within(r, o + 2) => ~ d.ok
  <2>1. o + 3 - 1 = o + 2 /\ o + 2 \in Nat
    BY <1>6
  <2>2. Within(s, o + 2) => Within(r, o + 2)
    BY <1>1, <1>5, <1>10, <1>11, <2>1, WithinLengthened DEF r
  <2>a. IF Within(r, o + 3 - 1)
        THEN d.ok = e.ok /\ (Within(s, o + 3 - 1) => q = b /\ d.fat = e.fat)
        ELSE ~ d.ok /\ Free(d.fat) = {}
    <3>1. 3 > 0 => IF Within(q[Rootdir], o + 3 - 1)
                   THEN /\ d.ok = e.ok
                        /\ Within(b[Rootdir], o + 3 - 1) => q = b /\ d.fat = e.fat
                   ELSE ~ d.ok /\ Free(d.fat) = {}
      BY <1>9, Zenon DEF SomeWritten
    <3>2. 3 > 0
      OBVIOUS
    <3>. QED BY <1>5, <3>1, <3>2, Zenon DEF r
  <2>3. Within(r, o + 2) => d.ok = e.ok /\ (Within(s, o + 2) => q = b)
    BY <2>1, <2>a
  <2>4. ~ Within(r, o + 2) => ~ d.ok
    BY <2>1, <2>a
  <2>. QED BY <1>5, <2>2, <2>3, <2>4 DEF r
<1>14. \A x \in Nat : Within(s, x) => Within(r, x) /\ Stored(m, r, x) = Stored(m, s, x)
  BY <1>1, <1>5, <1>10, <1>11, WithinLengthened DEF r, Stored
<1>15. \A x \in Nat : Within(r, x) =>
           Stored(d.cell, r, x) = IF o <= x /\ x < o + 3 THEN values[x - o + 1] ELSE Stored(m, r, x)
  BY <1>10 DEF Written
<1>16. \A x \in Nat : Within(s, x) /\ ~ (o <= x /\ x < o + 3) =>
           Stored(d.cell, r, x) = Stored(m, s, x)
  BY <1>14, <1>15
<1>17. ASSUME NEW j, InTable(s, j), j # i
       PROVE  InTable(r, j) /\ SameEntry(m, s, d.cell, r, j)
  <2>1. /\ j \in Nat
        /\ Within(s, EntryOffset(j)) /\ Within(s, EntryOffset(j) + 1) /\ Within(s, EntryOffset(j) + 2)
    BY <1>1, <1>17, InTableWithin
  <2>2. EntryOffset(j) = 3 * j /\ 3 * j \in Nat
    BY <2>1, EntryOffsets
  <2>3. \A x \in {3 * j, 3 * j + 1, 3 * j + 2} : x \in Nat /\ ~ (o <= x /\ x < o + 3)
    BY <1>6, <1>17, <2>1
  <2>4. InTable(r, j)
    BY <1>14, <2>1, <2>2, <2>3 DEF InTable
  <2>. QED BY <1>16, <2>1, <2>2, <2>3, <2>4 DEF SameEntry, NameIn, SizeIn, HeadIn
<1>18. InTable(r, i) <=> Within(r, o + 2)
  BY DEF InTable, o
<1>19. ASSUME InTable(r, i)
       PROVE  NameIn(d.cell, r, i) = name /\ SizeIn(d.cell, r, i) = 0 /\ HeadIn(d.cell, r, i) = c
  <2>1. Within(r, o) /\ Within(r, o + 1) /\ Within(r, o + 2)
    BY <1>11, <1>19, InTableWithin DEF o
  <2>2. /\ o - o + 1 = 1 /\ (o + 1) - o + 1 = 2 /\ (o + 2) - o + 1 = 3
        /\ \A x \in {o, o + 1, o + 2} : x \in Nat /\ o <= x /\ x < o + 3
    BY <1>6
  <2>3. /\ Stored(d.cell, r, o) = values[1]
        /\ Stored(d.cell, r, o + 1) = values[2]
        /\ Stored(d.cell, r, o + 2) = values[3]
    BY <1>15, <2>1, <2>2
  <2>. QED BY <1>6, <2>3 DEF NameIn, SizeIn, HeadIn, o
<1>20. ASSUME NEW j, InTable(r, j), ~ InTable(s, j), j # i
       PROVE  InTable(r, i) /\ NameIn(d.cell, r, j) \notin Names
  <2>1. j \in Nat /\ Within(r, EntryOffset(j)) /\ Within(r, EntryOffset(j) + 2)
    BY <1>11, <1>20, InTableWithin
  <2>2. ~ InTable(s, i)
    BY <1>13, <1>20 DEF InTable, o
  <2>3. j > i
    BY <1>20, <2>1, <2>2 DEF s
  <2> DEFINE x == EntryOffset(j)
  <2>4. x \in Nat /\ x + 2 \in Nat /\ x >= o + 3 /\ o + 2 \in Nat
    <3>1. x = 3 * j
      BY <2>1, EntryOffsets
    <3>. QED BY <1>6, <2>1, <2>3, <3>1
  <2> HIDE DEF x
  <2>5. Within(r, x) /\ Within(r, x + 2)
    BY <2>1 DEF x
  <2>6. InTable(r, i)
    <3>1. o + 2 <= x + 2
      BY <1>6, <2>4
    <3>2. Within(r, o + 2)
      BY <1>11, <2>4, <2>5, <3>1, WithinBefore
    <3>. QED BY <1>18, <3>2
  <2>7. ~ Within(s, x)
    <3>1. o + 2 <= x
      BY <1>6, <2>4
    <3>2. Within(s, x) => Within(s, o + 2)
      BY <1>1, <2>4, <3>1, WithinBefore
    <3>. QED BY <2>2, <3>2 DEF InTable, o
  <2>8. Stored(d.cell, r, x) = Stored(m, r, x)
    <3>1. ~ (x < o + 3)
      BY <1>6, <2>4
    <3>. QED BY <1>15, <2>4, <2>5, <3>1
  <2>9. Stored(m, r, x) \notin Names
    <3> DEFINE k == (x \div ClusterSize) + 1
               a == r[k]
    <3>1. k \in 1..Len(r) /\ k > Len(s) /\ x % ClusterSize \in Offsets
      <4>1. x \div ClusterSize \in Nat /\ x % ClusterSize \in Offsets
        BY <2>4, Division
      <4>. QED BY <1>1, <1>11, <2>5, <2>7, <4>1 DEF Within
    <3> HIDE DEF k
    <3>2. a \in Data /\ ~ OnPath(b, a)
      BY <1>4, <1>5, <1>10, <3>1, NewOnPath DEF r
    <3> HIDE DEF a
    <3>3. OffPath(s, a)
      BY <1>5, <3>2 DEF OnPath, OffPath
    <3>4. m[a][x % ClusterSize] \notin Names
      BY <3>1, <3>2, <3>3 DEF Sound, DataNameless, s
    <3>. QED BY <3>4 DEF Stored, a, k
  <2>. QED BY <2>6, <2>8, <2>9 DEF NameIn, x
<1>21. \A a \in Clusters : OffPath(r, a) => d.cell[a] = m[a]
  BY <1>10 DEF Written, OffPath
<1>22. DataNameless(d.cell, q)
  <2> SUFFICES ASSUME NEW a \in Data, OffPath(r, a), NEW x \in Offsets
               PROVE  d.cell[a][x] \notin Names
    BY DEF DataNameless, r
  <2>1. d.cell[a] = m[a]
    BY <1>21, Sizes
  <2>2. OffPath(s, a)
    <3> SUFFICES ASSUME NEW k \in 1..Len(s) PROVE s[k] # a
      BY DEF OffPath
    <3>1. k \in 1..Len(r) /\ r[k] = s[k]
      BY <1>1, <1>5, <1>10, <1>11 DEF Lengthened, r
    <3>. QED BY <3>1 DEF OffPath
  <2>. QED BY <2>1, <2>2 DEF Sound, DataNameless, s
<1>23. ASSUME NEW g \in DOMAIN p \ {Rootdir}, NEW x \in Nat, Within(p[g], x)
       PROVE  Stored(d.cell, p[g], x) = Stored(m, p[g], x)
  <2>1. g \in DOMAIN q /\ q[g] = p[g] /\ g # Rootdir
    BY <1>12
  <2>. QED BY <1>10, <1>11, <1>21, <1>23, <2>1, OtherChainKept DEF r
<1>24. EntryIsSet(m, p, i, name, c, d, q)
  <2>1. IF InTable(r, i)
        THEN d.ok /\ NameIn(d.cell, r, i) = name /\ SizeIn(d.cell, r, i) = 0
                  /\ HeadIn(d.cell, r, i) = c
        ELSE ~ d.ok
    BY <1>13, <1>18, <1>19
  <2>. QED BY <1>8, <1>10, <1>12, <1>17, <1>20, <1>22, <1>23, <2>1 DEF EntryIsSet, r, s
<1>. QED BY <1>24 DEF d

\* What a new entry leaves alone: the entries, chains and contents of the files.
LEMMA OthersKept ==
    ASSUME NEW f, NEW m, NEW fs, NEW p, Sound(f, m, fs, p), NEW c, NEW i \in Nat \ fs,
           NEW name, NEW d, NEW q, EntryIsSet(m, p, i, name, c, d, q),
           NEW t, \A g \in DOMAIN p : g \in DOMAIN t /\ t[g] = q[g]
    PROVE  /\ FilesKept(m, p, d.cell, t, fs)
           /\ \A j \in fs : LET g == HeadIn(m, p[Rootdir], j)
                            IN  /\ InTable(t[Rootdir], j)
                                /\ NameIn(m, p[Rootdir], j) \in Names
                                /\ g \in Data /\ g \in DOMAIN p /\ t[g] = p[g]
                                /\ SizeIn(m, p[Rootdir], j) <= Len(p[g]) * ClusterSize
<1>1. Rootdir \in DOMAIN p /\ t[Rootdir] = q[Rootdir]
  BY RootPath DEF Sound
<1>2. ASSUME NEW j \in fs, NEW g, g = HeadIn(m, p[Rootdir], j)
      PROVE  /\ InTable(p[Rootdir], j)
             /\ NameIn(m, p[Rootdir], j) \in Names
             /\ g \in Data /\ g \in DOMAIN p /\ g # Rootdir
             /\ SizeIn(m, p[Rootdir], j) <= Len(p[g]) * ClusterSize
  <2>1. g \in Data => g # Rootdir
    BY Sizes
  <2>. QED BY <1>2, <2>1 DEF Sound, FilesSound
<1>3. \A j \in fs : InTable(t[Rootdir], j) /\ SameEntry(m, p[Rootdir], d.cell, t[Rootdir], j)
  <2> SUFFICES ASSUME NEW j \in fs
               PROVE  InTable(t[Rootdir], j) /\ SameEntry(m, p[Rootdir], d.cell, t[Rootdir], j)
    OBVIOUS
  <2>1. InTable(p[Rootdir], j) /\ j # i
    BY <1>2
  <2>. QED BY <1>1, <2>1 DEF EntryIsSet
<1>4. \A g \in DOMAIN p \ {Rootdir} : t[g] = p[g]
  BY DEF EntryIsSet
<1>5. ASSUME NEW j \in fs PROVE ContentAt(d.cell, t, j) = ContentAt(m, p, j)
  <2> DEFINE g == HeadIn(m, p[Rootdir], j)
  <2>1. g \in DOMAIN p \ {Rootdir}
    BY <1>2
  <2>2. \A x \in Nat : Within(p[g], x) => Stored(d.cell, t[g], x) = Stored(m, p[g], x)
    BY <1>4, <2>1 DEF EntryIsSet
  <2>. QED BY <1>3, <2>2, ContentKept
<1>6. FilesKept(m, p, d.cell, t, fs)
  BY <1>3, <1>5 DEF FilesKept
<1>. QED BY <1>2, <1>3, <1>4, <1>6

\* A new, empty file of that name, and nothing else.
Created(name, p, q) ==
    \E i \in Nat \ files :
        /\ files' = files \cup {i}
        /\ NameIn(cell', q[Rootdir], i) = name
        /\ SizeIn(cell', q[Rootdir], i) = 0
        /\ FilesKept(cell, p, cell', q, files)

\* The disk was full, and no caller can tell the difference.
NothingDone(p, q) ==
    /\ files' = files
    /\ FilesKept(cell, p, cell', q, files)

LEMMA EntryMade ==
    ASSUME NEW f, NEW m, NEW fs, NEW p, Sound(f, m, fs, p), NEW c \in Free(f),
           NEW i \in Nat \ fs, NEW name \in Names,
           NEW d, NEW q, EntryIsSet(m, p, i, name, c, d, q), d.ok
    PROVE  Sound(d.fat, d.cell, fs \cup {i}, q)
<1> DEFINE s == p[Rootdir]
           r == q[Rootdir]
           w == d.cell
<1>1. /\ Laid(d.fat, q) /\ d \in Disks
      /\ DOMAIN q = DOMAIN p \cup {c} /\ q[c] = <<c>>
      /\ DataNameless(w, q)
  BY DEF EntryIsSet
<1>2. InTable(r, i) /\ NameIn(w, r, i) = name /\ SizeIn(w, r, i) = 0 /\ HeadIn(w, r, i) = c
  BY DEF EntryIsSet
<1>3. /\ \A j : InTable(s, j) /\ j # i => InTable(r, j) /\ SameEntry(m, s, w, r, j)
      /\ \A j : InTable(r, j) /\ ~ InTable(s, j) /\ j # i => NameIn(w, r, j) \notin Names
  BY DEF EntryIsSet
<1>4. c \in Data /\ c \notin DOMAIN p /\ w \in Memories
  BY <1>1, FreeOffPath DEF Sound, Disks
<1>5. /\ FilesKept(m, p, w, q, fs)
      /\ \A j \in fs : LET g == HeadIn(m, s, j)
                       IN  /\ InTable(r, j)
                           /\ NameIn(m, s, j) \in Names
                           /\ g \in Data /\ g \in DOMAIN p /\ q[g] = p[g]
                           /\ SizeIn(m, s, j) <= Len(p[g]) * ClusterSize
  <2>1. \A g \in DOMAIN p : g \in DOMAIN q /\ q[g] = q[g]
    BY <1>1
  <2>. QED BY <2>1, OthersKept
<1>6. \A j \in fs : SameEntry(m, s, w, r, j)
  BY <1>5 DEF FilesKept
<1> HIDE DEF s, r, w
<1>7. FilesSound(w, fs \cup {i}, q)
  <2>1. ASSUME NEW j \in fs
        PROVE  /\ InTable(r, j)
               /\ NameIn(w, r, j) \in Names
               /\ HeadIn(w, r, j) \in Data \cap DOMAIN q
               /\ HeadIn(w, r, j) # c
               /\ SizeIn(w, r, j) <= Len(q[HeadIn(w, r, j)]) * ClusterSize
    BY <1>1, <1>4, <1>5, <1>6 DEF SameEntry
  <2>2. /\ NameIn(w, r, i) \in Names
        /\ HeadIn(w, r, i) \in Data \cap DOMAIN q
        /\ SizeIn(w, r, i) <= Len(q[HeadIn(w, r, i)]) * ClusterSize
    <3>1. Len(q[c]) = 1 /\ ClusterSize \in Nat
      BY <1>1, Sizes
    <3>2. 0 <= Len(q[c]) * ClusterSize
      BY <3>1
    <3>. QED BY <1>1, <1>2, <1>4, <3>2
  <2>3. ASSUME NEW j \in fs, NEW k \in fs, HeadIn(w, r, j) = HeadIn(w, r, k)
        PROVE  j = k
    <3>1. HeadIn(m, s, j) = HeadIn(m, s, k)
      BY <1>6, <2>3 DEF SameEntry
    <3>. QED BY <3>1 DEF Sound, FilesSound, s
  <2>4. ASSUME NEW j \in fs \cup {i}
        PROVE  /\ InTable(r, j)
               /\ NameIn(w, r, j) \in Names
               /\ HeadIn(w, r, j) \in Data \cap DOMAIN q
               /\ SizeIn(w, r, j) <= Len(q[HeadIn(w, r, j)]) * ClusterSize
    BY <1>2, <2>1, <2>2
  <2>5. ASSUME NEW j \in fs \cup {i}, NEW k \in fs \cup {i}, HeadIn(w, r, j) = HeadIn(w, r, k)
        PROVE  j = k
    BY <1>2, <2>1, <2>3, <2>5
  <2>. QED BY <2>4, <2>5 DEF FilesSound, r
<1>8. ChainsOwned(w, fs \cup {i}, q)
  <2> SUFFICES ASSUME NEW h \in DOMAIN q, h # Rootdir
               PROVE  \E j \in fs \cup {i} : HeadIn(w, r, j) = h
    BY DEF ChainsOwned, r
  <2>1. CASE h = c
    BY <1>2, <2>1
  <2>2. CASE h \in DOMAIN p
    <3>1. PICK j \in fs : HeadIn(m, s, j) = h
      BY <2>2 DEF Sound, ChainsOwned, s
    <3>. QED BY <1>6, <3>1 DEF SameEntry
  <2>. QED BY <1>1, <2>1, <2>2
<1>9. OthersNameless(w, fs \cup {i}, q)
  <2> SUFFICES ASSUME NEW j \in Nat, InTable(r, j), j \notin fs \cup {i}
               PROVE  NameIn(w, r, j) \notin Names
    BY DEF OthersNameless, r
  <2>1. CASE InTable(s, j)
    <3>1. NameIn(m, s, j) \notin Names
      BY <2>1 DEF Sound, OthersNameless, s
    <3>. QED BY <1>3, <2>1, <3>1 DEF SameEntry
  <2>2. CASE ~ InTable(s, j)
    BY <1>3, <2>2
  <2>. QED BY <2>1, <2>2
<1>. QED BY <1>1, <1>4, <1>7, <1>8, <1>9 DEF Sound, w

\* If the directory cannot grow, the cluster for the file is given back.
LEMMA EntryNotMade ==
    ASSUME NEW f, NEW m, NEW fs, NEW p, Sound(f, m, fs, p), NEW c \in Free(f),
           NEW i \in Nat \ fs, NEW name \in Names,
           NEW d, NEW q, EntryIsSet(m, p, i, name, c, d, q), ~ d.ok
    PROVE  \E t : Sound(FreedChain(d.fat, c), d.cell, fs, t) /\ FilesKept(m, p, d.cell, t, fs)
<1> DEFINE s == p[Rootdir]
           w == d.cell
           t == [g \in DOMAIN q \ {c} |-> q[g]]
           r == t[Rootdir]
<1>1. /\ Laid(d.fat, q) /\ d \in Disks
      /\ DOMAIN q = DOMAIN p \cup {c}
      /\ DataNameless(w, q)
  BY DEF EntryIsSet
<1>2. c \in Data /\ c \notin DOMAIN p /\ w \in Memories /\ c # Rootdir /\ Rootdir \in DOMAIN p
  <2>1. c \in Data /\ c \notin DOMAIN p
    BY FreeOffPath DEF Sound
  <2>2. Rootdir \in DOMAIN p
    BY RootPath DEF Sound
  <2>3. w \in Memories
    BY <1>1 DEF Disks
  <2>. QED BY <2>1, <2>2, <2>3
<1>3. DOMAIN t = DOMAIN p /\ \A g \in DOMAIN p : t[g] = q[g]
  BY <1>1, <1>2
<1>4. Laid(FreedChain(d.fat, c), t)
  <2>1. c \in DOMAIN q \ {Rootdir}
    BY <1>1, <1>2
  <2>. QED BY <1>1, <2>1, ChainRemoved
<1> HIDE DEF t
<1>5. r = q[Rootdir]
  BY <1>2, <1>3
<1>6. /\ \A j : InTable(s, j) /\ j # i => InTable(r, j) /\ SameEntry(m, s, w, r, j)
      /\ ~ InTable(r, i)
      /\ \A j : InTable(r, j) => InTable(s, j) /\ j # i
  BY <1>5 DEF EntryIsSet
<1>7. /\ FilesKept(m, p, w, t, fs)
      /\ \A j \in fs : LET g == HeadIn(m, s, j)
                       IN  /\ InTable(r, j)
                           /\ NameIn(m, s, j) \in Names
                           /\ g \in Data /\ g \in DOMAIN p /\ t[g] = p[g]
                           /\ SizeIn(m, s, j) <= Len(p[g]) * ClusterSize
  BY <1>3, OthersKept
<1>8. \A j \in fs : SameEntry(m, s, w, r, j)
  BY <1>7 DEF FilesKept
<1> HIDE DEF s, r, w
<1>9. FilesSound(w, fs, t)
  <2>1. ASSUME NEW j \in fs
        PROVE  /\ InTable(r, j)
               /\ NameIn(w, r, j) \in Names
               /\ HeadIn(w, r, j) \in Data \cap DOMAIN t
               /\ SizeIn(w, r, j) <= Len(t[HeadIn(w, r, j)]) * ClusterSize
    BY <1>3, <1>7, <1>8 DEF SameEntry
  <2>2. ASSUME NEW j \in fs, NEW k \in fs, HeadIn(w, r, j) = HeadIn(w, r, k)
        PROVE  j = k
    <3>1. HeadIn(m, s, j) = HeadIn(m, s, k)
      BY <1>8, <2>2 DEF SameEntry
    <3>. QED BY <3>1 DEF Sound, FilesSound, s
  <2>. QED BY <2>1, <2>2 DEF FilesSound, r
<1>10. ChainsOwned(w, fs, t)
  <2> SUFFICES ASSUME NEW h \in DOMAIN t, h # Rootdir
               PROVE  \E j \in fs : HeadIn(w, r, j) = h
    BY DEF ChainsOwned, r
  <2>1. PICK j \in fs : HeadIn(m, s, j) = h
    BY <1>3 DEF Sound, ChainsOwned, s
  <2>. QED BY <1>8, <2>1 DEF SameEntry
<1>11. OthersNameless(w, fs, t)
  <2> SUFFICES ASSUME NEW j \in Nat, InTable(r, j), j \notin fs
               PROVE  NameIn(w, r, j) \notin Names
    BY DEF OthersNameless, r
  <2>1. InTable(s, j) /\ j # i
    BY <1>6
  <2>2. NameIn(m, s, j) \notin Names
    BY <2>1 DEF Sound, OthersNameless, s
  <2>. QED BY <1>6, <2>1, <2>2 DEF SameEntry
<1>12. DataNameless(w, t)
  BY <1>1, <1>5 DEF DataNameless, r
<1>13. Sound(FreedChain(d.fat, c), w, fs, t)
  BY <1>2, <1>4, <1>9, <1>10, <1>11, <1>12 DEF Sound
<1>. QED BY <1>7, <1>13 DEF w

LEMMA CreateSound ==
    ASSUME NEW p, Sound(fat, cell, files, p), NEW name \in Names, CreateFile(name)
    PROVE  \E q : Sound(fat', cell', files', q) /\ (Created(name, p, q) \/ NothingDone(p, q))
<1> DEFINE i == FreeIndex(Disk)
           c == LowestFree(fat)
           e == [Disk EXCEPT !.fat[c] = EndOfChain]
           d == SetEntry(e, i, name, 0, c)
<1>1. c \in Free(fat)
  BY LowestFreeIsFree DEF CreateFile
<1>2. /\ i \in Nat \ files
      /\ \/ InTable(p[Rootdir], i)
         \/ \A j \in Nat : InTable(p[Rootdir], j) <=> j < i
  BY FreeIndexUnused
<1>3. cell' = d.cell /\ IF d.ok THEN fat' = d.fat /\ files' = files \cup {i}
                                ELSE fat' = FreedChain(d.fat, c) /\ UNCHANGED files
  BY DEF CreateFile
<1>4. /\ e \in Disks /\ e.fat = [fat EXCEPT ![c] = EndOfChain] /\ e.cell = cell /\ e.ok
  <2>1. fat \in Fats /\ cell \in Memories
    BY DEF Sound, Laid
  <2>2. c \in Clusters
    BY <1>1, FreeOffPath DEF Sound
  <2>3. e = [fat |-> [fat EXCEPT ![c] = EndOfChain], cell |-> cell, ok |-> TRUE]
    <3> DEFINE b == TRUE
    <3>1. Disk = [fat |-> fat, cell |-> cell, ok |-> b]
      BY DEF Disk
    <3> HIDE DEF b, c
    <3>2. [[fat |-> fat, cell |-> cell, ok |-> b] EXCEPT !.fat[c] = EndOfChain]
          = [fat |-> [fat EXCEPT ![c] = EndOfChain], cell |-> cell, ok |-> b]
      OBVIOUS
    <3>. QED BY <3>1, <3>2, Zenon DEF b
  <2>4. [fat EXCEPT ![c] = EndOfChain] \in Fats
    BY <2>1, <2>2 DEF Fats
  <2> HIDE DEF e
  <2> DEFINE g == [fat EXCEPT ![c] = EndOfChain]
  <2> HIDE DEF g
  <2>5. e = [fat |-> g, cell |-> cell, ok |-> TRUE] /\ g \in Fats
    BY <2>3, <2>4 DEF g
  <2>6. e \in Disks /\ e.fat = g /\ e.cell = cell /\ e.ok
    BY <2>1, <2>5 DEF Disks
  <2>. QED BY <2>6 DEF g
<1> HIDE DEF e, i, c
<1>5. PICK q : EntryIsSet(cell, p, i, name, c, d, q)
  BY <1>1, <1>2, <1>4, SetEntrySets
<1> HIDE DEF d
<1>6. CASE d.ok
  <2>1. Sound(fat', cell', files', q)
    <3>1. Sound(d.fat, d.cell, files \cup {i}, q)
      BY <1>1, <1>2, <1>5, <1>6, EntryMade
    <3>2. fat' = d.fat /\ cell' = d.cell /\ files' = files \cup {i}
      BY <1>3, <1>6
    <3>. QED BY <3>1, <3>2
  <2>2. NameIn(cell', q[Rootdir], i) = name /\ SizeIn(cell', q[Rootdir], i) = 0
    BY <1>3, <1>5, <1>6 DEF EntryIsSet
  <2>3. FilesKept(cell, p, cell', q, files)
    <3>1. \A g \in DOMAIN p : g \in DOMAIN q /\ q[g] = q[g]
      BY <1>5 DEF EntryIsSet
    <3>. QED BY <1>2, <1>3, <1>5, <3>1, OthersKept
  <2>4. Created(name, p, q)
    BY <1>2, <1>3, <1>6, <2>2, <2>3 DEF Created
  <2>. QED BY <2>1, <2>4
<1>7. CASE ~ d.ok
  <2>1. PICK t : Sound(FreedChain(d.fat, c), d.cell, files, t)
                 /\ FilesKept(cell, p, d.cell, t, files)
    BY <1>1, <1>2, <1>5, <1>7, EntryNotMade
  <2>2. fat' = FreedChain(d.fat, c) /\ cell' = d.cell /\ files' = files
    BY <1>3, <1>7
  <2>. QED BY <2>1, <2>2 DEF NothingDone
<1>. QED BY <1>6, <1>7

-----------------------------------------------------------------------------
(* Writing to a file. *)

LEMMA SizeFits ==
    ASSUME NEW s, Len(s) \in Nat, NEW n \in Nat
    PROVE  n <= Len(s) * ClusterSize <=> n = 0 \/ Within(s, n - 1)
<1> DEFINE N == Len(s) * ClusterSize
<1>1. N \in Nat
  BY Sizes
<1>2. ASSUME n # 0 PROVE Within(s, n - 1) <=> n - 1 < N
  <2>1. n - 1 \in Nat
    BY <1>2
  <2>. QED BY <2>1, Below DEF Within
<1> HIDE DEF N
<1>3. n <= N <=> n = 0 \/ Within(s, n - 1)
  BY <1>1, <1>2
<1>. QED BY <1>3 DEF N

\* The values of the chunk as far as there was room, behind the first n bytes
\* of the chain from h; every other chain is left alone.
ChunkStored(m, p, h, n, chunk, d, q) ==
    /\ Laid(d.fat, q) /\ d \in Disks
    /\ Lengthened(p, q, h)
    /\ DataNameless(d.cell, q)
    /\ \A g \in DOMAIN p \ {h} : \A x \in Nat :
           Within(p[g], x) => Stored(d.cell, p[g], x) = Stored(m, p[g], x)
    /\ \A x \in Nat : Within(p[h], x) /\ x < n => Stored(d.cell, q[h], x) = Stored(m, p[h], x)
    /\ d.ok => \A k \in 1..Len(chunk) : /\ Within(q[h], n + k - 1)
                                        /\ Stored(d.cell, q[h], n + k - 1) = chunk[k]

LEMMA ChunkIsStored ==
    ASSUME NEW fs, NEW p, NEW e \in Disks, Sound(e.fat, e.cell, fs, p),
           NEW h \in DOMAIN p \ {Rootdir}, NEW n \in Nat, NEW chunk \in Chunks
    PROVE  \E q : ChunkStored(e.cell, p, h, n, chunk, WriteData(e, h, n, chunk), q)
<1> DEFINE d == WriteData(e, h, n, chunk)
           m == e.cell
           N == Len(chunk)
<1>1. /\ chunk \in Seq(Nat) /\ N \in Nat
      /\ \A k \in 1..N : chunk[k] \notin Names
  BY TinyFSAssumption
<1>2. Laid(e.fat, p) /\ Rootdir \in DOMAIN p /\ m \in Memories /\ Len(p[h]) \in Nat
  BY RootPath DEF Sound
<1>3. d \in Disks /\ \E q : SomeWritten(e, p, h, n, chunk, N, d, q)
  BY <1>1, <1>2, WriteDataWrites
<1>4. PICK q : SomeWritten(e, p, h, n, chunk, N, d, q)
  BY <1>3
<1> HIDE DEF d
<1>5. /\ Laid(d.fat, q) /\ Lengthened(p, q, h)
      /\ \A c \in Clusters : OffPath(q[h], c) => d.cell[c] = m[c]
      /\ \A x \in Nat : Within(q[h], x) =>
             Stored(d.cell, q[h], x) =
                 IF n <= x /\ x < n + N THEN chunk[x - n + 1] ELSE Stored(m, q[h], x)
  BY <1>4 DEF SomeWritten, Written, OffPath
<1>6. DOMAIN q = DOMAIN p /\ Len(q[h]) \in Nat /\ \A g \in DOMAIN p \ {h} : q[g] = p[g]
  <2>1. DOMAIN q = DOMAIN p /\ \A g \in DOMAIN p \ {h} : q[g] = p[g]
    BY <1>5 DEF Lengthened
  <2>. QED BY <1>5, <2>1, RootPath
<1>7. ASSUME NEW g \in DOMAIN p \ {h}, NEW x \in Nat, Within(p[g], x)
      PROVE  Stored(d.cell, p[g], x) = Stored(m, p[g], x)
  <2>1. g \in DOMAIN q /\ h \in DOMAIN q /\ q[g] = p[g] /\ g # h
    BY <1>6
  <2>. QED BY <1>5, <1>7, <2>1, OtherChainKept
<1>8. ASSUME NEW x \in Nat, Within(p[h], x), x < n
      PROVE  Stored(d.cell, q[h], x) = Stored(m, p[h], x)
  <2>1. /\ Within(q[h], x)
        /\ q[h][(x \div ClusterSize) + 1] = p[h][(x \div ClusterSize) + 1]
    BY <1>2, <1>5, <1>6, <1>8, WithinLengthened
  <2>2. ~ (n <= x)
    BY <1>8
  <2>3. Stored(d.cell, q[h], x) = Stored(m, q[h], x)
    BY <1>5, <2>1, <2>2
  <2>. QED BY <2>1, <2>3 DEF Stored
<1>9. ASSUME d.ok, NEW k \in 1..N
      PROVE  /\ Within(q[h], n + k - 1)
             /\ Stored(d.cell, q[h], n + k - 1) = chunk[k]
  <2>1. /\ N > 0 /\ n + k - 1 \in Nat /\ n + N - 1 \in Nat /\ n + k - 1 <= n + N - 1
        /\ n <= n + k - 1 /\ n + k - 1 < n + N /\ (n + k - 1) - n + 1 = k
    BY <1>1
  <2>2. N > 0 => IF Within(q[h], n + N - 1) THEN TRUE ELSE ~ d.ok
    BY <1>4, Zenon DEF SomeWritten
  <2>3. Within(q[h], n + N - 1)
    BY <1>9, <2>1, <2>2
  <2>4. Within(q[h], n + k - 1)
    BY <1>6, <2>1, <2>3, WithinBefore
  <2>. QED BY <1>5, <2>1, <2>4
<1>10. DataNameless(d.cell, q)
  <2> SUFFICES ASSUME NEW c \in Data, OffPath(q[Rootdir], c), NEW o \in Offsets
               PROVE  d.cell[c][o] \notin Names
    BY DEF DataNameless
  <2>1. c \in Clusters /\ OffPath(p[Rootdir], c)
    BY <1>2, <1>6, Sizes
  <2>2. m[c][o] \notin Names
    BY <2>1 DEF Sound, DataNameless
  <2>3. CASE OffPath(q[h], c)
    BY <1>5, <2>1, <2>2, <2>3
  <2>4. CASE ~ OffPath(q[h], c)
    <3>1. PICK k \in 1..Len(q[h]) : q[h][k] = c
      BY <2>4 DEF OffPath
    <3>2. k - 1 \in Nat /\ k - 1 + 1 = k /\ k - 1 < Len(q[h])
      BY <1>6
    <3>3. PICK x \in Nat : x \div ClusterSize = k - 1 /\ x % ClusterSize = o
      BY <3>2, OffsetOf
    <3>4. Within(q[h], x) /\ \A w : Stored(w, q[h], x) = w[c][o]
      BY <3>1, <3>2, <3>3 DEF Within, Stored
    <3>5. ASSUME n <= x, x < n + N PROVE x - n + 1 \in 1..N
      BY <1>1, <3>5
    <3>. QED BY <1>1, <1>5, <2>2, <3>4, <3>5
  <2>. QED BY <2>3, <2>4
<1>11. ChunkStored(m, p, h, n, chunk, d, q)
  BY <1>3, <1>5, <1>7, <1>8, <1>9, <1>10 DEF ChunkStored, d
<1>. QED BY <1>11 DEF d

\* A chunk behind the end of a file changes no entry and no content.
LEMMA ChunkUnseen ==
    ASSUME NEW f, NEW m, NEW fs, NEW p, Sound(f, m, fs, p), NEW i \in fs,
           NEW h, h = HeadIn(m, p[Rootdir], i), NEW chunk, NEW d, NEW q,
           ChunkStored(m, p, h, SizeIn(m, p[Rootdir], i), chunk, d, q)
    PROVE  /\ Sound(d.fat, d.cell, fs, q)
           /\ FilesKept(m, p, d.cell, q, fs)
           /\ q[Rootdir] = p[Rootdir]
<1> DEFINE s == p[Rootdir]
           w == d.cell
<1>1. /\ Laid(d.fat, q) /\ w \in Memories /\ DataNameless(w, q)
      /\ DOMAIN q = DOMAIN p /\ \A g \in DOMAIN p \ {h} : q[g] = p[g]
      /\ \A g \in DOMAIN p \ {h} : \A x \in Nat :
             Within(p[g], x) => Stored(w, p[g], x) = Stored(m, p[g], x)
      /\ \A x \in Nat : Within(p[h], x) /\ x < SizeIn(m, s, i) =>
             Stored(w, q[h], x) = Stored(m, p[h], x)
      /\ Lengthened(p, q, h)
  BY DEF ChunkStored, Lengthened, Disks
<1>2. /\ Laid(f, p) /\ m \in Memories
      /\ Rootdir \in DOMAIN p /\ Len(s) \in Nat /\ \A g \in DOMAIN p : Len(p[g]) \in Nat
      /\ \A g \in DOMAIN q : Len(q[g]) \in Nat
  BY <1>1, RootPath DEF Sound
<1>3. /\ h \in DOMAIN p \ {Rootdir} /\ InTable(s, i)
      /\ \A j \in fs : /\ InTable(s, j) /\ NameIn(m, s, j) \in Names
                       /\ HeadIn(m, s, j) \in Data \cap DOMAIN p
                       /\ SizeIn(m, s, j) <= Len(p[HeadIn(m, s, j)]) * ClusterSize
      /\ \A j, k \in fs : HeadIn(m, s, j) = HeadIn(m, s, k) => j = k
  BY Sizes DEF Sound, FilesSound
<1>4. q[Rootdir] = s
  BY <1>1, <1>2, <1>3
<1> HIDE DEF s, w
<1>5. ASSUME NEW j, InTable(s, j) PROVE SameEntry(m, s, w, s, j)
  <2>1. /\ j \in Nat
        /\ Within(s, EntryOffset(j)) /\ Within(s, EntryOffset(j) + 1) /\ Within(s, EntryOffset(j) + 2)
    BY <1>2, <1>5, InTableWithin
  <2>2. EntryOffset(j) \in Nat /\ EntryOffset(j) + 1 \in Nat /\ EntryOffset(j) + 2 \in Nat
    BY <2>1, EntryOffsets
  <2>3. \A x \in Nat : Within(s, x) => Stored(w, s, x) = Stored(m, s, x)
    BY <1>1, <1>2, <1>3 DEF s
  <2>. QED BY <2>1, <2>2, <2>3 DEF SameEntry, NameIn, SizeIn, HeadIn
<1>6. ASSUME NEW g \in DOMAIN p, NEW n \in Nat, n <= Len(p[g]) * ClusterSize
      PROVE  n <= Len(q[g]) * ClusterSize
  <2>1. CASE g # h
    BY <1>1, <1>6, <2>1
  <2>2. CASE g = h
    <3>1. n = 0 \/ Within(p[g], n - 1)
      BY <1>2, <1>6, SizeFits
    <3>2. n # 0 => n - 1 \in Nat
      OBVIOUS
    <3>3. n = 0 \/ Within(q[g], n - 1)
      BY <1>1, <1>2, <2>2, <3>1, <3>2, WithinLengthened
    <3>. QED BY <1>1, <1>2, <3>3, SizeFits
  <2>. QED BY <2>1, <2>2
<1>7. \A j \in fs : SizeIn(m, s, j) \in Nat
  <2> SUFFICES ASSUME NEW j \in fs PROVE SizeIn(m, s, j) \in Nat
    OBVIOUS
  <2>1. EntryOffset(j) + 1 \in Nat /\ Within(s, EntryOffset(j) + 1)
    BY <1>2, <1>3, InTableWithin, EntryOffsets
  <2>. QED BY <1>2, <2>1, StoredIsNat DEF SizeIn, s
<1>8. FilesSound(w, fs, q)
  <2>1. ASSUME NEW j \in fs
        PROVE  /\ InTable(s, j)
               /\ NameIn(w, s, j) \in Names
               /\ HeadIn(w, s, j) \in Data \cap DOMAIN q
               /\ SizeIn(w, s, j) <= Len(q[HeadIn(w, s, j)]) * ClusterSize
    <3>1. SameEntry(m, s, w, s, j)
      BY <1>3, <1>5
    <3>2. SizeIn(m, s, j) <= Len(q[HeadIn(m, s, j)]) * ClusterSize
      BY <1>3, <1>6, <1>7
    <3>. QED BY <1>1, <1>3, <3>1, <3>2 DEF SameEntry
  <2>2. ASSUME NEW j \in fs, NEW k \in fs, HeadIn(w, s, j) = HeadIn(w, s, k)
        PROVE  j = k
    <3>1. HeadIn(m, s, j) = HeadIn(m, s, k)
      BY <1>3, <1>5, <2>2 DEF SameEntry
    <3>. QED BY <1>3, <3>1
  <2>. QED BY <1>4, <2>1, <2>2 DEF FilesSound
<1>9. ChainsOwned(w, fs, q)
  <2> SUFFICES ASSUME NEW g \in DOMAIN p, g # Rootdir
               PROVE  \E j \in fs : HeadIn(w, s, j) = g
    BY <1>1, <1>4 DEF ChainsOwned
  <2>1. PICK j \in fs : HeadIn(m, s, j) = g
    BY DEF Sound, ChainsOwned, s
  <2>. QED BY <1>3, <1>5, <2>1 DEF SameEntry
<1>10. OthersNameless(w, fs, q)
  <2> SUFFICES ASSUME NEW j \in Nat, InTable(s, j), j \notin fs
               PROVE  NameIn(w, s, j) \notin Names
    BY <1>4 DEF OthersNameless
  <2>1. NameIn(m, s, j) \notin Names
    BY DEF Sound, OthersNameless, s
  <2>. QED BY <1>5, <2>1 DEF SameEntry
<1>11. Sound(d.fat, w, fs, q)
  BY <1>1, <1>8, <1>9, <1>10 DEF Sound
<1>12. FilesKept(m, p, w, q, fs)
  <2> SUFFICES ASSUME NEW j \in fs
               PROVE  /\ SameEntry(m, p[Rootdir], w, q[Rootdir], j)
                      /\ ContentAt(w, q, j) = ContentAt(m, p, j)
    BY DEF FilesKept
  <2>1. SameEntry(m, p[Rootdir], w, q[Rootdir], j)
    BY <1>3, <1>4, <1>5 DEF s
  <2> DEFINE g == HeadIn(m, p[Rootdir], j)
  <2>2. g \in DOMAIN p /\ (g = h => j = i)
    BY <1>3 DEF s
  <2>3. \A x \in Nat : Within(p[g], x) /\ x < SizeIn(m, p[Rootdir], j) =>
            Stored(w, q[g], x) = Stored(m, p[g], x)
    BY <1>1, <2>2 DEF s
  <2>4. ContentAt(w, q, j) = ContentAt(m, p, j)
    BY <2>1, <2>3, ContentKept
  <2>. QED BY <2>1, <2>4
<1>. QED BY <1>4, <1>11, <1>12 DEF w, s

\* The chunk is behind the content of the file h, and nothing else changed.
Appended(h, chunk, p, q) ==
    /\ files' = files
    /\ h \in files
    /\ NameIn(cell', q[Rootdir], h) = NameIn(cell, p[Rootdir], h)
    /\ ContentAt(cell', q, h) = ContentAt(cell, p, h) \o chunk
    /\ FilesKept(cell, p, cell', q, files \ {h})

\* The entry i has the size v, and nothing else is different.
OnlySizeSet(f, m, fs, p, i, v, w) ==
    /\ Sound(f, w, fs, p)
    /\ FilesKept(m, p, w, p, fs \ {i})
    /\ NameIn(w, p[Rootdir], i) = NameIn(m, p[Rootdir], i)
    /\ SizeIn(w, p[Rootdir], i) = v
    /\ HeadIn(w, p[Rootdir], i) = HeadIn(m, p[Rootdir], i)
    /\ \A g \in DOMAIN p \ {Rootdir} : \A x \in Nat :
           Within(p[g], x) => Stored(w, p[g], x) = Stored(m, p[g], x)

\* The entry gets the size of the file with the chunk that was stored.
LEMMA SizeSet ==
    ASSUME NEW f, NEW m, NEW fs, NEW p, Sound(f, m, fs, p), NEW i \in fs, NEW v \in Nat,
           LET h == HeadIn(m, p[Rootdir], i) IN v <= Len(p[h]) * ClusterSize,
           NEW w, w = Placed(m, p[Rootdir], EntryOffset(i) + 1, v)
    PROVE  OnlySizeSet(f, m, fs, p, i, v, w)
<1> DEFINE s == p[Rootdir]
<1>1. EntryWritten(m, p, i, EntryOffset(i) + 1, v, w)
  <2>1. EntryOffset(i) + 1 \in {EntryOffset(i), EntryOffset(i) + 1}
    OBVIOUS
  <2>. QED BY <2>1, EntryWrite
<1>2. /\ w \in Memories /\ DataNameless(w, p)
      /\ \A j : InTable(s, j) /\ j # i => SameEntry(m, s, w, s, j)
      /\ HeadIn(w, s, i) = HeadIn(m, s, i)
      /\ SizeIn(w, s, i) = v
      /\ NameIn(w, s, i) = NameIn(m, s, i)
      /\ \A g \in DOMAIN p \ {Rootdir} : \A x \in Nat :
             Within(p[g], x) => Stored(w, p[g], x) = Stored(m, p[g], x)
  BY <1>1 DEF EntryWritten
<1>3. \A j \in fs : /\ InTable(s, j) /\ NameIn(m, s, j) \in Names
                    /\ HeadIn(m, s, j) \in Data \cap DOMAIN p
                    /\ SizeIn(m, s, j) <= Len(p[HeadIn(m, s, j)]) * ClusterSize
                    /\ HeadIn(m, s, j) # Rootdir
  BY Sizes DEF Sound, FilesSound
<1>4. \A j \in fs : HeadIn(w, s, j) = HeadIn(m, s, j) /\ NameIn(w, s, j) = NameIn(m, s, j)
  BY <1>2, <1>3 DEF SameEntry
<1>5. FilesSound(w, fs, p)
  <2>1. ASSUME NEW j \in fs
        PROVE  SizeIn(w, s, j) <= Len(p[HeadIn(w, s, j)]) * ClusterSize
    <3>1. CASE j = i
      BY <1>2, <3>1
    <3>2. CASE j # i
      <4>1. SizeIn(w, s, j) = SizeIn(m, s, j)
        BY <1>2, <1>3, <3>2 DEF SameEntry
      <4>. QED BY <1>3, <1>4, <4>1
    <3>. QED BY <3>1, <3>2
  <2>2. \A j, k \in fs : HeadIn(w, s, j) = HeadIn(w, s, k) => j = k
    BY <1>4 DEF Sound, FilesSound
  <2>. QED BY <1>3, <1>4, <2>1, <2>2 DEF FilesSound
<1>6. ChainsOwned(w, fs, p)
  BY <1>4 DEF Sound, ChainsOwned
<1>7. OthersNameless(w, fs, p)
  <2> SUFFICES ASSUME NEW j \in Nat, InTable(s, j), j \notin fs
               PROVE  NameIn(w, s, j) \notin Names
    BY DEF OthersNameless
  <2>1. NameIn(m, s, j) \notin Names
    BY DEF Sound, OthersNameless
  <2>. QED BY <1>2, <2>1 DEF SameEntry
<1>8. Sound(f, w, fs, p)
  BY <1>2, <1>5, <1>6, <1>7 DEF Sound
<1>9. FilesKept(m, p, w, p, fs \ {i})
  <2> SUFFICES ASSUME NEW j \in fs \ {i}
               PROVE  SameEntry(m, s, w, s, j) /\ ContentAt(w, p, j) = ContentAt(m, p, j)
    BY DEF FilesKept
  <2>1. SameEntry(m, s, w, s, j)
    BY <1>2, <1>3
  <2> DEFINE g == HeadIn(m, p[Rootdir], j)
  <2>2. \A x \in Nat : Within(p[g], x) /\ x < SizeIn(m, p[Rootdir], j) =>
            Stored(w, p[g], x) = Stored(m, p[g], x)
    BY <1>2, <1>3
  <2>3. ContentAt(w, p, j) = ContentAt(m, p, j)
    BY <2>1, <2>2, ContentKept
  <2>. QED BY <2>1, <2>3
<1>. QED BY <1>2, <1>8, <1>9 DEF OnlySizeSet

LEMMA FilesKeptTwice ==
    ASSUME NEW m, NEW p, NEW w, NEW q, NEW u, NEW r, NEW fs,
           FilesKept(m, p, w, q, fs), FilesKept(w, q, u, r, fs)
    PROVE  FilesKept(m, p, u, r, fs)
  BY DEF FilesKept, SameEntry

\* A content as long as n, with the chunk behind it.
Behind(m, s, w, r, n, chunk) ==
    /\ \A k \in 1..n : Stored(w, r, k - 1) = Stored(m, s, k - 1) /\ Stored(m, s, k - 1) \in Nat
    /\ \A k \in 1..Len(chunk) : Stored(w, r, n + k - 1) = chunk[k]

BytesJoined(m, s, w, r, n, chunk) ==
    BytesOf(w, r, n + Len(chunk)) = BytesOf(m, s, n) \o chunk

LEMMA BytesAppended ==
    ASSUME NEW m, NEW s, NEW w, NEW r, NEW n \in Nat, NEW chunk \in Seq(Nat),
           Behind(m, s, w, r, n, chunk)
    PROVE  BytesJoined(m, s, w, r, n, chunk)
<1> DEFINE a == BytesOf(m, s, n)
           b == BytesOf(w, r, n + Len(chunk))
           t == a \o chunk
           N == n + Len(chunk)
<1>1. /\ \A k \in 1..n : /\ Stored(w, r, k - 1) = Stored(m, s, k - 1)
                         /\ Stored(m, s, k - 1) \in Nat
      /\ \A k \in 1..Len(chunk) : Stored(w, r, n + k - 1) = chunk[k]
  BY DEF Behind
<1>2. a \in Seq(Nat) /\ Len(a) = n /\ \A k \in 1..n : a[k] = Stored(m, s, k - 1)
  BY <1>1 DEF BytesOf
<1>3. Len(chunk) \in Nat /\ N \in Nat
  OBVIOUS
<1>4. ASSUME NEW k \in 1..N
      PROVE  Stored(w, r, k - 1) = (IF k <= n THEN a[k] ELSE chunk[k - n])
             /\ Stored(w, r, k - 1) \in Nat
  <2>1. CASE k <= n
    <3>1. k \in 1..n
      BY <1>3, <2>1
    <3>. QED BY <1>2, <1>1, <2>1, <3>1
  <2>2. CASE ~ (k <= n)
    <3>1. k - n \in 1..Len(chunk) /\ n + (k - n) - 1 = k - 1
      BY <1>3, <2>2
    <3>. QED BY <1>1, <2>2, <3>1
  <2>. QED BY <2>1, <2>2
<1>5. b = [k \in 1..N |-> Stored(w, r, k - 1)]
  BY DEF BytesOf
<1> HIDE DEF a, b, N
<1>6. b \in Seq(Nat) /\ Len(b) = N /\ \A k \in 1..N : b[k] = Stored(w, r, k - 1)
  <2>1. N \in Nat /\ \A k \in 1..N : Stored(w, r, k - 1) \in Nat
    BY <1>3, <1>4
  <2>2. b \in [1..N -> Nat]
    BY <1>5, <2>1
  <2>. QED BY <1>5, <2>1, <2>2
<1>7. /\ t \in Seq(Nat) /\ Len(t) = Len(a) + Len(chunk)
      /\ \A k \in 1..(Len(a) + Len(chunk)) :
             t[k] = IF k <= Len(a) THEN a[k] ELSE chunk[k - Len(a)]
  BY <1>2, ConcatProperties
<1> HIDE DEF t
<1>8. \A k \in 1..N : b[k] = t[k]
  BY <1>2, <1>4, <1>6, <1>7 DEF N
<1>9. b = t
  BY <1>2, <1>6, <1>7, <1>8, SeqEqual DEF N
<1>. QED BY <1>9 DEF a, b, t, N, BytesJoined

LEMMA WriteSound ==
    ASSUME NEW p, Sound(fat, cell, files, p), NEW h \in files, NEW chunk \in Chunks,
           Write(h, chunk)
    PROVE  \E q : /\ Sound(fat', cell', files', q)
                  /\ Appended(h, chunk, p, q) \/ NothingDone(p, q)
<1> DEFINE s == p[Rootdir]
           c == HeadIn(cell, s, h)
           n == SizeIn(cell, s, h)
           o == EntryOffset(h) + 1
           v == n + Len(chunk)
           d == WriteData(Disk, c, n, chunk)
           e == Write8(d, Rootdir, o, v)
<1>1. /\ Laid(fat, p) /\ Rootdir \in DOMAIN p /\ Len(s) \in Nat
      /\ fat \in Fats /\ cell \in Memories
      /\ InTable(s, h) /\ c \in Data /\ c \in DOMAIN p /\ n <= Len(p[c]) * ClusterSize
      /\ \A g \in DOMAIN p : Len(p[g]) \in Nat
  BY RootPath DEF Sound, FilesSound, Laid
<1>2. Disk \in Disks /\ Disk.fat = fat /\ Disk.cell = cell
  BY <1>1, DiskNow
<1>3. Entry(Disk, h).cluster = c /\ Entry(Disk, h).size = n /\ n \in Nat /\ c # Rootdir
  BY <1>1, <1>2, EntryReads, Sizes
<1>4. /\ files' = files
      /\ IF d.ok THEN fat' = e.fat /\ cell' = e.cell ELSE fat' = d.fat /\ cell' = d.cell
  BY <1>3 DEF Write
<1>5. chunk \in Seq(Nat) /\ Len(chunk) \in Nat /\ v \in Nat
  BY <1>3, TinyFSAssumption
<1>6. \E q : ChunkStored(cell, p, c, n, chunk, d, q)
  <2>1. c \in DOMAIN p \ {Rootdir}
    BY <1>1, <1>3
  <2> HIDE DEF c, n
  <2>. QED BY <1>2, <1>3, <2>1, ChunkIsStored
<1>7. PICK q : ChunkStored(cell, p, c, n, chunk, d, q)
  BY <1>6
<1> HIDE DEF d, e
<1>8. Sound(d.fat, d.cell, files, q) /\ FilesKept(cell, p, d.cell, q, files) /\ q[Rootdir] = s
  BY <1>7, ChunkUnseen
<1>9. CASE ~ d.ok
  <2>1. NothingDone(p, q)
    BY <1>4, <1>8, <1>9 DEF NothingDone
  <2>. QED BY <1>4, <1>8, <1>9, <2>1
<1>10. CASE d.ok
  <2>1. /\ Laid(d.fat, q) /\ d \in Disks /\ d.cell \in Memories /\ Lengthened(p, q, c)
        /\ \A x \in Nat : Within(p[c], x) /\ x < n => Stored(d.cell, q[c], x) = Stored(cell, p[c], x)
        /\ \A k \in 1..Len(chunk) : /\ Within(q[c], n + k - 1)
                                    /\ Stored(d.cell, q[c], n + k - 1) = chunk[k]
    BY <1>7, <1>10 DEF ChunkStored, Disks
  <2>2. /\ DOMAIN q = DOMAIN p /\ Len(q[c]) \in Nat /\ c \in DOMAIN q /\ Rootdir \in DOMAIN q
    <3>1. DOMAIN q = DOMAIN p
      BY <2>1 DEF Lengthened
    <3>. QED BY <1>1, <2>1, <3>1, RootPath
  <2>3. SameEntry(cell, s, d.cell, s, h)
    BY <1>8 DEF FilesKept
  <2>4. HeadIn(d.cell, s, h) = c /\ SizeIn(d.cell, s, h) = n
    BY <2>3 DEF SameEntry
  <2> HIDE DEF c, n
  <2>5. v <= Len(q[c]) * ClusterSize
    <3>1. v = 0 \/ Within(q[c], v - 1)
      <4>1. CASE Len(chunk) = 0
        <5>1. v = n
          BY <1>3, <4>1
        <5>2. n = 0 \/ Within(p[c], n - 1)
          BY <1>1, <1>3, SizeFits
        <5>3. n # 0 => n - 1 \in Nat
          BY <1>3
        <5>4. n # 0 => Within(q[c], n - 1)
          BY <1>1, <2>1, <2>2, <5>2, <5>3, WithinLengthened
        <5>. QED BY <5>1, <5>4
      <4>2. CASE Len(chunk) # 0
        <5>1. Len(chunk) \in 1..Len(chunk) /\ n + Len(chunk) - 1 = v - 1
          BY <1>3, <1>5, <4>2
        <5>2. Within(q[c], n + Len(chunk) - 1)
          BY <2>1, <5>1
        <5>. QED BY <5>1, <5>2
      <4>. QED BY <4>1, <4>2
    <3>. QED BY <1>5, <2>2, <3>1, SizeFits
  <2>6. h \in Nat /\ EntryOffset(h) \in Nat /\ o \in Nat /\ Within(s, o)
    BY <1>1, InTableWithin, EntryOffsets
  <2>7. e.fat = d.fat /\ e.cell = Placed(d.cell, s, o, v)
    <3>1. PICK r : OneWritten(d, q, Rootdir, o, v, e, r)
      BY <1>5, <2>1, <2>2, <2>6, OneIsWritten DEF e
    <3>2. Within(r[Rootdir], o)
      <4>1. Laid(e.fat, r) /\ Lengthened(q, r, Rootdir)
        BY <3>1 DEF OneWritten
      <4>2. Len(r[Rootdir]) \in Nat
        BY <4>1, RootPath
      <4>. QED BY <1>1, <1>8, <2>6, <4>1, <4>2, WithinLengthened
    <3>3. r = q /\ e.fat = d.fat
      BY <1>8, <2>6, <3>1, <3>2 DEF OneWritten
    <3>. QED BY <1>8, <3>1, <3>2, <3>3 DEF OneWritten
  <2>8. fat' = d.fat /\ cell' = Placed(d.cell, q[Rootdir], o, v)
    BY <1>4, <1>8, <1>10, <2>7
  <2> HIDE DEF v
  <2>9. /\ Sound(d.fat, cell', files, q)
        /\ FilesKept(d.cell, q, cell', q, files \ {h})
        /\ NameIn(cell', s, h) = NameIn(d.cell, s, h)
        /\ SizeIn(cell', s, h) = v
        /\ HeadIn(cell', s, h) = c
        /\ \A g \in DOMAIN q \ {Rootdir} : \A x \in Nat :
               Within(q[g], x) => Stored(cell', q[g], x) = Stored(d.cell, q[g], x)
    <3>1. HeadIn(d.cell, q[Rootdir], h) = c
      BY <1>8, <2>4
    <3>2. LET g == HeadIn(d.cell, q[Rootdir], h) IN v <= Len(q[g]) * ClusterSize
      BY <2>5, <3>1
    <3>3. PICK w : w = cell'
      OBVIOUS
    <3>4. w = Placed(d.cell, q[Rootdir], EntryOffset(h) + 1, v)
      BY <2>8, <3>3
    <3>5. OnlySizeSet(d.fat, d.cell, files, q, h, v, w)
      <4>1. v \in Nat /\ Sound(d.fat, d.cell, files, q)
        BY <1>5, <1>8 DEF v
      <4>. QED BY <3>2, <3>4, <4>1, SizeSet
    <3>. QED BY <1>8, <3>1, <3>3, <3>5 DEF OnlySizeSet
  <2>10. NameIn(cell', q[Rootdir], h) = NameIn(cell, s, h)
    BY <1>8, <2>3, <2>9 DEF SameEntry
  <2>11. FilesKept(cell, p, cell', q, files \ {h})
    <3>1. FilesKept(cell, p, d.cell, q, files \ {h})
      BY <1>8 DEF FilesKept
    <3>. QED BY <2>9, <3>1, FilesKeptTwice
  <2>12. \A k \in 1..n : /\ k - 1 \in Nat /\ Within(p[c], k - 1)
                         /\ Stored(cell, p[c], k - 1) \in Nat
                         /\ Stored(cell', q[c], k - 1) = Stored(cell, p[c], k - 1)
    <3> SUFFICES ASSUME NEW k \in 1..n
                 PROVE  /\ k - 1 \in Nat /\ Within(p[c], k - 1)
                        /\ Stored(cell, p[c], k - 1) \in Nat
                        /\ Stored(cell', q[c], k - 1) = Stored(cell, p[c], k - 1)
      OBVIOUS
    <3>1. k - 1 \in Nat /\ Within(p[c], k - 1) /\ k - 1 < n
      BY <1>1, <1>3, SizeWithin
    <3>2. Within(q[c], k - 1)
      BY <1>1, <2>1, <2>2, <3>1, WithinLengthened
    <3>3. Stored(cell', q[c], k - 1) = Stored(d.cell, q[c], k - 1)
      BY <1>3, <2>2, <2>9, <3>1, <3>2
    <3>4. Stored(cell, p[c], k - 1) \in Nat
      BY <1>1, <3>1, StoredIsNat
    <3>. QED BY <2>1, <3>1, <3>3, <3>4
  <2>13. \A k \in 1..Len(chunk) : Stored(cell', q[c], n + k - 1) = chunk[k]
    <3> SUFFICES ASSUME NEW k \in 1..Len(chunk)
                 PROVE  Stored(cell', q[c], n + k - 1) = chunk[k]
      OBVIOUS
    <3>1. n + k - 1 \in Nat
      BY <1>3, <1>5
    <3>2. Within(q[c], n + k - 1) /\ Stored(d.cell, q[c], n + k - 1) = chunk[k]
      BY <2>1
    <3>. QED BY <1>3, <2>2, <2>9, <3>1, <3>2
  <2>14. ContentAt(cell', q, h) = ContentAt(cell, p, h) \o chunk
    <3>1. BytesOf(cell', q[c], n + Len(chunk)) = BytesOf(cell, p[c], n) \o chunk
      <4>1. Behind(cell, p[c], cell', q[c], n, chunk)
        BY <2>12, <2>13 DEF Behind
      <4>2. BytesJoined(cell, p[c], cell', q[c], n, chunk)
        BY <1>3, <1>5, <4>1, BytesAppended
      <4>. QED BY <4>2, Zenon DEF BytesJoined
    <3>2. ContentAt(cell, p, h) = BytesOf(cell, p[c], n)
      BY DEF ContentAt, c, n, s
    <3>3. ContentAt(cell', q, h) = BytesOf(cell', q[c], n + Len(chunk))
      BY <1>8, <2>9 DEF ContentAt, v
    <3>. QED BY <3>1, <3>2, <3>3
  <2>15. Appended(h, chunk, p, q)
    BY <1>4, <2>10, <2>11, <2>14 DEF Appended
  <2>. QED BY <1>4, <2>8, <2>9, <2>15
<1>. QED BY <1>9, <1>10

-----------------------------------------------------------------------------
(* The invariant, and what it says. *)

\* What a step does to the files.
Progress(p, q) ==
    \/ \E name \in Names : Created(name, p, q)
    \/ \E name \in Names : Deleted(name, p, q)
    \/ \E h \in files, chunk \in Chunks : Appended(h, chunk, p, q)
    \/ NothingDone(p, q)

LEMMA StepSound ==
    ASSUME NEW p, Sound(fat, cell, files, p), [Next]_vars
    PROVE  \E q : Sound(fat', cell', files', q) /\ Progress(p, q)
<1>1. CASE UNCHANGED vars
  <2>1. fat' = fat /\ cell' = cell /\ files' = files
    BY <1>1 DEF vars
  <2>2. NothingDone(p, p)
    BY <2>1 DEF NothingDone, FilesKept, SameEntry
  <2>. QED BY <2>1, <2>2 DEF Progress
<1>2. ASSUME NEW name \in Names, CreateFile(name)
      PROVE  \E q : Sound(fat', cell', files', q) /\ Progress(p, q)
  <2>1. PICK q : Sound(fat', cell', files', q) /\ (Created(name, p, q) \/ NothingDone(p, q))
    BY <1>2, CreateSound
  <2>. QED BY <2>1 DEF Progress
<1>3. ASSUME NEW name \in Names, Delete(name)
      PROVE  \E q : Sound(fat', cell', files', q) /\ Progress(p, q)
  <2>1. PICK q : Sound(fat', cell', files', q) /\ Deleted(name, p, q)
    BY <1>3, DeleteSound
  <2>. QED BY <2>1 DEF Progress
<1>4. ASSUME NEW h \in files, NEW chunk \in Chunks, Write(h, chunk)
      PROVE  \E q : Sound(fat', cell', files', q) /\ Progress(p, q)
  <2>1. PICK q : /\ Sound(fat', cell', files', q)
                 /\ Appended(h, chunk, p, q) \/ NothingDone(p, q)
    BY <1>4, WriteSound
  <2>. QED BY <2>1 DEF Progress
<1>5. CASE CreateRefused
  BY <1>1, <1>5 DEF CreateRefused
<1>. QED BY <1>1, <1>2, <1>3, <1>4, <1>5 DEF Next

\* After any calls there are paths along which the chains are laid out, each the
\* directory's or one file's, the files fit theirs, and nothing else bears a name.
THEOREM PathsFit == Spec => []TinyFSInv
<1>1. Init => TinyFSInv
  BY InitSound
<1>2. TinyFSInv /\ [Next]_vars => TinyFSInv'
  <2> SUFFICES ASSUME TinyFSInv, [Next]_vars PROVE TinyFSInv'
    OBVIOUS
  <2>1. PICK p : Sound(fat, cell, files, p)
    BY DEF TinyFSInv
  <2>2. PICK q : Sound(fat', cell', files', q)
    BY <2>1, StepSound
  <2>. QED BY <2>2 DEF TinyFSInv
<1>. QED BY <1>1, <1>2, PTL DEF Spec

\* What the directory says of the files.
LEMMA EntriesOfFiles ==
    ASSUME NEW p, Sound(fat, cell, files, p), NEW i \in files
    PROVE  /\ i \in Used(Disk)
           /\ Entry(Disk, i).cluster = HeadIn(cell, p[Rootdir], i)
           /\ Entry(Disk, i).size = SizeIn(cell, p[Rootdir], i)
           /\ HeadIn(cell, p[Rootdir], i) \in Data /\ HeadIn(cell, p[Rootdir], i) \in DOMAIN p
<1>1. /\ Laid(fat, p) /\ fat \in Fats /\ cell \in Memories /\ InTable(p[Rootdir], i)
      /\ NameIn(cell, p[Rootdir], i) \in Names
      /\ HeadIn(cell, p[Rootdir], i) \in Data /\ HeadIn(cell, p[Rootdir], i) \in DOMAIN p
  BY DEF Sound, FilesSound, Laid
<1>2. Disk.fat = fat /\ Disk.cell = cell
  BY <1>1, DiskNow
<1>3. files \subseteq Used(Disk)
  BY <1>1, <1>2, MatchesAreFiles
<1>4. /\ Entry(Disk, i).cluster = HeadIn(cell, p[Rootdir], i)
      /\ Entry(Disk, i).size = SizeIn(cell, p[Rootdir], i)
  BY <1>1, <1>2, EntryReads
<1>. QED BY <1>1, <1>3, <1>4

LEMMA HeadsArePaths ==
    ASSUME NEW p, Sound(fat, cell, files, p)
    PROVE  Heads = DOMAIN p
<1>1. Rootdir \in DOMAIN p
  BY RootPath DEF Sound
<1>2. Heads = {Rootdir} \cup {HeadIn(cell, p[Rootdir], i) : i \in files}
  BY EntriesOfFiles DEF Heads
<1>3. \A i \in files : HeadIn(cell, p[Rootdir], i) \in DOMAIN p
  BY EntriesOfFiles
<1>4. \A h \in DOMAIN p : h = Rootdir \/ \E i \in files : HeadIn(cell, p[Rootdir], i) = h
  BY DEF Sound, ChainsOwned
<1>. QED BY <1>1, <1>2, <1>3, <1>4

LEMMA InvImpliesTypeOK == TinyFSInv => TypeOK
<1> SUFFICES ASSUME TinyFSInv PROVE TypeOK
  OBVIOUS
<1>1. PICK p : Sound(fat, cell, files, p)
  BY DEF TinyFSInv
<1>2. fat \in Fats /\ cell \in Memories
  BY <1>1 DEF Sound, Laid
<1>3. files \subseteq Used(Disk)
  BY <1>1, EntriesOfFiles
<1>. QED BY <1>2, <1>3 DEF TypeOK, Fats, Memories, Offsets

LEMMA InvImpliesSizeInChain == TinyFSInv => SizeInChain
<1> SUFFICES ASSUME TinyFSInv, NEW i \in files
             PROVE  Entry(Disk, i).size <= ChainSize(fat, Entry(Disk, i).cluster) * ClusterSize
  BY DEF SizeInChain
<1>1. PICK p : Sound(fat, cell, files, p)
  BY DEF TinyFSInv
<1> DEFINE h == HeadIn(cell, p[Rootdir], i)
<1>2. /\ Entry(Disk, i).cluster = h /\ h \in DOMAIN p
      /\ Entry(Disk, i).size = SizeIn(cell, p[Rootdir], i)
  BY <1>1, EntriesOfFiles
<1>3. Laid(fat, p) /\ SizeIn(cell, p[Rootdir], i) <= Len(p[h]) * ClusterSize
  BY <1>1 DEF Sound, FilesSound
<1>4. ChainSize(fat, h) = Len(p[h])
  BY <1>2, <1>3, ChainOnPath
<1>. QED BY <1>2, <1>3, <1>4

LEMMA InvImpliesClustersAccounted == TinyFSInv => ClustersAccounted
<1> SUFFICES ASSUME TinyFSInv PROVE ClustersAccounted
  OBVIOUS
<1>1. PICK p : Sound(fat, cell, files, p)
  BY DEF TinyFSInv
<1>2. Laid(fat, p)
  BY <1>1 DEF Sound
<1>3. Heads = DOMAIN p
  BY <1>1, HeadsArePaths
<1>4. \A h \in DOMAIN p : /\ Chain(fat, h) = {p[h][k] : k \in 1..Len(p[h])}
                          /\ Hop(fat, h, ClusterCount) = EndOfChain
  BY <1>2, ChainOnPath
<1>5. ASSUME NEW i \in files, NEW j \in files, Entry(Disk, i).cluster = Entry(Disk, j).cluster
      PROVE  i = j
  <2>1. HeadIn(cell, p[Rootdir], i) = HeadIn(cell, p[Rootdir], j)
    BY <1>1, <1>5, EntriesOfFiles
  <2>. QED BY <1>1, <2>1 DEF Sound, FilesSound
<1>6. ASSUME NEW g \in DOMAIN p, NEW h \in DOMAIN p, g # h
      PROVE  Chain(fat, g) \cap Chain(fat, h) = {}
  BY <1>2, <1>4, <1>6 DEF Laid, NothingShared
<1>7. {c \in Data : fat[c] # 0} = (UNION {Chain(fat, h) : h \in DOMAIN p}) \ {Rootdir}
  <2>1. \A c : c \in UNION {Chain(fat, h) : h \in DOMAIN p} <=> OnPath(p, c)
    BY <1>4 DEF OnPath
  <2>2. \A c : OnPath(p, c) => c \in Linkable
    BY <1>2, OnPathTaken DEF OnPath
  <2>3. \A c \in Data : fat[c] # 0 <=> OnPath(p, c)
    BY <1>2 DEF Laid
  <2>4. \A c : c \in Data <=> c \in Linkable /\ c # Rootdir
    BY Sizes DEF Data, Linkable, Rootdir
  <2> DEFINE U == UNION {Chain(fat, h) : h \in DOMAIN p}
  <2> HIDE DEF U
  <2>5. \A c : c \in U <=> OnPath(p, c)
    BY <2>1 DEF U
  <2>6. \A c : c \in Data /\ fat[c] # 0 <=> c \in U /\ c # Rootdir
    BY <2>2, <2>3, <2>4, <2>5
  <2>7. {c \in Data : fat[c] # 0} = U \ {Rootdir}
    BY <2>6
  <2>. QED BY <2>7 DEF U
<1>8. ChainsApart
  BY <1>3, <1>4, <1>5, <1>6 DEF ChainsApart
<1>. QED BY <1>3, <1>7, <1>8 DEF ClustersAccounted, Data

\* The variables keep their types, and what was created and not deleted is an
\* entry in use.
THEOREM TypesKept == Spec => []TypeOK
  BY PathsFit, InvImpliesTypeOK, PTL

\* No cluster is in two chains, none is lost and none that is in use is listed as
\* free, however calls succeed or fail half-way.
THEOREM ClustersStayAccounted == Spec => []ClustersAccounted
  BY PathsFit, InvImpliesClustersAccounted, PTL

\* After any creations, deletions and appends (fs_create_file, fs_delete, fs_write)
\* the size of a file does not exceed the clusters it has.  It does after a write of
\* FuseDriver over what a file holds, which is no step of Spec.
THEOREM FilesStayInChain == Spec => []SizeInChain
  BY PathsFit, InvImpliesSizeInChain, PTL

-----------------------------------------------------------------------------
(* The image implements the table of files. *)

\* The table that the disk d shows for the files fs.
NamesShown(d, fs)    == [i \in fs |-> EntryName(d, i)]
BytesShown(d, i)     == LET e == Entry(d, i) IN [k \in 1..e.size |-> Read8(d, e.cluster, k - 1)]
ContentsShown(d, fs) == [i \in fs |-> BytesShown(d, i)]

LEMMA TableShown ==
    ASSUME NEW d, NEW fs, NEW p, Sound(d.fat, d.cell, fs, p)
    PROVE  /\ NamesShown(d, fs) = NamesOf(d.cell, fs, p)
           /\ ContentsShown(d, fs) = ContentsOf(d.cell, fs, p)
<1>1. /\ Laid(d.fat, p) /\ d.cell \in Memories
      /\ \A h \in DOMAIN p : Len(p[h]) \in Nat
  BY RootPath DEF Sound
<1>2. ASSUME NEW i \in fs
      PROVE  /\ EntryName(d, i) = NameIn(d.cell, p[Rootdir], i)
             /\ BytesShown(d, i) = ContentAt(d.cell, p, i)
  <2> DEFINE h == HeadIn(d.cell, p[Rootdir], i)
             n == SizeIn(d.cell, p[Rootdir], i)
  <2>1. InTable(p[Rootdir], i) /\ h \in DOMAIN p /\ n <= Len(p[h]) * ClusterSize
    BY DEF Sound, FilesSound
  <2>2. /\ EntryName(d, i) = NameIn(d.cell, p[Rootdir], i)
        /\ Entry(d, i).size = n /\ Entry(d, i).cluster = h /\ n \in Nat
    BY <1>1, <2>1, EntryReads
  <2>3. BytesShown(d, i) = [k \in 1..n |-> Read8(d, h, k - 1)]
    BY <2>2 DEF BytesShown
  <2>4. ContentAt(d.cell, p, i) = [k \in 1..n |-> Stored(d.cell, p[h], k - 1)]
    BY DEF ContentAt, BytesOf
  <2> HIDE DEF h, n
  <2>5. ASSUME NEW k \in 1..n PROVE Read8(d, h, k - 1) = Stored(d.cell, p[h], k - 1)
    <3>1. k - 1 \in Nat /\ Within(p[h], k - 1)
      BY <1>1, <2>1, <2>2, SizeWithin
    <3>. QED BY <1>1, <2>1, <3>1, ReadInChain
  <2>. QED BY <2>2, <2>3, <2>4, <2>5
<1>. QED BY <1>2 DEF NamesShown, ContentsShown, NamesOf, ContentsOf

LEMMA TableNow ==
    ASSUME NEW p, Sound(fat, cell, files, p)
    PROVE  /\ [i \in files |-> EntryName(Disk, i)] = NamesOf(cell, files, p)
           /\ [i \in files |-> Content(i)] = ContentsOf(cell, files, p)
<1>1. Disk.fat = fat /\ Disk.cell = cell
  BY DiskNow DEF Sound, Laid
<1>2. NamesShown(Disk, files) = NamesOf(cell, files, p)
      /\ ContentsShown(Disk, files) = ContentsOf(cell, files, p)
  BY <1>1, TableShown
<1>. QED BY <1>2 DEF NamesShown, ContentsShown, BytesShown, Content

LEMMA TableNext ==
    ASSUME NEW q, Sound(fat', cell', files', q)
    PROVE  /\ [i \in files |-> EntryName(Disk, i)]' = NamesOf(cell', files', q)
           /\ [i \in files |-> Content(i)]' = ContentsOf(cell', files', q)
<1>1. PICK d : d = Disk'
  OBVIOUS
<1>2. d.fat = fat' /\ d.cell = cell'
  BY <1>1 DEF Disk
<1>3. NamesShown(d, files') = NamesOf(cell', files', q)
      /\ ContentsShown(d, files') = ContentsOf(cell', files', q)
  BY <1>2, TableShown
<1>4. [i \in files |-> EntryName(Disk, i)]' = [i \in files' |-> EntryName(Disk', i)]
      /\ [i \in files |-> Content(i)]' = [i \in files' |-> BytesShown(Disk', i)]
  BY DEF Content, BytesShown
<1>. QED BY <1>1, <1>3, <1>4 DEF NamesShown, ContentsShown

LEMMA TableInit == Init => Table!Init
<1> SUFFICES ASSUME Init PROVE Table!Init
  OBVIOUS
<1>1. files = {}
  BY DEF Init
<1>2. [i \in files |-> EntryName(Disk, i)] = [i \in {} |-> 0]
  BY <1>1
<1>3. [i \in files |-> Content(i)] = [i \in {} |-> <<>>]
  BY <1>1
<1>. QED BY <1>2, <1>3 DEF Table!Init

\* Files that are kept show as they did.
LEMMA KeptShown ==
    ASSUME NEW m, NEW p, NEW w, NEW q, NEW fs, FilesKept(m, p, w, q, fs), NEW i \in fs
    PROVE  /\ NameIn(w, q[Rootdir], i) = NameIn(m, p[Rootdir], i)
           /\ ContentAt(w, q, i) = ContentAt(m, p, i)
  BY DEF FilesKept, SameEntry

\* Each step is one of the table, or leaves it as it is.
LEMMA TableStep ==
    ASSUME TinyFSInv, [Next]_vars
    PROVE  [Table!Next]_(Table!vars)
<1>1. PICK p : Sound(fat, cell, files, p)
  BY DEF TinyFSInv
<1>2. PICK q : Sound(fat', cell', files', q) /\ Progress(p, q)
  BY <1>1, StepSound
<1> DEFINE N == [i \in files |-> EntryName(Disk, i)]
           C == [i \in files |-> Content(i)]
<1>3. /\ N = NamesOf(cell, files, p) /\ C = ContentsOf(cell, files, p)
      /\ N' = NamesOf(cell', files', q) /\ C' = ContentsOf(cell', files', q)
  BY <1>1, <1>2, TableNow, TableNext
<1> HIDE DEF N, C
<1>4. /\ DOMAIN N = files /\ DOMAIN N' = files'
      /\ N = [i \in files |-> NameIn(cell, p[Rootdir], i)]
      /\ C = [i \in files |-> ContentAt(cell, p, i)]
      /\ N' = [i \in files' |-> NameIn(cell', q[Rootdir], i)]
      /\ C' = [i \in files' |-> ContentAt(cell', q, i)]
  BY <1>3 DEF NamesOf, ContentsOf
<1>5. ASSUME NEW name \in Names, Created(name, p, q) PROVE Table!Create(name)
  <2>1. PICK i \in Nat \ files : /\ files' = files \cup {i}
                                 /\ NameIn(cell', q[Rootdir], i) = name
                                 /\ SizeIn(cell', q[Rootdir], i) = 0
                                 /\ FilesKept(cell, p, cell', q, files)
    BY <1>5 DEF Created
  <2>2. ContentAt(cell', q, i) = <<>>
    BY <2>1 DEF ContentAt, BytesOf
  <2>3. \A j \in files : /\ NameIn(cell', q[Rootdir], j) = NameIn(cell, p[Rootdir], j)
                         /\ ContentAt(cell', q, j) = ContentAt(cell, p, j)
    BY <2>1, KeptShown
  <2>4. N' = [j \in files \cup {i} |-> IF j = i THEN name ELSE N[j]]
    BY <1>4, <2>1, <2>3
  <2>5. C' = [j \in files \cup {i} |-> IF j = i THEN <<>> ELSE C[j]]
    BY <1>4, <2>1, <2>2, <2>3
  <2>6. DOMAIN C = files /\ i \in DOMAIN N' \ DOMAIN N
    BY <1>4, <2>1
  <2>7. \E j \in DOMAIN N' \ DOMAIN N :
            /\ N' = [k \in DOMAIN N \cup {j} |-> IF k = j THEN name ELSE N[k]]
            /\ C' = [k \in DOMAIN C \cup {j} |-> IF k = j THEN <<>> ELSE C[k]]
    BY <1>4, <2>4, <2>5, <2>6
  <2>. QED BY <2>7 DEF Table!Create, Table!Extended, Table!Entries, N, C
<1>6. ASSUME NEW name \in Names, Deleted(name, p, q) PROVE Table!Delete(name)
  <2>1. PICK i \in files :
          /\ NameIn(cell, p[Rootdir], i) = name
          /\ \A j \in files : NameIn(cell, p[Rootdir], j) = name => i <= j
          /\ files' = files \ {i}
          /\ FilesKept(cell, p, cell', q, files \ {i})
    BY <1>6 DEF Deleted
  <2> DEFINE T == {j \in DOMAIN N : N[j] = name}
  <2>2. T = {j \in files : NameIn(cell, p[Rootdir], j) = name}
    BY <1>4
  <2>3. files \subseteq Nat
    BY <1>1 DEF Sound, FilesSound, InTable
  <2> HIDE DEF T
  <2>4. i \in T /\ \A j \in T : j \in Nat /\ i <= j
    BY <2>1, <2>2, <2>3
  <2>5. (CHOOSE k \in T : \A j \in T : k <= j) = i
    <3>1. \A k \in T : (\A j \in T : k <= j) => k = i
      BY <2>4
    <3>. QED BY <2>4, <3>1
  <2>6. \A j \in files \ {i} : /\ NameIn(cell', q[Rootdir], j) = NameIn(cell, p[Rootdir], j)
                               /\ ContentAt(cell', q, j) = ContentAt(cell, p, j)
    BY <2>1, KeptShown
  <2>7. N' = [j \in DOMAIN N \ {i} |-> N[j]] /\ C' = [j \in DOMAIN C \ {i} |-> C[j]]
    BY <1>4, <2>1, <2>6
  <2>8. Table!Named(name) = T
    BY DEF Table!Named, Table!Entries, N, T
  <2>9. Table!FirstNamed(name) = i
    BY <2>5, <2>8 DEF Table!FirstNamed
  <2>. QED BY <2>4, <2>7, <2>8, <2>9 DEF Table!Delete, Table!Without, N, C
<1>7. ASSUME NEW h \in files, NEW chunk \in Chunks, Appended(h, chunk, p, q)
      PROVE  Table!Grow(h, chunk)
  <2>1. /\ files' = files
        /\ NameIn(cell', q[Rootdir], h) = NameIn(cell, p[Rootdir], h)
        /\ ContentAt(cell', q, h) = ContentAt(cell, p, h) \o chunk
        /\ FilesKept(cell, p, cell', q, files \ {h})
    BY <1>7 DEF Appended
  <2>2. \A j \in files \ {h} : /\ NameIn(cell', q[Rootdir], j) = NameIn(cell, p[Rootdir], j)
                               /\ ContentAt(cell', q, j) = ContentAt(cell, p, j)
    BY <2>1, KeptShown
  <2>3. N' = N
    BY <1>4, <2>1, <2>2
  <2>4. C' = [C EXCEPT ![h] = C[h] \o chunk]
    <3> DEFINE v == ContentAt(cell, p, h) \o chunk
    <3>1. ContentAt(cell', q, h) = v
      BY <2>1
    <3> HIDE DEF v
    <3>2. C' = [C EXCEPT ![h] = v]
      BY <1>4, <2>1, <2>2, <3>1
    <3>. QED BY <1>4, <3>2 DEF v
  <2>. QED BY <2>3, <2>4 DEF Table!Grow, N, C
<1>8. ASSUME NothingDone(p, q) PROVE UNCHANGED Table!vars
  <2>1. files' = files /\ FilesKept(cell, p, cell', q, files)
    BY <1>8 DEF NothingDone
  <2>2. \A j \in files : /\ NameIn(cell', q[Rootdir], j) = NameIn(cell, p[Rootdir], j)
                         /\ ContentAt(cell', q, j) = ContentAt(cell, p, j)
    BY <2>1, KeptShown
  <2>3. N' = N /\ C' = C
    BY <1>4, <2>1, <2>2
  <2>. QED BY <2>3 DEF Table!vars, N, C
<1>9. files = Table!Entries
  BY <1>4 DEF Table!Entries, N
<1>10. CASE \E name \in Names : Created(name, p, q)
  BY <1>5, <1>10 DEF Table!Next
<1>11. CASE \E name \in Names : Deleted(name, p, q)
  BY <1>6, <1>11 DEF Table!Next
<1>12. CASE \E h \in files, chunk \in Chunks : Appended(h, chunk, p, q)
  BY <1>7, <1>9, <1>12 DEF Table!Next
<1>13. CASE NothingDone(p, q)
  BY <1>8, <1>13
<1>. QED BY <1>2, <1>10, <1>11, <1>12, <1>13 DEF Progress

\* Whatever clusters are shared out, reused and run out, the files show as the
\* table of what was created, deleted and appended; a call that finds the disk
\* full changes nothing that anybody can read.
THEOREM ImageShowsTable == Spec => ImplementsFileTable
<1>1. Init => Table!Init
  BY TableInit
<1>2. TinyFSInv /\ [Next]_vars => [Table!Next]_(Table!vars)
  BY TableStep
<1>. QED BY <1>1, <1>2, PathsFit, PTL DEF Spec, ImplementsFileTable, Table!Spec
=============================================================================
