------------------------------ MODULE ListFacts ------------------------------
(***************************************************************************)
(* Facts that the proofs of several components rest on: natural numbers,   *)
(* and what pushing on and popping from a free list does to its length,    *)
(* its cells and the absence of duplicates.                                *)
(***************************************************************************)
EXTENDS ByteStack, Integers, Sequences, FiniteSets, FiniteSetTheorems,
        WellFoundedInduction, TLAPS

(* Natural numbers. *)

\* The order of the naturals as a set of pairs.
LessThan == {r \in Nat \X Nat : r[1] < r[2]}

LEMMA LessThanMeans == \A m, n \in Nat : <<m, n>> \in LessThan <=> m < n
<1> TAKE m, n \in Nat
<1>1. <<m, n>> \in Nat \X Nat
  OBVIOUS
<1>. QED BY <1>1, Zenon DEF LessThan

\* Strict inclusion of sets of naturals, read off the library's definition.
LEMMA StrictSubset ==
    ASSUME NEW S \in SUBSET Nat, NEW T \in SUBSET Nat, S \subseteq T, S # T
    PROVE  <<S, T>> \in StrictSubsetOrdering(Nat)
<1>1. <<S, T>> \in (SUBSET Nat) \X (SUBSET Nat)
  OBVIOUS
<1>. QED BY <1>1, Zenon DEF StrictSubsetOrdering

\* No infinite descent in the naturals: the initial segments 0..(n-1) of a
\* descending sequence would descend in the finite subsets of Nat.
LEMMA LessThanWellFounded == IsWellFoundedOn(LessThan, Nat)
<1> SUFFICES ASSUME NEW f \in [Nat -> Nat], \A n \in Nat : <<f[n + 1], f[n]>> \in LessThan
             PROVE  FALSE
  BY DEF IsWellFoundedOn
<1> DEFINE g == [n \in Nat |-> 0..(f[n] - 1)]
<1>1. g \in [Nat -> FiniteSubsetsOf(Nat)]
  <2> SUFFICES ASSUME NEW n \in Nat PROVE 0..(f[n] - 1) \in FiniteSubsetsOf(Nat)
    OBVIOUS
  <2>1. f[n] - 1 \in Int
    OBVIOUS
  <2>2. IsFiniteSet(0..(f[n] - 1))
    BY <2>1, FS_Interval
  <2>. QED BY <2>2 DEF FiniteSubsetsOf
<1>2. \A n \in Nat : <<g[n + 1], g[n]>> \in StrictSubsetOrdering(Nat)
  <2> SUFFICES ASSUME NEW n \in Nat
               PROVE  <<g[n + 1], g[n]>> \in StrictSubsetOrdering(Nat)
    OBVIOUS
  <2>1. /\ n + 1 \in Nat
        /\ f[n + 1] \in Nat
        /\ f[n] \in Nat
        /\ f[n + 1] < f[n]
    <3>1. n + 1 \in Nat
      OBVIOUS
    <3>2. f[n + 1] \in Nat /\ f[n] \in Nat
      BY <3>1
    <3>. QED BY <3>1, <3>2, LessThanMeans
  <2>2. g[n + 1] \subseteq g[n]
    BY <2>1
  <2>3. f[n + 1] \in g[n] /\ f[n + 1] \notin g[n + 1]
    BY <2>1
  <2>4. g[n + 1] \in SUBSET Nat /\ g[n] \in SUBSET Nat
    BY <2>1
  <2>. QED BY <2>1, <2>2, <2>3, <2>4, StrictSubset
<1>3. IsWellFoundedOn(StrictSubsetOrdering(Nat), FiniteSubsetsOf(Nat))
  BY FS_StrictSubsetOrderingWellFounded
<1>. QED BY <1>1, <1>2, <1>3 DEF IsWellFoundedOn

\* Every non-empty set of naturals has a least element.
THEOREM LeastNatural ==
    ASSUME NEW T \in SUBSET Nat, T # {}
    PROVE  \E x \in T : \A y \in T : x <= y
<1>1. PICK x \in T : \A y \in T : ~ (<<y, x>> \in LessThan)
  BY LessThanWellFounded, WFMin
<1>2. ASSUME NEW y \in T PROVE x <= y
  <2>1. x \in Nat /\ y \in Nat
    OBVIOUS
  <2>2. ~ (y < x)
    BY <1>1, <2>1, LessThanMeans
  <2>. QED BY <2>1, <2>2
<1>. QED BY <1>2

\* Blocks of equal size: the offset of block i divided by the size is i.
LEMMA BlockOffset ==
    ASSUME NEW i \in Nat, NEW s \in Nat \ {0}
    PROVE  /\ i * s \in Nat
           /\ (i * s) \div s = i
  OBVIOUS

\* Offsets grow with the index.
LEMMA BlockOffsetMonotone ==
    ASSUME NEW i \in Nat, NEW j \in Nat, NEW s \in Nat \ {0}, i < j
    PROVE  i * s < s * j
  OBVIOUS

\* The number of elements of an interval that starts at 0 or at 1.
LEMMA IntervalSize ==
    ASSUME NEW n \in Nat
    PROVE  /\ IsFiniteSet(1..n) /\ Cardinality(1..n) = n
           /\ IsFiniteSet(0..(n - 1)) /\ Cardinality(0..(n - 1)) = n
<1>1. 1 \in Int /\ n \in Int /\ 0 \in Int /\ n - 1 \in Int
  OBVIOUS
<1>2. IsFiniteSet(1..n) /\ Cardinality(1..n) = IF 1 > n THEN 0 ELSE n - 1 + 1
  BY <1>1, FS_Interval
<1>3. /\ IsFiniteSet(0..(n - 1))
      /\ Cardinality(0..(n - 1)) = IF 0 > n - 1 THEN 0 ELSE n - 1 - 0 + 1
  BY <1>1, FS_Interval
<1>. QED BY <1>2, <1>3

-----------------------------------------------------------------------------
(* Recursive functions on 0..n. *)

\* Induction: a set that has 0 and with every number its successor has all.
LEMMA RangeInduction ==
    ASSUME NEW N \in Nat, NEW P, 0 \in P, \A k \in 1..N : k - 1 \in P => k \in P
    PROVE  \A k \in 0..N : k \in P
<1> DEFINE wrong == {k \in 0..N : k \notin P}
<1> SUFFICES ASSUME wrong # {} PROVE FALSE
  OBVIOUS
<1>1. wrong \in SUBSET Nat
  OBVIOUS
<1>2. PICK x \in wrong : \A y \in wrong : x <= y
  <2> HIDE DEF wrong
  <2>. QED BY <1>1, LeastNatural
<1>3. x \in 1..N
  OBVIOUS
<1>4. x - 1 \in 0..N /\ x - 1 \notin wrong
  BY <1>2, <1>3
<1>. QED BY <1>3, <1>4

\* g is s at 0, and its value at k is what F makes of its value at k - 1.
Recurs(g, s, n, F) == /\ g[0] = s
                      /\ \A k \in 1..n : g[k] = F[k][g[k - 1]]

\* g and h start alike, and make every step alike.
StepAlike(g, h, n) == /\ g[0] = h[0]
                      /\ \A k \in 1..n : g[k - 1] = h[k - 1] => g[k] = h[k]

LEMMA SameRecursion ==
    ASSUME NEW N \in Nat, NEW g, NEW h, StepAlike(g, h, N)
    PROVE  \A k \in 0..N : g[k] = h[k]
<1> DEFINE P == {k \in Nat : g[k] = h[k]}
<1>1. 0 \in P /\ \A k \in 1..N : k - 1 \in P => k \in P
  BY DEF StepAlike
<1>2. \A k \in 0..N : k \in P
  <2> HIDE DEF P
  <2>. QED BY <1>1, RangeInduction
<1>. QED BY <1>2

\* What is defined by recursion exists.
LEMMA RecursionExists ==
    ASSUME NEW S, NEW s \in S, NEW N \in Nat, NEW F \in [1..N -> [S -> S]]
    PROVE  \E g \in [0..N -> S] : Recurs(g, s, N, F)
<1> DEFINE P == {n \in Nat : \E g \in [0..n -> S] : Recurs(g, s, n, F)}
<1>1. 0 \in P
  <2>1. [k \in 0..0 |-> s] \in [0..0 -> S] /\ Recurs([k \in 0..0 |-> s], s, 0, F)
    BY DEF Recurs
  <2>. QED BY <2>1
<1>2. ASSUME NEW n \in 1..N, n - 1 \in P PROVE n \in P
  <2>1. PICK g \in [0..(n - 1) -> S] : Recurs(g, s, n - 1, F)
    BY <1>2
  <2> DEFINE v == F[n][g[n - 1]]
             h == [k \in 0..n |-> IF k = n THEN v ELSE g[k]]
  <2>2. n - 1 \in 0..(n - 1) /\ g[n - 1] \in S
    OBVIOUS
  <2>3. v \in S
    BY <2>2
  <2>4. h \in [0..n -> S]
    BY <2>3
  <2>5. Recurs(h, s, n, F)
    <3>1. h[0] = s
      BY <2>1 DEF Recurs
    <3>2. ASSUME NEW k \in 1..n PROVE h[k] = F[k][h[k - 1]]
      <4>1. k - 1 \in 0..n /\ k - 1 # n /\ k \in 0..n
        OBVIOUS
      <4>2. h[k - 1] = g[k - 1]
        BY <4>1
      <4>3. CASE k = n
        BY <4>1, <4>2, <4>3
      <4>4. CASE k # n
        <5>1. k \in 1..(n - 1)
          BY <4>4
        <5>. QED BY <2>1, <4>1, <4>2, <4>4, <5>1 DEF Recurs
      <4>. QED BY <4>3, <4>4
    <3> HIDE DEF h
    <3>. QED BY <3>1, <3>2 DEF Recurs
  <2> HIDE DEF h
  <2>. QED BY <2>4, <2>5
<1>3. N \in P
  <2> HIDE DEF P
  <2>1. \A k \in 0..N : k \in P
    BY <1>1, <1>2, RangeInduction
  <2>. QED BY <2>1
<1>. QED BY <1>3

-----------------------------------------------------------------------------
(* Free lists. *)

\* stack_push keeps the element set and never passes the buffer's size.
LEMMA PushType ==
    ASSUME NEW V, NEW s \in Seq(V), NEW v \in V, NEW size \in Nat, Len(s) <= size
    PROVE  /\ Push(s, v, size) \in Seq(V)
           /\ Len(Push(s, v, size)) <= size
           /\ Len(Push(s, v, size)) >= Len(s)
           /\ CanPush(s, size) => Len(Push(s, v, size)) = Len(s) + 1
           /\ ~ CanPush(s, size) => Len(Push(s, v, size)) = size
  BY DEF Push, CanPush

\* A prefix of a sequence.
LEMMA PrefixOfSeq ==
    ASSUME NEW V, NEW s \in Seq(V), NEW n \in Nat, n <= Len(s)
    PROVE  /\ SubSeq(s, 1, n) \in Seq(V)
           /\ Len(SubSeq(s, 1, n)) = n
           /\ \A k \in 1..n : SubSeq(s, 1, n)[k] = s[k]
  OBVIOUS

\* stack_pop returns a stacked value and drops exactly one cell.
LEMMA PopType ==
    ASSUME NEW V, NEW s \in Seq(V)
    PROVE  /\ Pop(s) \in Seq(V)
           /\ CanPop(s) => /\ Top(s) \in V
                           /\ Len(s) >= 1
                           /\ Len(Pop(s)) = Len(s) - 1
                           /\ \A k \in 1..(Len(s) - 1) : Pop(s)[k] = s[k]
           /\ ~ CanPop(s) => Len(s) = 0
<1>1. CASE CanPop(s)
  <2>1. Len(s) \in Nat /\ Len(s) >= 1
    BY <1>1 DEF CanPop
  <2>2. Pop(s) = SubSeq(s, 1, Len(s) - 1)
    BY <1>1 DEF Pop
  <2>3. /\ Pop(s) \in Seq(V)
        /\ Len(Pop(s)) = Len(s) - 1
        /\ \A k \in 1..(Len(s) - 1) : Pop(s)[k] = s[k]
    <3> DEFINE n == Len(s) - 1
    <3>1. n \in Nat /\ n <= Len(s)
      BY <2>1
    <3> HIDE DEF n
    <3>2. /\ SubSeq(s, 1, n) \in Seq(V)
          /\ Len(SubSeq(s, 1, n)) = n
          /\ \A k \in 1..n : SubSeq(s, 1, n)[k] = s[k]
      BY <3>1, PrefixOfSeq
    <3>. QED BY <2>2, <3>2 DEF n
  <2>4. Top(s) \in V
    BY <2>1 DEF Top
  <2>. QED BY <1>1, <2>1, <2>3, <2>4
<1>2. CASE ~ CanPop(s)
  BY <1>2 DEF CanPop, Pop
<1>. QED BY <1>1, <1>2

\* Pushing a value that is not stacked yet adds it to the cells.
LEMMA PushFresh ==
    ASSUME NEW V, NEW s \in Seq(V), NEW v \in V, NEW size \in Nat,
           CanPush(s, size), NoDuplicates(s), v \notin Cells(s)
    PROVE  /\ NoDuplicates(Push(s, v, size))
           /\ Cells(Push(s, v, size)) = Cells(s) \cup {v}
<1> DEFINE t == Append(s, v)
<1>1. Push(s, v, size) = t
  BY DEF Push
<1>2. /\ Len(t) = Len(s) + 1
      /\ Len(s) \in Nat
      /\ t[Len(s) + 1] = v
      /\ \A k \in 1..Len(s) : t[k] = s[k]
  OBVIOUS
<1>3. NoDuplicates(t)
  BY <1>2 DEF NoDuplicates, Cells
<1>4. Cells(t) = Cells(s) \cup {v}
  <2>1. Cells(t) \subseteq Cells(s) \cup {v}
    <3> SUFFICES ASSUME NEW k \in 1..Len(t) PROVE t[k] \in Cells(s) \cup {v}
      BY DEF Cells
    <3>1. CASE k \in 1..Len(s)
      BY <1>2, <3>1 DEF Cells
    <3>2. CASE k = Len(s) + 1
      BY <1>2, <3>2
    <3>. QED BY <1>2, <3>1, <3>2
  <2>2. Cells(s) \subseteq Cells(t)
    <3> SUFFICES ASSUME NEW k \in 1..Len(s) PROVE s[k] \in Cells(t)
      BY DEF Cells
    <3>. QED BY <1>2 DEF Cells
  <2>3. v \in Cells(t)
    <3>1. Len(s) + 1 \in 1..Len(t)
      BY <1>2
    <3>. QED BY <1>2, <3>1 DEF Cells
  <2>. QED BY <2>1, <2>2, <2>3
<1>. QED BY <1>1, <1>3, <1>4

\* Popping a list without duplicates removes the popped value from its cells.
LEMMA PopFresh ==
    ASSUME NEW V, NEW s \in Seq(V), CanPop(s), NoDuplicates(s)
    PROVE  /\ NoDuplicates(Pop(s))
           /\ Cells(Pop(s)) = Cells(s) \ {Top(s)}
           /\ Top(s) \in Cells(s)
<1> DEFINE n == Len(s)
<1>1. /\ n \in Nat
      /\ n >= 1
      /\ Pop(s) \in Seq(V)
      /\ Len(Pop(s)) = n - 1
      /\ \A k \in 1..(n - 1) : Pop(s)[k] = s[k]
  BY PopType
<1>2. NoDuplicates(Pop(s))
  BY <1>1 DEF NoDuplicates
<1>3. Top(s) = s[n] /\ n \in 1..n
  BY <1>1 DEF Top
<1>4. Top(s) \in Cells(s)
  BY <1>3 DEF Cells
<1>5. \A k \in 1..(n - 1) : s[k] # s[n]
  BY <1>1, <1>3 DEF NoDuplicates
<1>6. Cells(Pop(s)) \subseteq Cells(s) \ {Top(s)}
  <2> SUFFICES ASSUME NEW k \in 1..(n - 1) PROVE Pop(s)[k] \in Cells(s) \ {Top(s)}
    BY <1>1 DEF Cells
  <2>1. k \in 1..n /\ Pop(s)[k] = s[k]
    BY <1>1
  <2>. QED BY <2>1, <1>3, <1>5 DEF Cells
<1>7. Cells(s) \ {Top(s)} \subseteq Cells(Pop(s))
  <2> SUFFICES ASSUME NEW k \in 1..n, s[k] # s[n] PROVE s[k] \in Cells(Pop(s))
    BY <1>3 DEF Cells
  <2>1. k \in 1..(n - 1)
    BY <1>1
  <2>. QED BY <2>1, <1>1 DEF Cells
<1>. QED BY <1>2, <1>4, <1>6, <1>7

\* A list without duplicates that misses a value of a range is not full.
LEMMA RoomLeft ==
    ASSUME NEW n \in Nat, NEW s \in Seq(0..(n - 1)), NoDuplicates(s),
           NEW v \in 0..(n - 1), v \notin Cells(s)
    PROVE  CanPush(s, n)
<1> DEFINE Rest == (0..(n - 1)) \ {v}
<1>1. IsFiniteSet(Rest) /\ Cardinality(Rest) = n - 1
  BY IntervalSize, FS_RemoveElement
<1>2. Len(s) \in Nat
  OBVIOUS
<1>3. s \in [1..Len(s) -> Rest]
  <2>1. \A k \in 1..Len(s) : s[k] \in 0..(n - 1) /\ s[k] # v
    BY DEF Cells
  <2>. QED BY <2>1
<1>4. s \in Injection(1..Len(s), Rest)
  BY <1>3 DEF NoDuplicates, Injection, IsInjective
<1>5. Cardinality(1..Len(s)) = Len(s)
  BY <1>2, IntervalSize
<1>6. Cardinality(1..Len(s)) <= Cardinality(Rest)
  BY <1>1, <1>4, FS_Injection
<1>. QED BY <1>1, <1>2, <1>5, <1>6 DEF CanPush
=============================================================================
