----------------------------- MODULE ShellProofs -----------------------------
(***************************************************************************)
(* Theorems about Shell, for lines of any length, any letters and any      *)
(* typing, zeros and lines too long included: a line that was not overrun  *)
(* is the text typed, and splitting it in place yields the words of that   *)
(* text up to its first zero.                                              *)
(***************************************************************************)
EXTENDS Shell, ListFacts, SequenceTheorems

Chars == Letters \cup {Space}
Lines == [LineCells -> Chars \cup {Nul}]
Past  == LengthAt

-----------------------------------------------------------------------------
(* Strings in the line. *)

LEMMA Sizes ==
    /\ LineSize \in Nat /\ LineSize >= 3 /\ LineSize < Past
    /\ Past \in Nat /\ Past \notin LineCells /\ LineCells = 0..(Past - 1)
    /\ \A i \in LineCells : i \in Nat /\ i < Past
    /\ Space # Nul /\ Nul \notin Chars
<1>1. LineSize \in Nat /\ LineSize >= 3
  BY ShellAssumption
<1>2. /\ Past \in Nat /\ LineSize < Past
      /\ Past \notin LineCells /\ LineCells = 0..(Past - 1)
      /\ \A i \in LineCells : i \in Nat /\ i < Past
  BY <1>1, ShellAssumption DEF LineCells, Past
<1>3. Space # Nul /\ Nul \notin Chars
  BY ShellAssumption, Zenon DEF Chars
<1>. QED BY <1>1, <1>2, <1>3

LEMMA PastEnds ==
    ASSUME NEW m
    PROVE  At(m, Past) = Nul
<1>1. Past \notin LineCells
  BY Sizes
<1>. QED BY <1>1, Zenon DEF At

\* The first place from i on where the cells have what S asks for.
FirstIn(i, S) ==
    CHOOSE j \in i..Past : j \in S /\ \A k \in i..(j - 1) : k \notin S

LEMMA FirstInIs ==
    ASSUME NEW i \in Nat, NEW S, NEW e \in i..Past, e \in S, \A k \in i..(e - 1) : k \notin S
    PROVE  FirstIn(i, S) = e
<1>1. ASSUME NEW j \in i..Past, j \in S, \A k \in i..(j - 1) : k \notin S PROVE j = e
  <2>1. Past \in Nat /\ j \in Nat /\ e \in Nat
    BY Sizes
  <2>2. ~ (j < e)
    <3>1. j < e => j \in i..(e - 1)
      BY <2>1
    <3>. QED BY <1>1, <3>1
  <2>3. ~ (e < j)
    <3>1. e < j => e \in i..(j - 1)
      BY <2>1
    <3>. QED BY <1>1, <3>1
  <2>. QED BY <2>1, <2>2, <2>3
<1>. QED BY <1>1 DEF FirstIn

LEMMA FirstInExists ==
    ASSUME NEW i \in 0..Past, NEW S, Past \in S
    PROVE  /\ FirstIn(i, S) \in i..Past /\ FirstIn(i, S) \in S
           /\ \A k \in i..(FirstIn(i, S) - 1) : k \notin S
<1> DEFINE T == {j \in i..Past : j \in S}
<1>1. Past \in Nat /\ i \in Nat
  BY Sizes
<1>2. T \in SUBSET Nat /\ T # {}
  BY <1>1
<1>3. PICK e \in T : \A j \in T : e <= j
  <2> HIDE DEF T
  <2>. QED BY <1>2, LeastNatural
<1>4. \A k \in i..(e - 1) : k \notin S
  <2> SUFFICES ASSUME NEW k \in i..(e - 1), k \in S PROVE FALSE
    OBVIOUS
  <2>1. k \in T /\ ~ (e <= k)
    BY <1>1, <1>3
  <2>. QED BY <1>3, <2>1
<1>5. FirstIn(i, S) = e
  BY <1>1, <1>3, <1>4, FirstInIs
<1>. QED BY <1>3, <1>4, <1>5

Nuls(m)   == {k \in Nat : At(m, k) = Nul}
Breaks(m) == {k \in Nat : At(m, k) \in {Space, Nul}}
Others(m) == {k \in Nat : At(m, k) # Space}

\* The three ways to walk along the line.
LEMMA Walks ==
    ASSUME NEW m, NEW i \in Nat
    PROVE  /\ EndOfString(m, i) = FirstIn(i, Nuls(m))
           /\ EndOfWord(m, i) = FirstIn(i, Breaks(m))
           /\ SpacesSkipped(m, i) = FirstIn(i, Others(m))
<1>1. \A j \in i..Past : j \in Nat /\ \A k \in i..(j - 1) : k \in Nat
  BY Sizes
<1>2. EndOfString(m, i) = FirstIn(i, Nuls(m))
  BY <1>1 DEF EndOfString, FirstFrom, FirstIn, Nuls, Past
<1>3. EndOfWord(m, i) = FirstIn(i, Breaks(m))
  BY <1>1 DEF EndOfWord, FirstFrom, FirstIn, Breaks, Past
<1>4. SpacesSkipped(m, i) = FirstIn(i, Others(m))
  BY <1>1 DEF SpacesSkipped, FirstFrom, FirstIn, Others, Past
<1>. QED BY <1>2, <1>3, <1>4

-----------------------------------------------------------------------------
(* The text and the line. *)

\* The text is on the line, and ended there.
OnLine(m, t) ==
    /\ m \in Lines
    /\ t \in Seq(Chars)
    /\ Len(t) <= LineSize
    /\ \A i \in 0..(Len(t) - 1) : m[i] = t[i + 1]
    /\ m[Len(t)] = Nul

\* A string that starts at i and is ended at e.
LEMMA StringIs ==
    ASSUME NEW m, NEW i \in Nat, NEW e \in i..LineSize, m[e] = Nul,
           \A k \in i..(e - 1) : m[k] # Nul
    PROVE  EndOfString(m, i) = e
<1>1. e \in i..Past /\ e \in Nat /\ e \in LineCells /\ \A k \in i..(e - 1) : k \in LineCells
  BY Sizes
<1>2. e \in Nuls(m)
  BY <1>1 DEF Nuls, At
<1>3. \A k \in i..(e - 1) : k \notin Nuls(m)
  BY <1>1 DEF Nuls, At
<1>. QED BY <1>1, <1>2, <1>3, FirstInIs, Walks

LEMMA OnLineFacts ==
    ASSUME NEW m, NEW t, OnLine(m, t)
    PROVE  /\ Len(t) \in Nat /\ Len(t) \in 0..LineSize
           /\ \A i \in 0..(Len(t) - 1) : /\ i \in LineCells /\ i + 1 \in 1..Len(t)
                                         /\ m[i] = t[i + 1] /\ m[i] \in Chars /\ m[i] # Nul
           /\ m[Len(t)] = Nul
           /\ EndOfString(m, 0) = Len(t)
<1>1. t \in Seq(Chars) /\ Len(t) <= LineSize /\ Len(t) \in Nat /\ LineSize \in Nat
  BY Sizes DEF OnLine
<1>2. ASSUME NEW i \in 0..(Len(t) - 1)
      PROVE  /\ i \in LineCells /\ i + 1 \in 1..Len(t)
             /\ m[i] = t[i + 1] /\ m[i] \in Chars /\ m[i] # Nul
  <2>1. i \in LineCells /\ i + 1 \in 1..Len(t)
    BY <1>1, Sizes
  <2>2. m[i] = t[i + 1]
    BY DEF OnLine
  <2>. QED BY <1>1, <2>1, <2>2, Sizes
<1>3. m[Len(t)] = Nul
  BY DEF OnLine
<1>4. EndOfString(m, 0) = Len(t)
  <2>1. Len(t) \in 0..LineSize /\ 0 \in Nat
    BY <1>1
  <2>. QED BY <1>2, <1>3, <2>1, StringIs
<1>. QED BY <1>1, <1>2, <1>3, <1>4

LEMMA LineReads ==
    ASSUME NEW m, NEW t, OnLine(m, t)
    PROVE  String(m, 0) = t
<1>1. t \in Seq(Chars) /\ Len(t) \in Nat
  BY OnLineFacts DEF OnLine
<1>2. String(m, 0) = [k \in 1..(Len(t) - 0) |-> m[0 + k - 1]]
  BY OnLineFacts DEF String
<1>3. ASSUME NEW k \in 1..Len(t) PROVE m[0 + k - 1] = t[k]
  <2>1. k - 1 \in 0..(Len(t) - 1) /\ 0 + k - 1 = k - 1 /\ (k - 1) + 1 = k
    BY <1>1
  <2>2. m[k - 1] = t[(k - 1) + 1]
    BY <2>1, OnLineFacts
  <2>. QED BY <2>1, <2>2
<1>4. String(m, 0) = [k \in 1..Len(t) |-> t[k]]
  <2>1. Len(t) - 0 = Len(t)
    BY <1>1
  <2>. QED BY <1>2, <1>3, <2>1
<1>5. t = [k \in 1..Len(t) |-> t[k]]
  BY <1>1
<1>. QED BY <1>4, <1>5

-----------------------------------------------------------------------------
(* Splitting. *)

SplitStep(s) ==
    LET stop  == EndOfWord(s.line, s.at)
        ended == [i \in LineCells |-> IF i = stop THEN Nul ELSE s.line[i]]
    IN  [line |-> ended,
         at   |-> SpacesSkipped(ended, stop + 1),
         argv |-> Append(s.argv, s.at)]

SplitStart(t) == [line |-> t.line, at |-> t.start, argv |-> <<>>]

SplitBy(t, n) ==
    LET split[k \in 0..n] == IF k = 0 THEN SplitStart(t) ELSE SplitStep(split[k - 1])
    IN  split

Splits(g, t, n) ==
    /\ DOMAIN g = 0..n
    /\ g = [k \in 0..n |-> g[k]]
    /\ g[0] = SplitStart(t)
    /\ \A k \in 1..n : g[k] = SplitStep(g[k - 1])

LEMMA SplittingExists ==
    ASSUME NEW t, NEW n \in Nat
    PROVE  \E g : Splits(g, t, n)
<1> DEFINE P == {k \in Nat : \E g : Splits(g, t, k)}
<1>1. 0 \in P
  <2> DEFINE g == [k \in 0..0 |-> SplitStart(t)]
  <2>1. Splits(g, t, 0)
    BY DEF Splits
  <2> HIDE DEF g
  <2>. QED BY <2>1
<1>2. ASSUME NEW k \in 1..n, k - 1 \in P PROVE k \in P
  <2>1. PICK g : Splits(g, t, k - 1)
    BY <1>2
  <2> DEFINE v == SplitStep(g[k - 1])
             h == [j \in 0..k |-> IF j = k THEN v ELSE g[j]]
  <2>2. /\ DOMAIN h = 0..k /\ h = [j \in 0..k |-> h[j]]
        /\ h[k] = v /\ \A j \in 0..(k - 1) : h[j] = g[j]
    <3> HIDE DEF v
    <3>. QED OBVIOUS
  <2> HIDE DEF h
  <2>3. h[0] = SplitStart(t)
    <3>1. 0 \in 0..(k - 1)
      OBVIOUS
    <3>2. g[0] = SplitStart(t)
      BY <2>1 DEF Splits
    <3>. QED BY <2>2, <3>1, <3>2
  <2>4. ASSUME NEW j \in 1..k PROVE h[j] = SplitStep(h[j - 1])
    <3>0. j - 1 \in 0..(k - 1)
      OBVIOUS
    <3>1. h[j - 1] = g[j - 1]
      BY <2>2, <3>0
    <3>2. CASE j = k
      BY <2>2, <3>1, <3>2, Zenon
    <3>3. CASE j # k
      <4>1. j \in 1..(k - 1) /\ j \in 0..(k - 1)
        BY <3>3
      <4>2. g[j] = SplitStep(g[j - 1])
        BY <2>1, <4>1 DEF Splits
      <4>. QED BY <2>2, <3>1, <3>3, <4>1, <4>2
    <3>. QED BY <3>2, <3>3
  <2>5. Splits(h, t, k)
    BY <2>2, <2>3, <2>4 DEF Splits
  <2>. QED BY <2>5
<1>3. n \in P
  <2> HIDE DEF P
  <2>1. \A k \in 0..n : k \in P
    BY <1>1, <1>2, RangeInduction
  <2>. QED BY <2>1
<1>. QED BY <1>3

LEMMA SplitBySplits ==
    ASSUME NEW t, NEW n \in Nat
    PROVE  Splits(SplitBy(t, n), t, n)
<1> DEFINE F(g) == [k \in 0..n |-> IF k = 0 THEN SplitStart(t) ELSE SplitStep(g[k - 1])]
<1>1. PICK g : Splits(g, t, n)
  BY SplittingExists
<1>2. g = F(g)
  <2>1. ASSUME NEW k \in 0..n
        PROVE  g[k] = IF k = 0 THEN SplitStart(t) ELSE SplitStep(g[k - 1])
    <3>1. k # 0 => k \in 1..n
      OBVIOUS
    <3>. QED BY <1>1, <3>1 DEF Splits
  <2>2. g = [k \in 0..n |-> g[k]]
    BY <1>1 DEF Splits
  <2>. QED BY <2>1, <2>2
<1>3. SplitBy(t, n) = CHOOSE h : h = F(h)
  BY DEF SplitBy
<1>4. PICK h : h = SplitBy(t, n)
  OBVIOUS
<1>5. h = F(h)
  BY <1>2, <1>3, <1>4, Zenon
<1>6. /\ DOMAIN h = 0..n
      /\ \A k \in 0..n : h[k] = IF k = 0 THEN SplitStart(t) ELSE SplitStep(h[k - 1])
      /\ h = [k \in 0..n |-> h[k]]
  BY <1>5
<1>7. Splits(h, t, n)
  <2>1. 0 \in 0..n /\ \A k \in 1..n : k \in 0..n /\ k # 0
    OBVIOUS
  <2>. QED BY <1>6, <2>1 DEF Splits
<1>. QED BY <1>4, <1>7

\* Parsing is trimming and then splitting.
LEMMA ParsedIs ==
    ASSUME NEW m
    PROVE  LET t == Trimmed(m)
               n == ArgCount(t)
               s == SplitBy(t, n)[n]
           IN  IF n > MaxArgs THEN Parsed(m) = [line |-> t.line, ok |-> FALSE, argv |-> <<>>]
               ELSE Parsed(m) = [line |-> s.line, ok |-> TRUE, argv |-> s.argv]
  BY Zenon DEF Parsed, SplitBy, SplitStep, SplitStart

LEMMA SplitLines ==
    ASSUME NEW g, NEW t, NEW n \in Nat, Splits(g, t, n), t.line \in Lines
    PROVE  \A k \in 0..n : g[k].line \in Lines
<1> DEFINE P == {k \in 0..n : g[k].line \in Lines}
<1>1. 0 \in P
  <2>1. g[0].line = t.line
    BY DEF Splits, SplitStart
  <2>. QED BY <2>1
<1>2. ASSUME NEW k \in 1..n, k - 1 \in P PROVE k \in P
  <2> DEFINE s == g[k - 1]
  <2>1. s.line \in Lines
    BY <1>2
  <2> HIDE DEF s
  <2>2. SplitStep(s).line = [i \in LineCells |-> IF i = EndOfWord(s.line, s.at) THEN Nul ELSE s.line[i]]
    BY DEF SplitStep
  <2>3. SplitStep(s).line \in Lines
    BY <2>1, <2>2 DEF Lines
  <2>4. g[k] = SplitStep(s)
    BY DEF Splits, s
  <2>. QED BY <2>3, <2>4
<1>3. \A k \in 0..n : k \in P
  <2> HIDE DEF P
  <2>. QED BY <1>1, <1>2, RangeInduction
<1>. QED BY <1>3

LEMMA TrimmedLine ==
    ASSUME NEW m \in Lines
    PROVE  Trimmed(m).line \in Lines
<1> DEFINE start == SpacesSkipped(m, 0)
           stop  == EndOfString(m, start)
<1>1. Trimmed(m).line = [i \in LineCells |->
                           IF i \in start..(stop - 1) /\ \A k \in i..(stop - 1) : m[k] = Space
                           THEN Nul ELSE m[i]]
  BY DEF Trimmed
<1> HIDE DEF start, stop
<1>. QED BY <1>1 DEF Lines

\* Every walk ends behind the cells at the latest.
LEMMA WalksEnd ==
    ASSUME NEW m, NEW i \in 0..Past
    PROVE  /\ EndOfString(m, i) \in i..Past
           /\ EndOfWord(m, i) \in i..Past
           /\ SpacesSkipped(m, i) \in i..Past
<1>1. i \in Nat /\ Past \in Nat /\ At(m, Past) = Nul /\ Space # Nul
  BY Sizes, PastEnds
<1>2. Past \in Nuls(m) /\ Past \in Breaks(m) /\ Past \in Others(m)
  BY <1>1 DEF Nuls, Breaks, Others
<1>. QED BY <1>1, <1>2, FirstInExists, Walks

LEMMA ArgCountType ==
    ASSUME NEW m
    PROVE  LET t == Trimmed(m)
           IN  /\ t.start \in 0..Past
               /\ EndOfString(t.line, t.start) \in t.start..Past
               /\ ArgCount(t) \in Nat \ {0}
<1> DEFINE t == Trimmed(m)
           e == EndOfString(t.line, t.start)
           S == {i \in t.start..(e - 1) : t.line[i] = Space /\ t.line[i - 1] # Space}
<1>1. t.start = SpacesSkipped(m, 0)
  BY DEF Trimmed
<1>2. t.start \in 0..Past
  <2>1. 0 \in 0..Past
    BY Sizes
  <2>. QED BY <1>1, <2>1, WalksEnd
<1>3. e \in t.start..Past
  BY <1>2, WalksEnd
<1>4. ArgCount(t) = 1 + Cardinality(S)
  BY DEF ArgCount
<1>5. Cardinality(S) \in Nat
  <2>1. t.start \in Int /\ e - 1 \in Int
    BY <1>2, <1>3, Sizes
  <2>2. IsFiniteSet(t.start..(e - 1))
    <3> HIDE DEF t, e
    <3>. QED BY <2>1, FS_Interval
  <2>3. S \subseteq t.start..(e - 1)
    OBVIOUS
  <2> HIDE DEF S, e, t
  <2>. QED BY <2>2, <2>3, FS_Subset, FS_CardinalityType
<1> HIDE DEF S
<1>6. ArgCount(t) \in Nat \ {0}
  BY <1>4, <1>5
<1>. QED BY <1>2, <1>3, <1>6

LEMMA ParsedLine ==
    ASSUME NEW m \in Lines
    PROVE  Parsed(m).line \in Lines
<1> DEFINE t == Trimmed(m)
           n == ArgCount(t)
           s == SplitBy(t, n)[n]
<1>1. t.line \in Lines
  BY TrimmedLine
<1>2. CASE n > MaxArgs
  <2>1. Parsed(m) = [line |-> t.line, ok |-> FALSE, argv |-> <<>>]
    BY <1>2, ParsedIs, Zenon
  <2>. QED BY <1>1, <2>1
<1>3. CASE ~ (n > MaxArgs)
  <2>1. Parsed(m) = [line |-> s.line, ok |-> TRUE, argv |-> s.argv]
    BY <1>3, ParsedIs, Zenon
  <2>2. n \in Nat
    BY ArgCountType
  <2>3. s.line \in Lines
    <3> HIDE DEF t, n
    <3>1. n \in 0..n /\ Splits(SplitBy(t, n), t, n)
      BY <2>2, SplitBySplits
    <3>. QED BY <1>1, <2>2, <3>1, SplitLines
  <2>. QED BY <2>1, <2>3
<1>. QED BY <1>2, <1>3

-----------------------------------------------------------------------------
(* The inductive invariant: unless the line was overrun, the text is on it, *)
(* and ended there.                                                         *)

\* Like OnLine, of a text that may have zeros in it.
HasText(m, u) ==
    /\ m \in Lines
    /\ u \in Seq(Chars \cup {Nul})
    /\ Len(u) <= LineSize
    /\ \A i \in 0..(Len(u) - 1) : m[i] = u[i + 1]
    /\ m[Len(u)] = Nul

\* What is seen of a text is its part before the first zero.
LEMMA SeenIs ==
    ASSUME NEW u \in Seq(Chars \cup {Nul})
    PROVE  \E n \in 0..Len(u) : /\ Seen(u) = SubSeq(u, 1, n)
                                /\ n = Len(u) \/ u[n + 1] = Nul
                                /\ \A i \in 1..n : u[i] # Nul
<1> DEFINE Stops(n) == n = Len(u) \/ u[n + 1] = Nul
           T == {n \in 0..Len(u) : Stops(n)}
           Shown(n) == Stops(n) /\ \A i \in 1..n : u[i] # Nul
<1>1. Len(u) \in Nat
  OBVIOUS
<1>2. T \in SUBSET Nat /\ T # {}
  <2>1. Len(u) \in 0..Len(u)
    BY <1>1
  <2>2. Len(u) \in T
    BY <2>1
  <2>. QED BY <1>1, <2>2
<1>3. PICK n \in T : \A j \in T : n <= j
  <2> HIDE DEF T
  <2>. QED BY <1>2, LeastNatural
<1>4. ASSUME NEW i \in 1..n, u[i] = Nul PROVE FALSE
  <2>1. i - 1 \in 0..Len(u) /\ (i - 1) + 1 = i /\ ~ (n <= i - 1)
    BY <1>1, <1>3
  <2>2. i - 1 \in T
    BY <1>4, <2>1
  <2>. QED BY <1>3, <2>1, <2>2
<1>5. n \in 0..Len(u) /\ Shown(n)
  BY <1>3, <1>4
<1>6. Seen(u) = SubSeq(u, 1, CHOOSE k \in 0..Len(u) : Shown(k))
  BY Zenon DEF Seen
<1> HIDE DEF Shown
<1>7. PICK k \in 0..Len(u) : k = (CHOOSE j \in 0..Len(u) : Shown(j)) /\ Shown(k)
  BY <1>5, Zenon
<1>. QED BY <1>6, <1>7 DEF Shown

\* The part that is seen is on the line.
LEMMA SeenOnLine ==
    ASSUME NEW m, NEW u, HasText(m, u)
    PROVE  OnLine(m, Seen(u))
<1>1. /\ m \in Lines /\ u \in Seq(Chars \cup {Nul}) /\ Len(u) \in Nat /\ Len(u) <= LineSize
      /\ LineSize \in Nat
  BY Sizes DEF HasText
<1>2. PICK n \in 0..Len(u) : /\ Seen(u) = SubSeq(u, 1, n)
                             /\ n = Len(u) \/ u[n + 1] = Nul
                             /\ \A i \in 1..n : u[i] # Nul
  BY <1>1, SeenIs
<1> DEFINE t == Seen(u)
<1>3. Len(t) = n /\ \A i \in 1..n : t[i] = u[i] /\ u[i] \in Chars
  BY <1>1, <1>2
<1>4. t \in Seq(Chars)
  <2>1. t = [i \in 1..n |-> u[i]]
    BY <1>1, <1>2
  <2> HIDE DEF t
  <2>. QED BY <1>2, <1>3, <2>1
<1> HIDE DEF t
<1>5. \A i \in 0..(n - 1) : m[i] = t[i + 1]
  <2> SUFFICES ASSUME NEW i \in 0..(n - 1) PROVE m[i] = t[i + 1]
    OBVIOUS
  <2>1. i \in 0..(Len(u) - 1) /\ i + 1 \in 1..n
    BY <1>1, <1>2
  <2>. QED BY <1>3, <2>1 DEF HasText
<1>6. m[n] = Nul
  <2>1. CASE n = Len(u)
    BY <2>1 DEF HasText
  <2>2. CASE n # Len(u)
    <3>1. n \in 0..(Len(u) - 1)
      BY <1>1, <2>2
    <3>. QED BY <1>2, <2>2, <3>1 DEF HasText
  <2>. QED BY <2>1, <2>2
<1>7. OnLine(m, t)
  BY <1>1, <1>2, <1>3, <1>4, <1>5, <1>6 DEF OnLine
<1>. QED BY <1>7 DEF t

TextInv ==
    /\ line \in Lines
    /\ len \in 0..(LengthAt - 1)
    /\ text \in Seq(Chars \cup {Nul})
    /\ overrun \in BOOLEAN
    /\ ~overrun => len = Len(text) /\ HasText(line, text)

ShellInv ==
    /\ previous \in {Acknowledge} \cup {Down(k) : k \in Keys} \cup {Up(k) : k \in Keys}
    /\ TextInv

LEMMA EmptyHasText ==
    ASSUME NEW m \in Lines, m[0] = Nul
    PROVE  HasText(m, <<>>) /\ Len(<<>>) = 0
<1>1. <<>> \in Seq(Chars \cup {Nul}) /\ Len(<<>>) = 0 /\ 0 <= LineSize
  BY Sizes
<1>2. \A i \in 0..(Len(<<>>) - 1) : FALSE
  BY <1>1
<1>. QED BY <1>1, <1>2 DEF HasText

LEMMA EnterKeepsText ==
    ASSUME TextInv, OnEnter
    PROVE  TextInv'
<1> DEFINE m == Parsed(line).line
<1>1. m \in Lines
  BY ParsedLine DEF TextInv
<1>2. line' = [m EXCEPT ![0] = Nul] /\ text' = <<>> /\ len' = 0 /\ overrun' = FALSE
  BY DEF OnEnter, NewLine
<1> HIDE DEF m
<1>3. 0 \in LineCells /\ 0 \in 0..(LengthAt - 1)
  BY Sizes DEF Past
<1>4. line' \in Lines /\ line'[0] = Nul
  BY <1>1, <1>2, <1>3 DEF Lines
<1>5. HasText(line', <<>>)
  BY <1>4, EmptyHasText
<1>6. text' \in Seq(Chars \cup {Nul}) /\ len' = Len(text')
  BY <1>2
<1>. QED BY <1>2, <1>3, <1>4, <1>5, <1>6 DEF TextInv

\* Deleting on a line that was not overrun takes the last character off.
LEMMA DeleteText ==
    ASSUME TextInv, ~overrun, len > 0, OnDelete
    PROVE  text' \in Seq(Chars \cup {Nul}) /\ len' = Len(text') /\ HasText(line', text')
<1>1. /\ text \in Seq(Chars \cup {Nul}) /\ len \in Nat /\ len = Len(text) /\ len <= LineSize
      /\ LineSize \in Nat /\ line \in Lines /\ HasText(line, text)
  BY Sizes DEF TextInv, HasText
<1>2. /\ len' = len - 1
      /\ line' = [line EXCEPT ![len - 1] = Nul]
      /\ text' = SubSeq(text, 1, len - 1)
  BY <1>1 DEF OnDelete
<1>3. len - 1 \in LineCells
  BY <1>1, Sizes
<1>4. line' \in Lines /\ line'[len - 1] = Nul
  BY <1>1, <1>2, <1>3 DEF Lines
<1>5. /\ text' \in Seq(Chars \cup {Nul}) /\ Len(text') = len - 1
      /\ \A i \in 1..(len - 1) : text'[i] = text[i]
  BY <1>1, <1>2
<1>6. ASSUME NEW i \in 0..(Len(text') - 1) PROVE line'[i] = text'[i + 1]
  <2>1. i \in 0..(Len(text) - 1) /\ i # len - 1 /\ i + 1 \in 1..(len - 1) /\ i \in LineCells
    BY <1>1, <1>5, Sizes
  <2>2. line[i] = text[i + 1]
    BY <1>1, <2>1 DEF HasText
  <2>3. line'[i] = line[i]
    BY <1>1, <1>2, <2>1 DEF Lines
  <2>. QED BY <1>5, <2>1, <2>2, <2>3
<1>. QED BY <1>1, <1>2, <1>4, <1>5, <1>6 DEF HasText

LEMMA DeleteKeepsText ==
    ASSUME TextInv, OnDelete
    PROVE  TextInv'
<1>1. CASE ~ (len > 0)
  BY <1>1 DEF OnDelete, TextInv
<1>2. CASE len > 0
  <2>1. len \in 0..(LengthAt - 1) /\ LengthAt \in Nat /\ line \in Lines
    BY Sizes DEF TextInv, Past
  <2>2. len' = len - 1 /\ line' = [line EXCEPT ![len - 1] = Nul] /\ overrun' = overrun
    BY <1>2 DEF OnDelete
  <2>3. len' \in 0..(LengthAt - 1)
    BY <1>2, <2>1, <2>2
  <2>4. line' \in Lines
    BY <2>1, <2>2 DEF Lines
  <2>5. CASE overrun
    <3>1. text' = text
      BY <1>2, <2>5 DEF OnDelete
    <3>. QED BY <2>2, <2>3, <2>4, <2>5, <3>1 DEF TextInv
  <2>6. CASE ~overrun
    BY <1>2, <2>2, <2>3, <2>4, <2>6, DeleteText DEF TextInv
  <2>. QED BY <2>5, <2>6
<1>. QED BY <1>1, <1>2

\* A character on a line that is not full yet lands behind the text.
LEMMA CharOnTextLine ==
    ASSUME TextInv, ~overrun, len < LineSize, NEW k \in Chars \cup {Nul}, OnChar(k)
    PROVE  /\ overrun' = FALSE /\ text' \in Seq(Chars \cup {Nul})
           /\ len' = Len(text') /\ HasText(line', text')
<1>1. /\ text \in Seq(Chars \cup {Nul}) /\ len \in Nat /\ len = Len(text) /\ LineSize \in Nat
      /\ LengthAt \in Nat /\ LineSize < LengthAt /\ line \in Lines /\ HasText(line, text)
  BY Sizes DEF TextInv, Past
<1>2. overrun' = FALSE /\ len' = len + 1 /\ text' = Append(text, k)
  <2>1. ~ (len >= LineSize) /\ len + 1 # LengthAt
    BY <1>1
  <2>. QED BY <2>1 DEF OnChar, CharOnText
<1>3. len \in LineCells /\ len + 1 \in LineCells /\ LineSize \in LineCells
  BY <1>1, Sizes
<1>4. line' = [i \in LineCells |->
                 IF i \in {len + 1, LineSize} THEN Nul ELSE IF i = len THEN k ELSE line[i]]
  BY DEF OnChar
<1>5. line' \in Lines
  BY <1>1, <1>4 DEF Lines
<1>6. /\ text' \in Seq(Chars \cup {Nul}) /\ Len(text') = len + 1
      /\ text'[len + 1] = k
      /\ \A i \in 1..len : text'[i] = text[i]
  BY <1>1, <1>2
<1>7. ASSUME NEW i \in 0..(Len(text') - 1) PROVE line'[i] = text'[i + 1]
  <2>1. /\ i \in LineCells /\ i # LineSize /\ i # len + 1 /\ i \in Nat
        /\ i # len => i \in 0..(Len(text) - 1) /\ i + 1 \in 1..len
    BY <1>1, <1>6, Sizes
  <2>2. CASE i = len
    BY <1>4, <1>6, <2>1, <2>2
  <2>3. CASE i # len
    <3>1. line[i] = text[i + 1]
      BY <1>1, <2>1, <2>3 DEF HasText
    <3>2. line'[i] = line[i] /\ text'[i + 1] = text[i + 1]
      BY <1>4, <1>6, <2>1, <2>3
    <3>. QED BY <3>1, <3>2
  <2>. QED BY <2>2, <2>3
<1>8. line'[Len(text')] = Nul
  BY <1>3, <1>4, <1>6
<1>9. Len(text') <= LineSize /\ len' = Len(text')
  BY <1>1, <1>2, <1>6
<1>. QED BY <1>2, <1>5, <1>6, <1>7, <1>8, <1>9 DEF HasText

\* On a full line the text is given up; the length stays between the line and itself.
LEMMA CharKeepsText ==
    ASSUME TextInv, NEW k \in Chars \cup {Nul}, OnChar(k)
    PROVE  TextInv'
<1>1. /\ len \in 0..(LengthAt - 1) /\ LengthAt \in Nat /\ LineSize \in Nat /\ line \in Lines
      /\ LineSize < LengthAt
  BY Sizes DEF TextInv, Past
<1>2. line' \in Lines
  BY <1>1 DEF OnChar, Lines
<1>3. len' \in 0..(LengthAt - 1)
  BY <1>1 DEF OnChar
<1>4. CASE ~overrun /\ len < LineSize
  BY <1>2, <1>3, <1>4, CharOnTextLine DEF TextInv
<1>5. CASE overrun \/ len >= LineSize
  <2>1. overrun' = TRUE /\ text' = <<>>
    BY <1>5 DEF OnChar, CharOnText
  <2>. QED BY <1>2, <1>3, <2>1 DEF TextInv
<1>. QED BY <1>1, <1>4, <1>5

LEMMA InputKeepsText ==
    ASSUME TextInv, NEW k \in Bytes, OnInput(k)
    PROVE  TextInv'
<1>1. CASE OnEnter
  BY <1>1, EnterKeepsText
<1>2. CASE OnDelete
  BY <1>2, DeleteKeepsText
<1>3. CASE k \notin {Enter, Delete} /\ OnChar(k)
  <2>1. k \in Chars \cup {Nul}
    BY <1>3 DEF Bytes, Keys, Chars
  <2>. QED BY <1>3, <2>1, CharKeepsText
<1>. QED BY <1>1, <1>2, <1>3 DEF OnInput

LEMMA KeyboardKeeps ==
    ASSUME ShellInv, NEW code \in {Acknowledge} \cup {Down(k) : k \in Keys} \cup {Up(k) : k \in Keys},
           KeyboardPoll(code)
    PROVE  ShellInv'
<1>1. CASE UNCHANGED svars
  BY <1>1 DEF svars, ShellInv, TextInv
<1>2. CASE /\ code # Acknowledge /\ previous' = code
           /\ IF code # previous /\ code[1] = "down"
              THEN OnInput(code[2])
              ELSE UNCHANGED <<line, len, text, overrun, command>>
  <2>1. CASE code # previous /\ code[1] = "down"
    <3>1. code[2] \in Bytes
      BY <1>2, <2>1 DEF Down, Up, Acknowledge, Bytes
    <3>2. TextInv'
      BY <1>2, <2>1, <3>1, InputKeepsText DEF ShellInv
    <3>. QED BY <1>2, <3>2 DEF ShellInv
  <2>2. CASE ~ (code # previous /\ code[1] = "down")
    BY <1>2, <2>2 DEF ShellInv, TextInv
  <2>. QED BY <2>1, <2>2
<1>. QED BY <1>1, <1>2 DEF KeyboardPoll

LEMMA ShellInvNext == ShellInv /\ [Next]_svars => ShellInv'
<1> SUFFICES ASSUME ShellInv, [Next]_svars PROVE ShellInv'
  OBVIOUS
<1>1. ASSUME NEW k \in Keys, KeyboardPoll(Down(k)) PROVE ShellInv'
  BY <1>1, KeyboardKeeps
<1>2. ASSUME NEW k \in Bytes, TtyPoll(k) PROVE ShellInv'
  BY <1>2, InputKeepsText DEF ShellInv, TtyPoll
<1>3. ASSUME NEW k \in Released, KeyboardPoll(Up(k)) PROVE ShellInv'
  <2>1. k \in Keys
    BY ShellAssumption DEF Keys
  <2>. QED BY <1>3, <2>1, KeyboardKeeps
<1>4. CASE KeyboardPoll(Acknowledge)
  BY <1>4, KeyboardKeeps
<1>5. CASE UNCHANGED svars
  BY <1>5 DEF svars, ShellInv, TextInv
<1>. QED BY <1>1, <1>2, <1>3, <1>4, <1>5 DEF Next

LEMMA ShellInvInit == Init => ShellInv
<1> SUFFICES ASSUME Init PROVE ShellInv
  OBVIOUS
<1>1. 0 \in LineCells /\ 0 \in 0..(LengthAt - 1)
  BY Sizes DEF Past
<1>2. line \in Lines /\ line[0] = Nul
  BY <1>1 DEF Init, Lines
<1>3. HasText(line, text) /\ len = Len(text) /\ text \in Seq(Chars \cup {Nul})
  BY <1>2, EmptyHasText DEF Init
<1>4. TextInv
  BY <1>1, <1>2, <1>3 DEF Init, TextInv
<1>. QED BY <1>4 DEF Init, ShellInv

LEMMA ShellInvAlways == Spec => []ShellInv
BY ShellInvInit, ShellInvNext, PTL DEF Spec

\* Whatever is typed on the keyboard and sent over the serial line, zeros and
\* characters on a full line included, what is written stays in the line and the two
\* cells behind it, and input_len in front of itself: an overrun sets it to zero.
THEOREM ShellTypeCorrect == Spec => []TypeOK
<1>1. ShellInv => TypeOK
  <2>1. Chars \cup {Nul} = Letters \cup {Space, Nul}
    BY Zenon DEF Chars
  <2>. QED BY <2>1 DEF ShellInv, TextInv, TypeOK, Lines
<1>. QED BY <1>1, ShellInvAlways, PTL

\* As long as no character was typed on a full line since the last Enter, the line
\* holds the text up to its first zero: nothing of an earlier line, overrun or
\* not, comes back.
THEOREM LineShowsText == Spec => []LineIsText
<1>1. ShellInv => LineIsText
  BY SeenOnLine, LineReads DEF ShellInv, TextInv, LineIsText
<1>. QED BY <1>1, ShellInvAlways, PTL

-----------------------------------------------------------------------------
(* Ranks: the place of a member in a set of naturals. *)

Below(S, x) == {j \in S : j < x}
Rank(S, x)  == Cardinality(Below(S, x))

\* A finite set of naturals; the text's starts and ends of words are two.
Places(S) == S \in SUBSET Nat /\ IsFiniteSet(S)

LEMMA RankType ==
    ASSUME NEW S, Places(S), NEW x
    PROVE  IsFiniteSet(Below(S, x)) /\ Rank(S, x) \in Nat
<1>1. Below(S, x) \subseteq S
  BY DEF Below
<1>. QED BY <1>1, FS_Subset, FS_CardinalityType DEF Rank, Places

\* Nothing between: the rank stays; a member between: it grows by one.
LEMMA RankSame ==
    ASSUME NEW S, Places(S), NEW x \in Nat, NEW y \in Nat, x <= y,
           \A j \in S : j < x \/ j >= y
    PROVE  Rank(S, y) = Rank(S, x)
<1>1. \A j \in S : j \in Nat
  BY DEF Places
<1>2. \A j \in S : j < y <=> j < x
  BY <1>1
<1>3. Below(S, y) = Below(S, x)
  BY <1>2, Zenon DEF Below
<1>. QED BY <1>3 DEF Rank

LEMMA RankNext ==
    ASSUME NEW S, Places(S), NEW x \in S, NEW y \in Nat, x < y,
           \A j \in S : j <= x \/ j >= y
    PROVE  Rank(S, y) = Rank(S, x) + 1
<1>1. x \in Nat /\ \A j \in S : j \in Nat
  BY DEF Places
<1>2. (\A j \in S : j < y <=> j < x \/ j = x) /\ ~ (x < x)
  BY <1>1
<1>3. Below(S, y) = Below(S, x) \cup {x} /\ x \notin Below(S, x)
  BY <1>2, Zenon DEF Below
<1>. QED BY <1>3, RankType, FS_AddElement DEF Rank

LEMMA RankGrows ==
    ASSUME NEW S, Places(S), NEW x \in S, NEW y \in S, x < y
    PROVE  Rank(S, x) < Rank(S, y)
<1>1. x \in Nat /\ y \in Nat /\ \A j \in S : j \in Nat
  BY DEF Places
<1> DEFINE A == Below(S, x)
           B == Below(S, x) \cup {x}
           C == Below(S, y)
<1>2. B \subseteq C /\ x \notin A
  <2>1. (\A j \in S : j < x => j < y) /\ ~ (x < x)
    BY <1>1
  <2>. QED BY <2>1, Zenon DEF Below
<1>3. Cardinality(B) = Rank(S, x) + 1
  BY <1>2, RankType, FS_AddElement DEF Rank
<1>4. Cardinality(B) <= Cardinality(C) /\ Cardinality(B) \in Nat
  BY <1>2, RankType, FS_Subset, FS_CardinalityType
<1>. QED BY <1>3, <1>4, RankType DEF Rank

LEMMA RankUnique ==
    ASSUME NEW S, Places(S), NEW x \in S, NEW y \in S, Rank(S, x) = Rank(S, y)
    PROVE  x = y
<1>1. x \in Nat /\ y \in Nat
  BY DEF Places
<1>2. ~ (x < y) /\ ~ (y < x)
  BY RankGrows, RankType
<1>. QED BY <1>1, <1>2

LEMMA RankLast ==
    ASSUME NEW S, Places(S), NEW z \in S, \A j \in S : j <= z
    PROVE  Cardinality(S) = Rank(S, z) + 1
<1>1. z \in Nat /\ \A j \in S : j \in Nat
  BY DEF Places
<1>2. Below(S, z + 1) = S
  <2>1. \A j \in S : j < z + 1
    BY <1>1
  <2>. QED BY <2>1, Zenon DEF Below
<1>3. Rank(S, z + 1) = Rank(S, z) + 1
  <2>1. z + 1 \in Nat /\ z < z + 1
    BY <1>1
  <2>. QED BY <2>1, RankNext
<1>. QED BY <1>2, <1>3 DEF Rank

\* The member of a rank.
Nth(S, n) == CHOOSE i \in S : Cardinality({j \in S : j < i}) = n - 1

LEMMA NthIs ==
    ASSUME NEW S, Places(S), NEW x \in S, NEW n, Rank(S, x) = n - 1
    PROVE  Nth(S, n) = x
<1>1. ASSUME NEW y \in S, Rank(S, y) = n - 1 PROVE y = x
  BY <1>1, RankUnique
<1>. QED BY <1>1 DEF Nth, Rank, Below

-----------------------------------------------------------------------------
(* The words of a text. *)

Starts(t) == {i \in 1..Len(t) : t[i] # Space /\ (i = 1 \/ t[i - 1] = Space)}
Ends(t)   == {i \in 1..Len(t) : t[i] # Space /\ (i = Len(t) \/ t[i + 1] = Space)}

LEMMA WordsAre ==
    ASSUME NEW t
    PROVE  Words(t) = [n \in 1..Cardinality(Starts(t)) |->
                          SubSeq(t, Nth(Starts(t), n), Nth(Ends(t), n))]
  BY Zenon DEF Words, Starts, Ends, Nth

LEMMA PlacesOfWords ==
    ASSUME NEW t \in Seq(Chars)
    PROVE  Places(Starts(t)) /\ Places(Ends(t))
<1>1. Len(t) \in Nat
  OBVIOUS
<1>2. IsFiniteSet(1..Len(t)) /\ 1..Len(t) \subseteq Nat
  BY <1>1, FS_Interval
<1>3. Starts(t) \subseteq 1..Len(t) /\ Ends(t) \subseteq 1..Len(t)
  BY DEF Starts, Ends
<1>. QED BY <1>2, <1>3, FS_Subset DEF Places

\* The word that goes on at x ends somewhere, and no word ends before.
LEMMA WordEnds ==
    ASSUME NEW t \in Seq(Chars), NEW x \in 1..Len(t), t[x] # Space
    PROVE  \E e \in Ends(t) : /\ x <= e
                              /\ \A c \in x..e : t[c] # Space
                              /\ \A j \in Ends(t) : j < x \/ j >= e
<1> DEFINE L == Len(t)
           T == {c \in x..(L + 1) : c = L + 1 \/ t[c] = Space}
<1>1. L \in Nat /\ x \in Nat
  OBVIOUS
<1>2. T \in SUBSET Nat /\ L + 1 \in T
  BY <1>1
<1>3. PICK c \in T : \A j \in T : c <= j
  <2> HIDE DEF T
  <2>. QED BY <1>2, LeastNatural
<1>4. \A j \in x..(c - 1) : t[j] # Space
  <2> SUFFICES ASSUME NEW j \in x..(c - 1), t[j] = Space PROVE FALSE
    OBVIOUS
  <2>1. j \in T /\ ~ (c <= j)
    BY <1>1, <1>3
  <2>. QED BY <1>3, <2>1
<1>5. c # x /\ c - 1 \in x..L /\ c \in Nat
  BY <1>1, <1>3
<1>6. c - 1 \in Ends(t)
  <2>1. t[c - 1] # Space /\ c - 1 \in 1..L
    BY <1>1, <1>4, <1>5
  <2>2. c - 1 = L \/ t[(c - 1) + 1] = Space
    BY <1>1, <1>3, <1>5
  <2>. QED BY <2>1, <2>2 DEF Ends
<1>7. ASSUME NEW j \in Ends(t), ~ (j < x), ~ (j >= c - 1) PROVE FALSE
  <2>1. j \in 1..L /\ (j = L \/ t[j + 1] = Space)
    BY DEF Ends
  <2>2. j + 1 \in x..(c - 1) /\ j # L
    BY <1>1, <1>5, <1>7, <2>1
  <2>. QED BY <1>4, <2>1, <2>2
<1>. QED BY <1>4, <1>5, <1>6, <1>7

\* Behind a space, the next word starts somewhere.
LEMMA WordStarts ==
    ASSUME NEW t \in Seq(Chars), NEW x \in 1..Len(t), NEW y \in x..Len(t),
           t[x] = Space, t[y] # Space
    PROVE  \E b \in Starts(t) : x < b /\ b <= y /\ \A c \in x..(b - 1) : t[c] = Space
<1> DEFINE T == {c \in x..y : t[c] # Space}
<1>1. Len(t) \in Nat /\ x \in Nat /\ y \in Nat
  OBVIOUS
<1>2. T \in SUBSET Nat /\ y \in T
  BY <1>1
<1>3. PICK b \in T : \A j \in T : b <= j
  <2> HIDE DEF T
  <2>. QED BY <1>2, LeastNatural
<1>4. \A c \in x..(b - 1) : t[c] = Space
  <2> SUFFICES ASSUME NEW c \in x..(b - 1), t[c] # Space PROVE FALSE
    OBVIOUS
  <2>1. c \in T /\ ~ (b <= c)
    BY <1>1, <1>3
  <2>. QED BY <1>3, <2>1
<1>5. b # x /\ b \in x..y /\ b - 1 \in x..(b - 1) /\ b \in 1..Len(t)
  BY <1>1, <1>3
<1>6. b \in Starts(t)
  BY <1>3, <1>4, <1>5 DEF Starts
<1>. QED BY <1>1, <1>4, <1>5, <1>6

\* A text is spaces from somewhere on; what is before them ends the last word.
LEMMA LastWordEnds ==
    ASSUME NEW t \in Seq(Chars)
    PROVE  \E z \in 0..Len(t) : /\ \A i \in (z + 1)..Len(t) : t[i] = Space
                                /\ z # 0 => z \in Ends(t)
                                /\ \A j \in Ends(t) : j <= z
<1> DEFINE T == {y \in 0..Len(t) : \A i \in (y + 1)..Len(t) : t[i] = Space}
<1>1. Len(t) \in Nat
  OBVIOUS
<1>2. T \in SUBSET Nat /\ Len(t) \in T
  BY <1>1
<1>3. PICK z \in T : \A j \in T : z <= j
  <2> HIDE DEF T
  <2>. QED BY <1>2, LeastNatural
<1>4. z \in 0..Len(t) /\ z \in Nat
  BY <1>3
<1>5. z # 0 => z \in Ends(t)
  <2> SUFFICES ASSUME z # 0 PROVE z \in Ends(t)
    OBVIOUS
  <2>1. z - 1 \in 0..Len(t) /\ z \in 1..Len(t) /\ ~ (z <= z - 1)
    BY <1>1, <1>4
  <2>2. PICK i \in z..Len(t) : t[i] # Space
    BY <1>3, <2>1
  <2>3. i = z
    BY <1>1, <1>3, <1>4, <2>2
  <2>4. z = Len(t) \/ t[z + 1] = Space
    BY <1>1, <1>3, <1>4
  <2>. QED BY <2>1, <2>2, <2>3, <2>4 DEF Ends
<1>6. ASSUME NEW j \in Ends(t), ~ (j <= z) PROVE FALSE
  <2>1. j \in 1..Len(t) /\ t[j] # Space
    BY DEF Ends
  <2>2. j \in (z + 1)..Len(t)
    BY <1>1, <1>4, <1>6, <2>1
  <2>. QED BY <1>3, <2>1, <2>2
<1>. QED BY <1>3, <1>4, <1>5, <1>6

-----------------------------------------------------------------------------
(* The loop that splits: after k rounds the first k words are ended and     *)
(* pointed to, and the line is as it was behind them.                       *)

\* The n-th word of the text starts at cell p.
WordAt(t, p, n) ==
    /\ p + 1 \in Starts(t) /\ Rank(Starts(t), p + 1) = n - 1
    /\ \E e \in Ends(t) : /\ Rank(Ends(t), e) = n - 1 /\ p < e
                          /\ \A c \in (p + 1)..e : t[c] # Space

Ended(t, z, k, i) == i = z \/ (i \in Ends(t) /\ Rank(Ends(t), i) < k)

LineSplit(m, t, z, k) == \A i \in 0..z : m[i] = IF Ended(t, z, k, i) THEN Nul ELSE t[i + 1]

\* The word to be split off next starts at cell p.
NextAt(t, z, k, p) ==
    /\ p \in 0..(z - 1) /\ p + 1 \in Starts(t)
    /\ Rank(Starts(t), p + 1) = k /\ Rank(Ends(t), p + 1) = k

SplitAt(s, t, z, k) ==
    /\ LineSplit(s.line, t, z, k)
    /\ s.argv \in Seq(Nat) /\ Len(s.argv) = k
    /\ \A n \in 1..k : WordAt(t, s.argv[n], n)
    /\ k < Cardinality(Ends(t)) => NextAt(t, z, k, s.at)
    /\ k = Cardinality(Ends(t)) => Cardinality(Starts(t)) = k

\* z ends the last word of the text.
LastEnd(t, z) ==
    /\ z \in Ends(t)
    /\ \A j \in Ends(t) : j <= z
    /\ \A i \in (z + 1)..Len(t) : t[i] = Space

\* e ends the word that starts at cell p.
EndsWord(t, p, e) ==
    /\ e \in Ends(t) /\ p < e
    /\ \A c \in (p + 1)..e : t[c] # Space
    /\ \A j \in Ends(t) : j < p + 1 \/ j >= e

LEMMA LastEndFacts ==
    ASSUME NEW t \in Seq(Chars), Len(t) <= LineSize, NEW z, LastEnd(t, z)
    PROVE  /\ z \in Nat /\ z \in 1..Len(t) /\ t[z] # Space
           /\ Len(t) \in Nat /\ LineSize \in Nat
           /\ \A i \in 0..z : i \in LineCells /\ i \in Nat
           /\ \A i \in 0..(z - 1) : i + 1 \in 1..Len(t) /\ t[i + 1] \in Chars /\ t[i + 1] # Nul
<1>1. Len(t) \in Nat /\ LineSize \in Nat
  BY Sizes
<1>2. z \in 1..Len(t) /\ t[z] # Space
  BY DEF LastEnd, Ends
<1>3. \A i \in 0..z : i \in LineCells /\ i \in Nat
  BY <1>1, <1>2, Sizes
<1>4. \A i \in 0..(z - 1) : i + 1 \in 1..Len(t) /\ t[i + 1] \in Chars
  BY <1>1, <1>2
<1>5. \A i \in 0..(z - 1) : t[i + 1] # Nul
  BY <1>4, Sizes
<1>. QED BY <1>1, <1>2, <1>3, <1>4, <1>5

\* A cell whose character belongs to no space is no end of a word.
LEMMA InWord ==
    ASSUME NEW t \in Seq(Chars), NEW c \in 1..Len(t), c # Len(t), t[c + 1] # Space
    PROVE  c \notin Ends(t)
BY DEF Ends

LEMMA StopIs ==
    ASSUME NEW t \in Seq(Chars), Len(t) <= LineSize, NEW z, LastEnd(t, z),
           NEW k \in Nat, NEW m, LineSplit(m, t, z, k),
           NEW p, NextAt(t, z, k, p), NEW e, EndsWord(t, p, e)
    PROVE  /\ e \in Nat /\ e \in 1..z /\ Rank(Ends(t), e) = k
           /\ EndOfWord(m, p) = e
<1>1. /\ z \in Nat /\ z \in 1..Len(t) /\ p \in Nat /\ p + 1 \in Nat
      /\ Len(t) \in Nat /\ LineSize \in Nat /\ Past \in Nat /\ LineSize < Past
  BY LastEndFacts, Sizes DEF NextAt
<1>2. e \in 1..z /\ e \in Nat /\ p < e
  BY <1>1 DEF EndsWord, LastEnd, Ends
<1>3. Rank(Ends(t), e) = k
  <2>1. p + 1 <= e
    BY <1>1, <1>2
  <2>2. Rank(Ends(t), e) = Rank(Ends(t), p + 1)
    BY <1>1, <1>2, <2>1, PlacesOfWords, RankSame DEF EndsWord
  <2>. QED BY <2>2 DEF NextAt
<1>4. ASSUME NEW c \in p..(e - 1)
      PROVE  c \in LineCells /\ m[c] # Space /\ m[c] # Nul
  <2>1. c \in 0..z /\ c \in 0..(z - 1) /\ c # z /\ c + 1 \in (p + 1)..e /\ c + 1 \in 1..Len(t)
    BY <1>1, <1>2
  <2>2. t[c + 1] # Space
    BY <2>1 DEF EndsWord
  <2>3. c \notin Ends(t)
    BY <1>1, <2>1, <2>2, InWord DEF Ends
  <2>4. m[c] = t[c + 1]
    BY <2>1, <2>3 DEF LineSplit, Ended
  <2>. QED BY <2>1, <2>2, <2>4, LastEndFacts
<1>5. m[e] \in {Space, Nul} /\ e \in LineCells
  <2>1. e \in 0..z /\ e \in LineCells
    BY <1>1, <1>2, LastEndFacts
  <2>2. CASE e = z
    BY <2>1, <2>2 DEF LineSplit, Ended
  <2>3. CASE e # z
    <3>1. ~ Ended(t, z, k, e)
      BY <1>3, <2>3 DEF Ended
    <3>2. e # Len(t)
      BY <1>1, <1>2, <2>3
    <3>3. t[e + 1] = Space
      BY <3>2 DEF EndsWord, Ends
    <3>. QED BY <2>1, <3>1, <3>3 DEF LineSplit
  <2>. QED BY <2>1, <2>2, <2>3
<1>6. EndOfWord(m, p) = e
  <2>1. e \in p..Past
    BY <1>1, <1>2
  <2>2. e \in Breaks(m)
    BY <1>2, <1>5 DEF Breaks, At
  <2>3. \A c \in p..(e - 1) : c \notin Breaks(m)
    BY <1>4 DEF Breaks, At
  <2>. QED BY <1>1, <2>1, <2>2, <2>3, FirstInIs, Walks
<1>. QED BY <1>2, <1>3, <1>6

\* Ending the word keeps the shape of the line.
LEMMA EndedLine ==
    ASSUME NEW t \in Seq(Chars), Len(t) <= LineSize, NEW z, LastEnd(t, z),
           NEW k \in Nat, NEW m, LineSplit(m, t, z, k),
           NEW e \in Ends(t), Rank(Ends(t), e) = k
    PROVE  LineSplit([i \in LineCells |-> IF i = e THEN Nul ELSE m[i]], t, z, k + 1)
<1> DEFINE w == [i \in LineCells |-> IF i = e THEN Nul ELSE m[i]]
<1>1. ASSUME NEW i \in 0..z PROVE w[i] = IF Ended(t, z, k + 1, i) THEN Nul ELSE t[i + 1]
  <2>1. w[i] = IF i = e THEN Nul ELSE m[i]
    BY LastEndFacts
  <2> HIDE DEF w
  <2>2. CASE i = e
    <3>1. Ended(t, z, k + 1, i)
      BY <2>2 DEF Ended
    <3>. QED BY <2>1, <2>2, <3>1
  <2>3. CASE i # e
    <3>1. Ended(t, z, k + 1, i) <=> Ended(t, z, k, i)
      <4>1. i \in Ends(t) => Rank(Ends(t), i) \in Nat /\ Rank(Ends(t), i) # k
        BY <2>3, PlacesOfWords, RankType, RankUnique
      <4>2. i \in Ends(t) => (Rank(Ends(t), i) < k + 1 <=> Rank(Ends(t), i) < k)
        BY <4>1
      <4>. QED BY <4>2 DEF Ended
    <3>. QED BY <2>1, <2>3, <3>1 DEF LineSplit
  <2>. QED BY <2>2, <2>3
<1> HIDE DEF w
<1>2. LineSplit(w, t, z, k + 1)
  BY <1>1 DEF LineSplit
<1>. QED BY <1>2 DEF w

\* Behind a word that is not the last one, the next one is found.
LEMMA NextIs ==
    ASSUME NEW t \in Seq(Chars), Len(t) <= LineSize, NEW z, LastEnd(t, z),
           NEW k \in Nat, NEW m, LineSplit(m, t, z, k + 1),
           NEW p, NextAt(t, z, k, p), NEW e, EndsWord(t, p, e), Rank(Ends(t), e) = k, e # z
    PROVE  NextAt(t, z, k + 1, SpacesSkipped(m, e + 1))
<1>1. /\ z \in Nat /\ z \in 1..Len(t) /\ p \in Nat /\ p + 1 \in Nat
      /\ Len(t) \in Nat /\ LineSize \in Nat /\ Past \in Nat /\ LineSize < Past
  BY LastEndFacts, Sizes DEF NextAt
<1>2. e \in Nat /\ e \in 1..Len(t) /\ p < e /\ e < z /\ e # Len(t)
  BY <1>1 DEF EndsWord, LastEnd, Ends
<1>3. e + 1 \in 1..Len(t) /\ t[e + 1] = Space /\ z \in (e + 1)..Len(t) /\ t[z] # Space
  BY <1>1, <1>2, LastEndFacts DEF EndsWord, Ends
<1>4. PICK b \in Starts(t) : /\ e + 1 < b /\ b <= z
                             /\ \A c \in (e + 1)..(b - 1) : t[c] = Space
  BY <1>3, WordStarts
<1> DEFINE q == b - 1
<1>5. /\ b \in Nat /\ q \in Nat /\ b = q + 1 /\ q \in (e + 1)..(z - 1) /\ t[b] # Space
      /\ q \in (e + 1)..(b - 1)
  BY <1>1, <1>2, <1>4 DEF Starts
<1>6. \A c \in (e + 1)..(b - 1) : c \notin Ends(t)
  BY <1>4 DEF Ends
<1>7. ASSUME NEW c \in (e + 1)..q
      PROVE  c \in LineCells /\ c \in Nat /\ m[c] = t[c + 1]
  <2>1. c \in 0..z /\ c # z /\ c \in (e + 1)..(b - 1)
    BY <1>1, <1>2, <1>5
  <2>2. ~ Ended(t, z, k + 1, c)
    BY <1>6, <2>1 DEF Ended
  <2>. QED BY <2>1, <2>2, LastEndFacts DEF LineSplit
<1>8. SpacesSkipped(m, e + 1) = q
  <2>1. q \in (e + 1)..Past /\ e + 1 \in Nat /\ q \in (e + 1)..q
    BY <1>1, <1>2, <1>5
  <2>2. q \in Others(m)
    BY <1>5, <1>7, <2>1 DEF Others, At
  <2>3. ASSUME NEW c \in (e + 1)..(q - 1) PROVE c \notin Others(m)
    <3>1. c \in (e + 1)..q /\ c + 1 \in (e + 1)..(b - 1)
      BY <1>2, <1>5
    <3>2. c \in LineCells /\ m[c] = Space
      BY <1>4, <1>7, <3>1
    <3>. QED BY <3>2 DEF Others, At
  <2>. QED BY <2>1, <2>2, <2>3, FirstInIs, Walks
<1>9. Rank(Starts(t), b) = k + 1
  <2>1. ASSUME NEW j \in Starts(t), ~ (j <= p + 1), ~ (j >= b) PROVE FALSE
    <3>1. j \in 1..Len(t) /\ t[j] # Space /\ j # 1 /\ t[j - 1] = Space
      BY <1>1, <2>1 DEF Starts
    <3>2. j \in Nat /\ (j - 1 \in (p + 1)..e \/ j \in (e + 1)..(b - 1))
      BY <1>1, <1>2, <1>5, <2>1, <3>1
    <3>. QED BY <1>4, <3>1, <3>2 DEF EndsWord
  <2>2. p + 1 \in Starts(t) /\ Rank(Starts(t), p + 1) = k /\ p + 1 < b
    BY <1>1, <1>2, <1>4, <1>5 DEF NextAt
  <2>3. Rank(Starts(t), b) = Rank(Starts(t), p + 1) + 1
    <3> HIDE DEF q
    <3>1. Places(Starts(t)) /\ b \in Nat
      BY <1>5, PlacesOfWords
    <3>. QED BY <2>1, <2>2, <3>1, RankNext
  <2>. QED BY <2>2, <2>3
<1>10. Rank(Ends(t), b) = k + 1
  <2>1. ASSUME NEW j \in Ends(t), ~ (j <= e), ~ (j >= b) PROVE FALSE
    <3>1. j \in (e + 1)..(b - 1)
      BY <1>2, <1>5, <2>1 DEF Ends
    <3>. QED BY <1>6, <3>1
  <2>2. e \in Ends(t) /\ e < b
    BY <1>2, <1>4, <1>5 DEF EndsWord
  <2>. QED BY <1>5, <2>1, <2>2, PlacesOfWords, RankNext
<1>11. q \in 0..(z - 1) /\ q + 1 \in Starts(t)
  BY <1>1, <1>2, <1>5
<1>. QED BY <1>5, <1>8, <1>9, <1>10, <1>11 DEF NextAt

\* Behind the last word there is no start of another one.
LEMMA AllStarted ==
    ASSUME NEW t \in Seq(Chars), NEW z, LastEnd(t, z),
           NEW k \in Nat, NEW p, NextAt(t, z, k, p), EndsWord(t, p, z)
    PROVE  Cardinality(Starts(t)) = k + 1
<1>1. p \in Nat /\ z \in Nat /\ Len(t) \in Nat
  BY DEF LastEnd, Ends, NextAt
<1>2. ASSUME NEW j \in Starts(t), ~ (j <= p + 1) PROVE FALSE
  <2>1. j \in 1..Len(t) /\ t[j] # Space /\ j # 1 /\ t[j - 1] = Space
    BY <1>1, <1>2 DEF Starts
  <2>2. j - 1 \in (p + 1)..z \/ j \in (z + 1)..Len(t)
    BY <1>1, <1>2, <2>1
  <2>. QED BY <2>1, <2>2 DEF EndsWord, LastEnd
<1>. QED BY <1>2, PlacesOfWords, RankLast DEF NextAt

LEMMA SplitStepKeeps ==
    ASSUME NEW t \in Seq(Chars), Len(t) <= LineSize, NEW z, LastEnd(t, z),
           NEW k \in Nat, k < Cardinality(Ends(t)), NEW s, SplitAt(s, t, z, k)
    PROVE  SplitAt(SplitStep(s), t, z, k + 1)
<1> DEFINE p == s.at
           E == Ends(t)
<1>1. /\ LineSplit(s.line, t, z, k) /\ NextAt(t, z, k, p)
      /\ s.argv \in Seq(Nat) /\ Len(s.argv) = k
      /\ \A n \in 1..k : WordAt(t, s.argv[n], n)
  BY DEF SplitAt
<1> HIDE DEF p
<1>2. /\ z \in Nat /\ p \in Nat /\ p + 1 \in 1..Len(t) /\ t[p + 1] # Space /\ Len(t) \in Nat
  BY <1>1, LastEndFacts DEF NextAt, Starts
<1>3. PICK e \in E : /\ p + 1 <= e
                     /\ \A c \in (p + 1)..e : t[c] # Space
                     /\ \A j \in E : j < p + 1 \/ j >= e
  BY <1>2, WordEnds
<1>4. EndsWord(t, p, e)
  <2>1. e \in Nat
    BY DEF Ends
  <2>2. p < e
    BY <1>2, <1>3, <2>1
  <2>. QED BY <1>3, <2>2 DEF EndsWord
<1>5. e \in Nat /\ e \in 1..z /\ Rank(E, e) = k /\ EndOfWord(s.line, p) = e
  BY <1>1, <1>4, StopIs
<1> DEFINE w == [i \in LineCells |-> IF i = e THEN Nul ELSE s.line[i]]
<1>6. LineSplit(w, t, z, k + 1)
  BY <1>1, <1>5, EndedLine
<1>7. SplitStep(s) = [line |-> w, at |-> SpacesSkipped(w, e + 1), argv |-> Append(s.argv, p)]
  BY <1>5, Zenon DEF SplitStep, p
<1> HIDE DEF w
<1>8. WordAt(t, p, k + 1)
  <2>1. (k + 1) - 1 = k
    OBVIOUS
  <2>. QED BY <1>1, <1>4, <1>5, <2>1 DEF WordAt, NextAt, EndsWord
<1>9. /\ Append(s.argv, p) \in Seq(Nat) /\ Len(Append(s.argv, p)) = k + 1
      /\ \A n \in 1..(k + 1) : WordAt(t, Append(s.argv, p)[n], n)
  <2>1. /\ Append(s.argv, p) \in Seq(Nat) /\ Len(Append(s.argv, p)) = k + 1
        /\ Append(s.argv, p)[k + 1] = p
        /\ \A n \in 1..k : Append(s.argv, p)[n] = s.argv[n]
    BY <1>1, <1>2
  <2>2. \A n \in 1..(k + 1) : n \in 1..k \/ n = k + 1
    OBVIOUS
  <2>. QED BY <1>1, <1>8, <2>1, <2>2
<1>10. Cardinality(E) = Rank(E, z) + 1 /\ Rank(E, z) \in Nat
  BY PlacesOfWords, RankType, RankLast DEF LastEnd
<1>11. CASE e = z
  <2>1. Cardinality(E) = k + 1
    BY <1>5, <1>10, <1>11
  <2>2. Cardinality(Starts(t)) = k + 1
    BY <1>1, <1>4, <1>11, AllStarted
  <2>. QED BY <1>6, <1>7, <1>9, <2>1, <2>2 DEF SplitAt
<1>12. CASE e # z
  <2>1. e < z /\ z \in E
    BY <1>2, <1>5, <1>12 DEF LastEnd
  <2>2. k < Rank(E, z)
    BY <1>5, <2>1, PlacesOfWords, RankGrows
  <2>3. k + 1 # Cardinality(E)
    BY <1>10, <2>2
  <2>4. NextAt(t, z, k + 1, SpacesSkipped(w, e + 1))
    BY <1>1, <1>4, <1>5, <1>6, <1>12, NextIs
  <2>. QED BY <1>6, <1>7, <1>9, <2>3, <2>4 DEF SplitAt
<1>. QED BY <1>11, <1>12

-----------------------------------------------------------------------------
(* Before the loop: the text is trimmed and its words are counted. *)

LEMMA FirstWordStarts ==
    ASSUME NEW t \in Seq(Chars), NEW z \in 1..Len(t), t[z] # Space
    PROVE  \E b \in Starts(t) : b <= z /\ \A c \in 1..(b - 1) : t[c] = Space
<1> DEFINE T == {c \in 1..z : t[c] # Space}
<1>1. z \in Nat /\ Len(t) \in Nat /\ T \in SUBSET Nat /\ z \in T
  OBVIOUS
<1>2. PICK b \in T : \A j \in T : b <= j
  <2> HIDE DEF T
  <2>. QED BY <1>1, LeastNatural
<1>3. \A c \in 1..(b - 1) : t[c] = Space
  <2> SUFFICES ASSUME NEW c \in 1..(b - 1), t[c] # Space PROVE FALSE
    OBVIOUS
  <2>1. c \in T /\ ~ (b <= c)
    BY <1>1, <1>2
  <2>. QED BY <1>2, <2>1
<1>4. b = 1 \/ b - 1 \in 1..(b - 1)
  BY <1>1, <1>2
<1>5. b \in Starts(t)
  BY <1>1, <1>2, <1>3, <1>4 DEF Starts
<1>. QED BY <1>1, <1>2, <1>3, <1>5

LEMMA TrimmedStart ==
    ASSUME NEW m, NEW t, OnLine(m, t), NEW z, LastEnd(t, z)
    PROVE  NextAt(t, z, 0, Trimmed(m).start) /\ \A c \in 1..Trimmed(m).start : t[c] = Space
<1>1. t \in Seq(Chars) /\ Len(t) <= LineSize
  BY DEF OnLine
<1>2. /\ z \in Nat /\ z \in 1..Len(t) /\ t[z] # Space /\ Len(t) \in Nat
      /\ LineSize \in Nat /\ Past \in Nat /\ LineSize < Past
  BY <1>1, LastEndFacts, Sizes
<1>3. PICK b \in Starts(t) : b <= z /\ \A c \in 1..(b - 1) : t[c] = Space
  BY <1>1, <1>2, FirstWordStarts
<1> DEFINE q == b - 1
<1>4. b \in Nat /\ q \in Nat /\ q + 1 = b /\ q \in 0..(z - 1) /\ t[b] # Space
  BY <1>2, <1>3 DEF Starts
<1>5. ASSUME NEW c \in 0..q PROVE c \in LineCells /\ c \in Nat /\ m[c] = t[c + 1]
  <2>1. c \in 0..(Len(t) - 1)
    BY <1>2, <1>4
  <2>. QED BY <2>1, OnLineFacts
<1>6. SpacesSkipped(m, 0) = q
  <2>1. q \in 0..Past /\ q \in 0..q
    BY <1>1, <1>2, <1>4
  <2>2. q \in Others(m)
    BY <1>4, <1>5, <2>1 DEF Others, At
  <2>3. ASSUME NEW c \in 0..(q - 1) PROVE c \notin Others(m)
    <3>1. c \in 0..q /\ c + 1 \in 1..(b - 1)
      BY <1>4
    <3>2. c \in LineCells /\ m[c] = Space
      BY <1>3, <1>5, <3>1
    <3>. QED BY <3>2 DEF Others, At
  <2>. QED BY <2>1, <2>2, <2>3, FirstInIs, Walks
<1>7. Trimmed(m).start = q
  BY <1>6 DEF Trimmed
<1>8. Rank(Starts(t), b) = 0 /\ Rank(Ends(t), b) = 0
  <2>1. ASSUME NEW j \in 1..Len(t), t[j] # Space PROVE ~ (j < b)
    <3>1. j < b => j \in 1..(b - 1)
      BY <1>4
    <3>. QED BY <1>3, <2>1, <3>1
  <2>2. (\A j \in Starts(t) : ~ (j < b)) /\ (\A j \in Ends(t) : ~ (j < b))
    BY <2>1 DEF Starts, Ends
  <2>3. Below(Starts(t), b) = {} /\ Below(Ends(t), b) = {}
    BY <2>2, Zenon DEF Below
  <2>. QED BY <2>3, FS_EmptySet DEF Rank
<1>9. NextAt(t, z, 0, q)
  BY <1>3, <1>4, <1>8 DEF NextAt
<1>. QED BY <1>3, <1>7, <1>9

LEMMA TrimmedSplit ==
    ASSUME NEW m, NEW t, OnLine(m, t), NEW z, LastEnd(t, z)
    PROVE  LineSplit(Trimmed(m).line, t, z, 0)
<1> DEFINE w == Trimmed(m).line
           q == Trimmed(m).start
           L == Len(t)
<1>1. t \in Seq(Chars) /\ Len(t) <= LineSize
  BY DEF OnLine
<1>2. /\ z \in Nat /\ z \in 1..L /\ t[z] # Space /\ L \in Nat /\ LineSize \in Nat
      /\ \A i \in 0..z : i \in LineCells /\ i \in Nat
  BY <1>1, LastEndFacts
<1>3. q \in 0..(z - 1) /\ q = SpacesSkipped(m, 0) /\ q \in Nat
  BY <1>2, TrimmedStart DEF NextAt, Trimmed
<1>4. \A i \in 0..(L - 1) : m[i] = t[i + 1] /\ m[i] # Nul
  BY OnLineFacts
<1>5. EndOfString(m, q) = L
  <2>1. L \in q..LineSize /\ m[L] = Nul
    BY <1>1, <1>2, <1>3, OnLineFacts
  <2>2. \A c \in q..(L - 1) : m[c] # Nul
    BY <1>2, <1>3, <1>4
  <2>. QED BY <1>3, <2>1, <2>2, StringIs
<1>6. w = [i \in LineCells |->
             IF i \in q..(L - 1) /\ \A k \in i..(L - 1) : m[k] = Space THEN Nul ELSE m[i]]
  BY <1>3, <1>5 DEF Trimmed
<1> HIDE DEF w, q
<1>7. ASSUME NEW i \in 0..z PROVE w[i] = IF Ended(t, z, 0, i) THEN Nul ELSE t[i + 1]
  <2>1. w[i] = IF i \in q..(L - 1) /\ \A k \in i..(L - 1) : m[k] = Space THEN Nul ELSE m[i]
    BY <1>2, <1>6
  <2>2. CASE i = z
    <3>1. Ended(t, z, 0, i)
      BY <2>2 DEF Ended
    <3>2. w[i] = Nul
      <4>1. CASE z = L
        <5>1. m[z] = Nul
          BY <4>1, OnLineFacts
        <5>. QED BY <2>1, <2>2, <5>1
      <4>2. CASE z # L
        <5>1. i \in q..(L - 1)
          BY <1>2, <1>3, <2>2, <4>2
        <5>2. ASSUME NEW k \in i..(L - 1) PROVE m[k] = Space
          <6>1. k \in 0..(L - 1) /\ k + 1 \in (z + 1)..L
            BY <1>2, <2>2
          <6>2. t[k + 1] = Space
            BY <6>1 DEF LastEnd
          <6>. QED BY <1>4, <6>1, <6>2
        <5>. QED BY <2>1, <5>1, <5>2
      <4>. QED BY <4>1, <4>2
    <3>. QED BY <3>1, <3>2
  <2>3. CASE i # z
    <3>1. i \in 0..(z - 1) /\ z - 1 \in i..(L - 1) /\ i \in 0..(L - 1) /\ z - 1 \in 0..(L - 1)
      BY <1>2, <2>3
    <3>2. m[z - 1] # Space
      <4>1. (z - 1) + 1 = z
        BY <1>2
      <4>2. m[z - 1] = t[(z - 1) + 1]
        BY <1>4, <3>1
      <4>. QED BY <1>2, <4>1, <4>2
    <3>3. w[i] = t[i + 1]
      BY <1>4, <2>1, <3>1, <3>2
    <3>4. ~ Ended(t, z, 0, i)
      <4>1. i \in Ends(t) => ~ (Rank(Ends(t), i) < 0)
        BY <1>1, PlacesOfWords, RankType
      <4>. QED BY <2>3, <4>1 DEF Ended
    <3>. QED BY <3>3, <3>4
  <2>. QED BY <2>2, <2>3
<1>. QED BY <1>7 DEF LineSplit, w

\* The runs of spaces between the words count the words.
LEMMA WordsCounted ==
    ASSUME NEW m, NEW t, OnLine(m, t), NEW z, LastEnd(t, z)
    PROVE  ArgCount(Trimmed(m)) = Cardinality(Ends(t))
<1> DEFINE w == Trimmed(m).line
           q == Trimmed(m).start
           L == Len(t)
           C == {i \in q..(EndOfString(w, q) - 1) : w[i] = Space /\ w[i - 1] # Space}
<1>1. t \in Seq(Chars) /\ Len(t) <= LineSize
  BY DEF OnLine
<1>2. /\ z \in Nat /\ z \in 1..L /\ t[z] # Space /\ L \in Nat /\ LineSize \in Nat
      /\ \A i \in 0..(z - 1) : t[i + 1] # Nul
  BY <1>1, LastEndFacts
<1>3. /\ q \in 0..(z - 1) /\ q \in Nat /\ t[q + 1] # Space
      /\ \A c \in 1..q : t[c] = Space
  <2>1. NextAt(t, z, 0, q) /\ \A c \in 1..q : t[c] = Space
    BY TrimmedStart
  <2> HIDE DEF q
  <2>. QED BY <1>2, <2>1 DEF NextAt, Starts
<1>4. ArgCount(Trimmed(m)) = 1 + Cardinality(C)
  BY DEF ArgCount
<1>5. w[z] = Nul /\ \A i \in 0..(z - 1) : w[i] = t[i + 1]
  <2>1. LineSplit(w, t, z, 0)
    BY TrimmedSplit
  <2> HIDE DEF w
  <2>2. w[z] = Nul
    BY <1>2, <2>1 DEF LineSplit, Ended
  <2>3. ASSUME NEW i \in 0..(z - 1) PROVE w[i] = t[i + 1]
    <3>1. i \in 0..z /\ i # z
      BY <1>2
    <3>2. i \in Ends(t) => ~ (Rank(Ends(t), i) < 0)
      BY <1>1, PlacesOfWords, RankType
    <3>. QED BY <2>1, <3>1, <3>2 DEF LineSplit, Ended
  <2>. QED BY <2>2, <2>3
<1> HIDE DEF w, q
<1>6. EndOfString(w, q) = z
  <2>1. z \in q..LineSize
    BY <1>1, <1>2, <1>3
  <2>2. \A c \in q..(z - 1) : w[c] # Nul
    BY <1>2, <1>3, <1>5
  <2>. QED BY <1>3, <1>5, <2>1, <2>2, StringIs
<1>7. C = Below(Ends(t), z)
  <2>1. ASSUME NEW i \in C PROVE i \in Ends(t) /\ i < z
    <3>1. i \in q..(z - 1) /\ w[i] = Space /\ w[i - 1] # Space
      BY <1>6
    <3>2. i # q
      BY <1>2, <1>3, <1>5, <3>1
    <3>3. /\ i \in 0..(z - 1) /\ i - 1 \in 0..(z - 1) /\ (i - 1) + 1 = i
          /\ i \in 1..L /\ i < z
      BY <1>2, <1>3, <3>1, <3>2
    <3>4. t[i + 1] = Space /\ t[i] # Space
      BY <1>5, <3>1, <3>3
    <3>. QED BY <3>3, <3>4 DEF Ends
  <2>2. ASSUME NEW i \in Ends(t), i < z PROVE i \in C
    <3>1. i \in 1..L /\ t[i] # Space /\ (i = L \/ t[i + 1] = Space)
      BY DEF Ends
    <3>2. i \notin 1..q
      BY <1>3, <3>1
    <3>3. /\ i \in q..(z - 1) /\ i # L /\ i \in 0..(z - 1)
          /\ i - 1 \in 0..(z - 1) /\ (i - 1) + 1 = i
      BY <1>2, <1>3, <2>2, <3>1, <3>2
    <3>4. w[i] = Space /\ w[i - 1] # Space
      BY <1>5, <3>1, <3>3
    <3>. QED BY <1>6, <3>3, <3>4
  <2> HIDE DEF C
  <2>. QED BY <2>1, <2>2 DEF Below
<1>8. Cardinality(Ends(t)) = Rank(Ends(t), z) + 1
  BY <1>1, PlacesOfWords, RankLast DEF LastEnd
<1> HIDE DEF C
<1>9. Cardinality(C) = Rank(Ends(t), z)
  BY <1>7 DEF Rank
<1>10. Rank(Ends(t), z) \in Nat
  BY <1>1, PlacesOfWords, RankType
<1>. QED BY <1>4, <1>8, <1>9, <1>10

-----------------------------------------------------------------------------
(* After the loop: the arguments are the words. *)

LEMMA SplitByKeeps ==
    ASSUME NEW m, NEW t, OnLine(m, t), NEW z, LastEnd(t, z), NEW g,
           NEW n \in Nat, n = Cardinality(Ends(t)), Splits(g, Trimmed(m), n)
    PROVE  SplitAt(g[n], t, z, n)
<1> DEFINE P == {k \in 0..n : SplitAt(g[k], t, z, k)}
<1>1. t \in Seq(Chars) /\ Len(t) <= LineSize
  BY DEF OnLine
<1>2. n # 0
  <2>1. n = Rank(Ends(t), z) + 1 /\ Rank(Ends(t), z) \in Nat
    BY <1>1, PlacesOfWords, RankLast, RankType DEF LastEnd
  <2>. QED BY <2>1
<1>3. 0 \in P
  <2> DEFINE s == SplitStart(Trimmed(m))
  <2>1. s.line = Trimmed(m).line /\ s.at = Trimmed(m).start /\ s.argv = <<>>
    BY DEF SplitStart
  <2> HIDE DEF s
  <2>2. LineSplit(s.line, t, z, 0) /\ NextAt(t, z, 0, s.at)
    BY <2>1, TrimmedSplit, TrimmedStart
  <2>3. s.argv \in Seq(Nat) /\ Len(s.argv) = 0 /\ \A k \in 1..0 : FALSE
    BY <2>1
  <2>4. SplitAt(s, t, z, 0)
    BY <1>2, <2>2, <2>3 DEF SplitAt
  <2>5. g[0] = s
    BY DEF Splits, s
  <2>. QED BY <2>4, <2>5
<1>4. ASSUME NEW k \in 1..n, k - 1 \in P PROVE k \in P
  <2>1. k - 1 \in Nat /\ k - 1 < Cardinality(Ends(t)) /\ (k - 1) + 1 = k
    OBVIOUS
  <2>2. SplitAt(g[k - 1], t, z, k - 1)
    BY <1>4
  <2>3. SplitAt(SplitStep(g[k - 1]), t, z, (k - 1) + 1)
    BY <1>1, <2>1, <2>2, SplitStepKeeps
  <2>4. g[k] = SplitStep(g[k - 1])
    BY DEF Splits
  <2>. QED BY <2>1, <2>3, <2>4
<1>5. \A k \in 0..n : k \in P
  <2> HIDE DEF P
  <2>. QED BY <1>3, <1>4, RangeInduction
<1>. QED BY <1>5

\* The string at the n-th word of a line that is split is that word.
LEMMA WordReads ==
    ASSUME NEW t \in Seq(Chars), Len(t) <= LineSize, NEW z, LastEnd(t, z),
           NEW m, LineSplit(m, t, z, Cardinality(Ends(t))),
           NEW n \in Nat, NEW p \in Nat, WordAt(t, p, n)
    PROVE  String(m, p) = SubSeq(t, Nth(Starts(t), n), Nth(Ends(t), n))
<1>1. PICK e \in Ends(t) : /\ Rank(Ends(t), e) = n - 1 /\ p < e
                           /\ \A c \in (p + 1)..e : t[c] # Space
  BY DEF WordAt
<1>2. Nth(Starts(t), n) = p + 1 /\ Nth(Ends(t), n) = e
  BY <1>1, PlacesOfWords, NthIs DEF WordAt
<1>3. z \in Nat /\ z \in 1..Len(t) /\ Len(t) \in Nat /\ LineSize \in Nat
  BY LastEndFacts
<1>4. e \in Nat /\ e \in 1..z /\ e \in p..LineSize
  BY <1>1, <1>3 DEF LastEnd, Ends
<1>5. m[e] = Nul
  <2>1. e # z => Rank(Ends(t), e) < Cardinality(Ends(t))
    <3>1. Cardinality(Ends(t)) = Rank(Ends(t), z) + 1
      BY PlacesOfWords, RankLast DEF LastEnd
    <3>2. e # z => Rank(Ends(t), e) < Rank(Ends(t), z)
      BY <1>3, <1>4, PlacesOfWords, RankGrows DEF LastEnd
    <3>3. Rank(Ends(t), e) \in Nat /\ Rank(Ends(t), z) \in Nat
      BY PlacesOfWords, RankType
    <3>. QED BY <3>1, <3>2, <3>3
  <2>2. e \in 0..z
    BY <1>3, <1>4
  <2>. QED BY <2>1, <2>2 DEF LineSplit, Ended
<1>6. ASSUME NEW c \in p..(e - 1) PROVE m[c] = t[c + 1] /\ m[c] # Nul
  <2>1. c \in 0..z /\ c \in 0..(z - 1) /\ c # z /\ c # Len(t) /\ c + 1 \in (p + 1)..e
    BY <1>3, <1>4
  <2>2. t[c + 1] # Space
    BY <1>1, <2>1
  <2>3. c \notin Ends(t)
    BY <2>1, <2>2 DEF Ends
  <2>4. m[c] = t[c + 1]
    BY <2>1, <2>3 DEF LineSplit, Ended
  <2>. QED BY <2>1, <2>4, LastEndFacts
<1>7. EndOfString(m, p) = e
  BY <1>4, <1>5, <1>6, StringIs
<1>8. String(m, p) = [k \in 1..(e - p) |-> m[p + k - 1]]
  BY <1>7 DEF String
<1>9. SubSeq(t, p + 1, e) = [k \in 1..(e - p) |-> t[p + k]]
  <2>1. SubSeq(t, p + 1, e) = [k \in 1..(e - (p + 1) + 1) |-> t[(p + 1) + k - 1]]
    BY <1>3, <1>4
  <2>2. e - (p + 1) + 1 = e - p /\ \A k \in 1..(e - p) : (p + 1) + k - 1 = p + k
    BY <1>4
  <2>. QED BY <2>1, <2>2
<1>10. \A k \in 1..(e - p) : m[p + k - 1] = t[p + k]
  <2> SUFFICES ASSUME NEW k \in 1..(e - p) PROVE m[p + k - 1] = t[p + k]
    OBVIOUS
  <2>1. p + k - 1 \in p..(e - 1) /\ (p + k - 1) + 1 = p + k
    BY <1>4
  <2>2. m[p + k - 1] = t[(p + k - 1) + 1]
    BY <1>6, <2>1
  <2>. QED BY <2>1, <2>2
<1>. QED BY <1>2, <1>8, <1>9, <1>10

\* A line of spaces only has one empty argument.
LEMMA BlankArgs ==
    ASSUME NEW m, NEW t, OnLine(m, t), \A i \in 1..Len(t) : t[i] = Space
    PROVE  LET p == Parsed(m)
           IN  /\ p.ok
               /\ [k \in 1..Len(p.argv) |-> String(p.line, p.argv[k])] = << <<>> >>
               /\ Words(t) = <<>>
               /\ p.line = m
<1> DEFINE L == Len(t)
           w == Trimmed(m).line
           s == SplitBy(Trimmed(m), 1)[1]
<1>1. /\ m \in Lines /\ L \in Nat /\ L <= LineSize /\ LineSize \in Nat /\ Past \in Nat /\ LineSize < Past
      /\ m[L] = Nul /\ L \in LineCells /\ Nul # Space
  BY OnLineFacts, Sizes DEF OnLine
<1>2. ASSUME NEW c \in 0..(L - 1) PROVE c \in LineCells /\ c \in Nat /\ m[c] = Space
  <2>1. c \in LineCells /\ c + 1 \in 1..L /\ m[c] = t[c + 1]
    BY OnLineFacts
  <2>. QED BY <2>1
<1>3. SpacesSkipped(m, 0) = L
  <2>1. L \in 0..Past
    BY <1>1
  <2>2. L \in Others(m)
    BY <1>1 DEF Others, At
  <2>3. \A c \in 0..(L - 1) : c \notin Others(m)
    BY <1>2 DEF Others, At
  <2>. QED BY <2>1, <2>2, <2>3, FirstInIs, Walks
<1>4. ASSUME NEW v, v[L] = Nul PROVE EndOfString(v, L) = L /\ String(v, L) = <<>>
  <2>1. L \in L..LineSize /\ \A c \in L..(L - 1) : FALSE
    BY <1>1
  <2>2. EndOfString(v, L) = L
    BY <1>1, <1>4, <2>1, StringIs
  <2>. QED BY <1>1, <2>2 DEF String
<1>5. Trimmed(m).start = L /\ w = m
  <2>1. w = [i \in LineCells |->
               IF i \in L..(L - 1) /\ \A k \in i..(L - 1) : m[k] = Space THEN Nul ELSE m[i]]
    BY <1>1, <1>3, <1>4 DEF Trimmed
  <2>2. \A i \in LineCells : i \notin L..(L - 1)
    BY <1>1
  <2>. QED BY <1>1, <1>3, <2>1, <2>2 DEF Lines, Trimmed
<1>6. ArgCount(Trimmed(m)) = 1
  <2>1. EndOfString(w, Trimmed(m).start) = L
    BY <1>1, <1>4, <1>5
  <2> DEFINE C == {i \in L..(L - 1) : w[i] = Space /\ w[i - 1] # Space}
  <2>2. C = {}
    BY <1>1
  <2>3. ArgCount(Trimmed(m)) = 1 + Cardinality(C)
    BY <1>5, <2>1, Zenon DEF ArgCount
  <2> HIDE DEF C
  <2>4. Cardinality(C) = 0
    BY <2>2, FS_EmptySet
  <2>. QED BY <2>3, <2>4
<1>7. Parsed(m) = [line |-> s.line, ok |-> TRUE, argv |-> s.argv]
  <2>1. ~ (1 > MaxArgs)
    BY ShellAssumption
  <2>. QED BY <1>6, <2>1, ParsedIs, Zenon
<1>8. s.argv = <<L>> /\ s.line[L] = Nul /\ s.line = m
  <2> DEFINE z == SplitStart(Trimmed(m))
  <2>1. s = SplitStep(z)
    <3>1. Splits(SplitBy(Trimmed(m), 1), Trimmed(m), 1)
      BY SplitBySplits
    <3> DEFINE g == SplitBy(Trimmed(m), 1)
    <3> HIDE DEF g
    <3>2. g[0] = z /\ g[1] = SplitStep(g[1 - 1]) /\ 1 - 1 = 0
      BY <3>1 DEF Splits, g
    <3>. QED BY <3>2 DEF g
  <2>2. z.line = m /\ z.at = L /\ z.argv = <<>>
    BY <1>5 DEF SplitStart
  <2> HIDE DEF s, z
  <2>3. EndOfWord(m, L) = L
    <3>1. L \in L..Past /\ \A c \in L..(L - 1) : FALSE
      BY <1>1
    <3>2. L \in Breaks(m)
      BY <1>1 DEF Breaks, At
    <3>. QED BY <1>1, <3>1, <3>2, FirstInIs, Walks
  <2>4. s.line = [i \in LineCells |-> IF i = L THEN Nul ELSE m[i]] /\ s.argv = Append(<<>>, L)
    BY <2>1, <2>2, <2>3, Zenon DEF SplitStep
  <2>5. s.line = m
    BY <1>1, <2>4 DEF Lines
  <2>. QED BY <1>1, <2>4, <2>5
<1>9. [k \in 1..Len(s.argv) |-> String(s.line, s.argv[k])] = << <<>> >>
  <2>1. String(s.line, L) = <<>>
    BY <1>4, <1>8
  <2> HIDE DEF s
  <2>. QED BY <1>8, <2>1
<1>10. Words(t) = <<>>
  <2>1. Starts(t) = {}
    BY DEF Starts
  <2>2. Cardinality(Starts(t)) = 0
    BY <2>1, FS_EmptySet
  <2>. QED BY <2>2, WordsAre
<1>. QED BY <1>7, <1>8, <1>9, <1>10

\* A word is a text.
LEMMA WordIsText ==
    ASSUME NEW t \in Seq(Chars), NEW n \in Nat, NEW p \in Nat, WordAt(t, p, n)
    PROVE  SubSeq(t, Nth(Starts(t), n), Nth(Ends(t), n)) \in Seq(Chars)
<1>1. PICK e \in Ends(t) : Rank(Ends(t), e) = n - 1 /\ p < e
  BY DEF WordAt
<1>2. Nth(Starts(t), n) = p + 1 /\ Nth(Ends(t), n) = e
  BY <1>1, PlacesOfWords, NthIs DEF WordAt
<1>3. p + 1 \in 1..(Len(t) + 1) /\ e \in (p + 1)..Len(t)
  BY <1>1 DEF Ends
<1>4. SubSeq(t, p + 1, e) \in Seq(Chars)
  BY <1>3, SubSeqProperties
<1>. QED BY <1>2, <1>4

\* A line with words has these as its arguments, if the heap block takes them.
LEMMA WordArgs ==
    ASSUME NEW m, NEW t, OnLine(m, t), NEW z, LastEnd(t, z), Parsed(m).ok
    PROVE  LET p == Parsed(m)
           IN  /\ [k \in 1..Len(p.argv) |-> String(p.line, p.argv[k])] = Words(t)
               /\ Words(t) # <<>> /\ Words(t) \in Seq(Seq(Chars))
               /\ LineSplit(p.line, t, z, Cardinality(Ends(t)))
<1> DEFINE n == Cardinality(Ends(t))
           s == SplitBy(Trimmed(m), n)[n]
<1>1. t \in Seq(Chars) /\ Len(t) <= LineSize
  BY DEF OnLine
<1>2. n \in Nat /\ n # 0 /\ ArgCount(Trimmed(m)) = n
  <2>1. n = Rank(Ends(t), z) + 1 /\ Rank(Ends(t), z) \in Nat
    BY <1>1, PlacesOfWords, RankLast, RankType DEF LastEnd
  <2>2. ArgCount(Trimmed(m)) = n
    BY WordsCounted
  <2> HIDE DEF n
  <2>. QED BY <2>1, <2>2
<1>3. Parsed(m) = [line |-> s.line, ok |-> TRUE, argv |-> s.argv]
  <2>1. ~ (n > MaxArgs)
    <3> SUFFICES ASSUME n > MaxArgs PROVE FALSE
      OBVIOUS
    <3>1. Parsed(m) = [line |-> Trimmed(m).line, ok |-> FALSE, argv |-> <<>>]
      BY <1>2, ParsedIs, Zenon
    <3>. QED BY <3>1
  <2>. QED BY <1>2, <2>1, ParsedIs, Zenon
<1>4. SplitAt(s, t, z, n)
  <2>1. Splits(SplitBy(Trimmed(m), n), Trimmed(m), n)
    BY <1>2, SplitBySplits
  <2>. QED BY <1>2, <2>1, SplitByKeeps
<1> HIDE DEF s
<1>5. /\ LineSplit(s.line, t, z, n) /\ s.argv \in Seq(Nat) /\ Len(s.argv) = n
      /\ \A k \in 1..n : WordAt(t, s.argv[k], k)
      /\ Cardinality(Starts(t)) = n
  BY <1>4 DEF SplitAt
<1>6. ASSUME NEW k \in 1..n
      PROVE  String(s.line, s.argv[k]) = SubSeq(t, Nth(Starts(t), k), Nth(Ends(t), k))
  <2>1. k \in Nat /\ s.argv[k] \in Nat
    BY <1>2, <1>5
  <2>. QED BY <1>1, <1>5, <2>1, WordReads
<1>7. Words(t) = [k \in 1..n |-> SubSeq(t, Nth(Starts(t), k), Nth(Ends(t), k))]
  BY <1>5, WordsAre
<1>8. [k \in 1..Len(s.argv) |-> String(s.line, s.argv[k])] = Words(t)
  BY <1>5, <1>6, <1>7, Zenon
<1>9. Words(t) # <<>>
  <2>1. DOMAIN Words(t) = 1..n /\ 1 \in 1..n
    BY <1>2, <1>7
  <2>2. Words(t) = <<>> => DOMAIN Words(t) = {}
    OBVIOUS
  <2>. QED BY <2>1, <2>2
<1>10. Words(t) \in Seq(Seq(Chars))
  <2>1. ASSUME NEW k \in 1..n
        PROVE  SubSeq(t, Nth(Starts(t), k), Nth(Ends(t), k)) \in Seq(Chars)
    <3>1. k \in Nat /\ s.argv[k] \in Nat
      BY <1>2, <1>5
    <3>. QED BY <1>1, <1>5, <3>1, WordIsText
  <2> HIDE DEF n
  <2>. QED BY <1>2, <1>7, <2>1
<1>. QED BY <1>3, <1>5, <1>8, <1>9, <1>10

LEMMA ArgsOf ==
    ASSUME NEW m, NEW t, OnLine(m, t), Parsed(m).ok
    PROVE  LET p == Parsed(m)
           IN  [k \in 1..Len(p.argv) |-> String(p.line, p.argv[k])]
                   = IF Words(t) = <<>> THEN << <<>> >> ELSE Words(t)
<1>1. PICK z \in 0..Len(t) : /\ \A i \in (z + 1)..Len(t) : t[i] = Space
                             /\ z # 0 => z \in Ends(t)
                             /\ \A j \in Ends(t) : j <= z
  BY LastWordEnds DEF OnLine
<1>2. CASE z = 0
  <2>1. \A i \in 1..Len(t) : t[i] = Space
    BY <1>1, <1>2
  <2>. QED BY <2>1, BlankArgs, Zenon
<1>3. CASE z # 0
  <2>1. LastEnd(t, z)
    BY <1>1, <1>3 DEF LastEnd
  <2>. QED BY <2>1, WordArgs, Zenon
<1>. QED BY <1>2, <1>3

\* The words of a line that is split are texts.
LEMMA WordsType ==
    ASSUME NEW m, NEW t, OnLine(m, t), Parsed(m).ok
    PROVE  Words(t) \in Seq(Seq(Chars))
<1>1. PICK z \in 0..Len(t) : /\ \A i \in (z + 1)..Len(t) : t[i] = Space
                             /\ z # 0 => z \in Ends(t)
                             /\ \A j \in Ends(t) : j <= z
  BY LastWordEnds DEF OnLine
<1>2. CASE z = 0
  <2>1. \A i \in 1..Len(t) : t[i] = Space
    BY <1>1, <1>2
  <2>2. Words(t) = <<>>
    BY <2>1, BlankArgs, Zenon
  <2>. QED BY <2>2
<1>3. CASE z # 0
  <2>1. LastEnd(t, z)
    BY <1>1, <1>3 DEF LastEnd
  <2>. QED BY <2>1, WordArgs, Zenon
<1>. QED BY <1>2, <1>3

\* Of a command that ran whole, the line held the text up to its first zero.
LEMMA EnterShown ==
    ASSUME TextInv, OnEnter
    PROVE  /\ command' = Executed(Parsed(line))
           /\ command'.typed = Seen(text)
           /\ RanWhole' => OnLine(line, command'.typed) /\ Parsed(line).ok
<1> DEFINE p == Parsed(line)
<1>1. command' = Executed(p)
  BY DEF OnEnter
<1>2. /\ command'.args = [k \in 1..Len(p.argv) |-> String(p.line, p.argv[k])]
      /\ command'.typed = Seen(text)
      /\ command'.overrun = overrun
  BY <1>1, Zenon DEF Executed
<1>3. p.ok \/ command'.args = <<>>
  <2>1. p.ok \/ p.argv = <<>>
    BY ParsedIs
  <2> HIDE DEF p
  <2>. QED BY <1>2, <2>1
<1>4. ~overrun => OnLine(line, Seen(text))
  BY SeenOnLine DEF TextInv
<1> HIDE DEF p
<1>5. RanWhole' => OnLine(line, command'.typed) /\ p.ok
  BY <1>2, <1>3, <1>4, Zenon DEF RanWhole
<1>. QED BY <1>1, <1>2, <1>5, Zenon DEF p

LEMMA NothingRan ==
    ASSUME command' = NoCommand
    PROVE  ~RanWhole'
<1>1. NoCommand.args = <<>>
  BY DEF NoCommand
<1>. QED BY <1>1 DEF RanWhole

LEMMA NothingRanAtStart ==
    ASSUME Init
    PROVE  ~RanWhole
<1>1. command.args = <<>>
  BY DEF Init, NoCommand
<1>. QED BY <1>1 DEF RanWhole

\* Every step leaves the last command alone, completes one, or has none.
LEMMA CommandSteps ==
    ASSUME ShellInv, [Next]_svars
    PROVE  UNCHANGED command \/ OnEnter \/ command' = NoCommand
<1>1. ASSUME NEW k, OnInput(k) PROVE OnEnter \/ command' = NoCommand
  BY <1>1 DEF OnInput, OnDelete, OnChar
<1>2. ASSUME NEW code, KeyboardPoll(code) PROVE UNCHANGED command \/ OnInput(code[2])
  BY <1>2 DEF KeyboardPoll, svars
<1>3. ASSUME NEW k, TtyPoll(k) PROVE OnInput(k)
  BY <1>3 DEF TtyPoll
<1>4. CASE UNCHANGED svars
  BY <1>4 DEF svars
<1>. QED BY <1>1, <1>2, <1>3, <1>4 DEF Next

LEMMA EnterArgs ==
    ASSUME TextInv, OnEnter
    PROVE  ArgsAreWords'
<1> DEFINE p == Parsed(line)
           t == command'.typed
<1> SUFFICES ASSUME RanWhole'
             PROVE  command'.args = IF Words(t) = <<>> THEN << <<>> >> ELSE Words(t)
  BY Zenon DEF ArgsAreWords
<1>1. command' = Executed(p) /\ OnLine(line, t) /\ p.ok
  BY EnterShown, Zenon
<1>2. command'.args = [k \in 1..Len(p.argv) |-> String(p.line, p.argv[k])]
  BY <1>1, Zenon DEF Executed
<1>3. [k \in 1..Len(p.argv) |-> String(p.line, p.argv[k])]
          = IF Words(t) = <<>> THEN << <<>> >> ELSE Words(t)
  <2> HIDE DEF t
  <2>. QED BY <1>1, ArgsOf, Zenon
<1>. QED BY <1>2, <1>3, Zenon

LEMMA ArgsNext == ShellInv /\ ArgsAreWords /\ [Next]_svars => ArgsAreWords'
<1> SUFFICES ASSUME ShellInv, ArgsAreWords, [Next]_svars PROVE ArgsAreWords'
  OBVIOUS
<1>1. CASE UNCHANGED command
  BY <1>1 DEF ArgsAreWords, RanWhole
<1>2. CASE OnEnter
  BY <1>2, EnterArgs DEF ShellInv
<1>3. CASE command' = NoCommand
  BY <1>3, NothingRan DEF ArgsAreWords
<1>. QED BY <1>1, <1>2, <1>3, CommandSteps

\* Splitting the line in place gives a command the words of the text typed, up to
\* its first zero, however many there are and however many spaces surround them:
\* of every line that was not overrun, and had no more words than the heap holds.
THEOREM ArgumentsAreWords == Spec => []ArgsAreWords
<1>1. Init => ArgsAreWords
  BY NothingRanAtStart DEF ArgsAreWords
<1>. QED BY <1>1, ArgsNext, ShellInvAlways, PTL DEF Spec

-----------------------------------------------------------------------------
(* The command: splitting only clears cells, and no character of a word. *)

OnlyCleared(w, m) == \A i \in LineCells : w[i] \in {Nul, m[i]}

LEMMA SplitClears ==
    ASSUME NEW g, NEW t, NEW n \in Nat, Splits(g, t, n)
    PROVE  OnlyCleared(g[n].line, t.line)
<1> DEFINE P == {k \in 0..n : OnlyCleared(g[k].line, t.line)}
<1>1. 0 \in P
  <2>1. g[0].line = t.line
    BY DEF Splits, SplitStart
  <2>. QED BY <2>1 DEF OnlyCleared
<1>2. ASSUME NEW k \in 1..n, k - 1 \in P PROVE k \in P
  <2> DEFINE s == g[k - 1]
  <2>1. OnlyCleared(s.line, t.line) /\ g[k] = SplitStep(s)
    BY <1>2 DEF Splits
  <2> HIDE DEF s
  <2>2. g[k].line = [i \in LineCells |-> IF i = EndOfWord(s.line, s.at) THEN Nul ELSE s.line[i]]
    BY <2>1 DEF SplitStep
  <2>3. OnlyCleared(g[k].line, t.line)
    BY <2>1, <2>2 DEF OnlyCleared
  <2>. QED BY <2>3
<1>3. \A k \in 0..n : k \in P
  <2> HIDE DEF P
  <2>. QED BY <1>1, <1>2, RangeInduction
<1>. QED BY <1>3

LEMMA ParsingClears ==
    ASSUME NEW m
    PROVE  OnlyCleared(Parsed(m).line, m)
<1> DEFINE t == Trimmed(m)
           n == ArgCount(t)
           s == SplitBy(t, n)[n]
<1>1. OnlyCleared(t.line, m)
  <2> DEFINE stop == EndOfString(m, SpacesSkipped(m, 0))
             Gone(i) == i \in SpacesSkipped(m, 0)..(stop - 1) /\ \A k \in i..(stop - 1) : m[k] = Space
  <2>1. t.line = [i \in LineCells |-> IF Gone(i) THEN Nul ELSE m[i]]
    BY Zenon DEF Trimmed
  <2> HIDE DEF Gone, t
  <2>. QED BY <2>1 DEF OnlyCleared
<1>2. n \in Nat
  BY ArgCountType
<1>3. OnlyCleared(s.line, t.line)
  <2> HIDE DEF t, n
  <2>1. Splits(SplitBy(t, n), t, n)
    BY <1>2, SplitBySplits
  <2>. QED BY <1>2, <2>1, SplitClears
<1>4. Parsed(m).line = t.line \/ Parsed(m).line = s.line
  <2>1. CASE n > MaxArgs
    <3>1. Parsed(m) = [line |-> t.line, ok |-> FALSE, argv |-> <<>>]
      BY <2>1, ParsedIs, Zenon
    <3> HIDE DEF t
    <3>. QED BY <3>1
  <2>2. CASE ~ (n > MaxArgs)
    <3>1. Parsed(m) = [line |-> s.line, ok |-> TRUE, argv |-> s.argv]
      BY <2>2, ParsedIs, Zenon
    <3> HIDE DEF s
    <3>. QED BY <3>1
  <2>. QED BY <2>1, <2>2
<1> HIDE DEF t, s
<1>. QED BY <1>1, <1>3, <1>4 DEF OnlyCleared

\* What the shell reads of the split line is the text, but for spaces.
LEMMA CellsRead ==
    ASSUME NEW m, NEW t, OnLine(m, t), Parsed(m).ok
    PROVE  /\ Parsed(m).line[0] = CharAt(t, 1)
           /\ \A i \in 0..Len(t) :
                 \/ Parsed(m).line[i] = CharAt(t, i + 1)
                 \/ Parsed(m).line[i] = Nul /\ CharAt(t, i + 1) = Space
<1> DEFINE w == Parsed(m).line
           L == Len(t)
<1>1. t \in Seq(Chars) /\ L \in Nat /\ L <= LineSize /\ LineSize \in Nat
  BY Sizes DEF OnLine
<1>2. PICK z \in 0..L : /\ \A i \in (z + 1)..L : t[i] = Space
                        /\ z # 0 => z \in Ends(t)
                        /\ \A j \in Ends(t) : j <= z
  BY <1>1, LastWordEnds
<1>3. /\ \A i \in 0..(L - 1) : m[i] = CharAt(t, i + 1) /\ i + 1 \in 1..L /\ CharAt(t, i + 1) = t[i + 1]
      /\ m[L] = CharAt(t, L + 1) /\ m[L] = Nul
  BY <1>1, OnLineFacts DEF CharAt
<1>4. CASE z = 0
  <2>1. w = m
    <3>1. \A i \in 1..L : t[i] = Space
      BY <1>2, <1>4
    <3>. QED BY <3>1, BlankArgs, Zenon
  <2> HIDE DEF w
  <2>2. \A i \in 0..L : w[i] = CharAt(t, i + 1)
    <3>1. \A i \in 0..L : i \in 0..(L - 1) \/ i = L
      BY <1>1
    <3>. QED BY <1>3, <2>1, <3>1
  <2>3. w[0] = CharAt(t, 1)
    <3>1. 0 \in 0..L /\ 0 + 1 = 1
      BY <1>1
    <3>. QED BY <2>2, <3>1
  <2>. QED BY <2>2, <2>3 DEF w
<1>5. CASE z # 0
  <2>1. LastEnd(t, z)
    BY <1>2, <1>5 DEF LastEnd
  <2>2. LineSplit(w, t, z, Cardinality(Ends(t)))
    BY <2>1, WordArgs, Zenon
  <2>3. OnlyCleared(w, m)
    BY ParsingClears
  <2> HIDE DEF w
  <2>4. ASSUME NEW i \in 0..L
        PROVE  w[i] = CharAt(t, i + 1) \/ (w[i] = Nul /\ CharAt(t, i + 1) = Space)
    <3>1. i \in LineCells /\ i \in Nat
      BY <1>1, Sizes
    <3>2. w[i] \in {Nul, m[i]}
      BY <2>3, <3>1 DEF OnlyCleared
    <3>3. CASE i = L
      BY <1>3, <3>2, <3>3
    <3>4. CASE i # L /\ t[i + 1] = Space
      <4>1. i \in 0..(L - 1)
        BY <1>1, <3>4
      <4>. QED BY <1>3, <3>2, <3>4, <4>1
    <3>5. CASE i # L /\ t[i + 1] # Space
      <4>1. i \in 0..(L - 1)
        BY <1>1, <3>5
      <4>2. ~ (i + 1 \in (z + 1)..L)
        BY <1>2, <3>5
      <4>3. i \in 0..z /\ i # z
        BY <1>1, <1>3, <4>1, <4>2
      <4>4. i \notin Ends(t)
        BY <3>5 DEF Ends
      <4>5. w[i] = t[i + 1]
        BY <2>2, <4>3, <4>4 DEF LineSplit, Ended
      <4>. QED BY <1>3, <4>1, <4>5
    <3>. QED BY <3>3, <3>4, <3>5
  <2>5. w[0] = CharAt(t, 1)
    <3>1. 0 \in 0..z /\ 0 # z /\ 0 \in 0..(L - 1) /\ 0 + 1 = 1
      BY <1>1, <1>5
    <3>2. 0 \notin Ends(t)
      BY DEF Ends
    <3>3. w[0] = t[0 + 1]
      BY <2>2, <3>1, <3>2 DEF LineSplit, Ended
    <3>. QED BY <1>3, <3>1, <3>3
  <2>. QED BY <2>4, <2>5 DEF w
<1>. QED BY <1>4, <1>5

LEMMA ChosenAlike ==
    ASSUME NEW a, NEW b1, NEW b2, NEW c1, NEW c2,
           a = "c" => (b1 = "d" <=> b2 = "d"), a = "h" => (c1 = "x" <=> c2 = "x")
    PROVE  Chosen(a, b1, c1) = Chosen(a, b2, c2)
<1>1. CASE a = "c"
  <2>1. (IF b1 = "d" THEN "cd" ELSE "cat") = (IF b2 = "d" THEN "cd" ELSE "cat")
    BY <1>1
  <2>. QED BY <1>1, <2>1 DEF Chosen
<1>2. CASE a = "h"
  <2>1. (IF c1 = "x" THEN "hexdump" ELSE "help") = (IF c2 = "x" THEN "hexdump" ELSE "help")
    BY <1>2
  <2>. QED BY <1>2, <2>1 DEF Chosen
<1>3. CASE a # "c" /\ a # "h"
  BY <1>3 DEF Chosen
<1>. QED BY <1>1, <1>2, <1>3

LEMMA ChosenAsTyped ==
    ASSUME NEW m, NEW t, OnLine(m, t), Parsed(m).ok, t # <<"h">>
    PROVE  LET w == Parsed(m).line
           IN  Chosen(w[0], w[1], w[2]) = Chosen(CharAt(t, 1), CharAt(t, 2), CharAt(t, 3))
<1> DEFINE w == Parsed(m).line
           L == Len(t)
<1>1. /\ w[0] = CharAt(t, 1)
      /\ \A i \in 0..L : w[i] = CharAt(t, i + 1) \/ (w[i] = Nul /\ CharAt(t, i + 1) = Space)
  BY CellsRead
<1> HIDE DEF w
<1>2. t \in Seq(Chars) /\ L \in Nat
  BY DEF OnLine
<1>3. Nul \notin CommandLetters /\ Space \notin CommandLetters
  BY ShellAssumption, Zenon
<1>4. Nul # "c" /\ Nul # "h" /\ Nul # "d" /\ Nul # "x" /\ Space # "d" /\ Space # "x"
  BY <1>3 DEF CommandLetters
<1>5. w[0] = "c" => (w[1] = "d" <=> CharAt(t, 2) = "d")
  <2> SUFFICES ASSUME w[0] = "c" PROVE w[1] = "d" <=> CharAt(t, 2) = "d"
    OBVIOUS
  <2>1. 1 \in 0..L /\ 1 + 1 = 2
    BY <1>1, <1>2, <1>4 DEF CharAt
  <2>. QED BY <1>1, <1>4, <2>1
<1>6. w[0] = "h" => (w[2] = "x" <=> CharAt(t, 3) = "x")
  <2> SUFFICES ASSUME w[0] = "h" PROVE w[2] = "x" <=> CharAt(t, 3) = "x"
    OBVIOUS
  <2>1. L # 0 /\ t[1] = "h"
    BY <1>1, <1>2, <1>4 DEF CharAt
  <2>2. L # 1
    BY <1>2, <2>1
  <2>3. 2 \in 0..L /\ 2 + 1 = 3
    <3>1. L \in Nat /\ L # 0 /\ L # 1
      BY <1>2, <2>1, <2>2
    <3> HIDE DEF L
    <3>. QED BY <3>1
  <2>. QED BY <1>1, <1>4, <2>3
<1>7. Chosen(w[0], w[1], w[2]) = Chosen(w[0], CharAt(t, 2), CharAt(t, 3))
  BY <1>5, <1>6, ChosenAlike
<1>. QED BY <1>1, <1>7 DEF w

\* Of a lone h, the first cell is left; the third one chooses among the two.
LEMMA LoneChosen ==
    ASSUME NEW m, OnLine(m, <<"h">>), Parsed(m).ok
    PROVE  LET w == Parsed(m).line
           IN  Chosen(w[0], w[1], w[2]) \in {"help", "hexdump"}
<1> DEFINE w == Parsed(m).line
<1>1. w[0] = CharAt(<<"h">>, 1)
  BY CellsRead
<1> HIDE DEF w
<1>2. w[0] = "h"
  BY <1>1 DEF CharAt
<1>3. Chosen(w[0], w[1], w[2]) \in {"help", "hexdump"}
  BY <1>2 DEF Chosen
<1>. QED BY <1>3 DEF w

LEMMA EnterRuns ==
    ASSUME TextInv, OnEnter
    PROVE  RanAsTyped'
<1> DEFINE p == Parsed(line)
           t == command'.typed
<1> SUFFICES ASSUME RanWhole'
             PROVE  IF t = <<"h">> THEN command'.ran \in {"help", "hexdump"}
                    ELSE command'.ran = Chosen(CharAt(t, 1), CharAt(t, 2), CharAt(t, 3))
  BY Zenon DEF RanAsTyped
<1>1. command' = Executed(p) /\ OnLine(line, t) /\ p.ok
  BY EnterShown, Zenon
<1>2. command'.ran = Chosen(p.line[0], p.line[1], p.line[2])
  <2>1. command'.ran = IF p.ok THEN Chosen(p.line[0], p.line[1], p.line[2]) ELSE "refused"
    BY <1>1, Zenon DEF Executed
  <2> HIDE DEF p, t
  <2>. QED BY <1>1, <2>1
<1> HIDE DEF t
<1>3. CASE t = <<"h">>
  <2>1. Chosen(p.line[0], p.line[1], p.line[2]) \in {"help", "hexdump"}
    BY <1>1, <1>3, LoneChosen, Zenon
  <2>. QED BY <1>2, <1>3, <2>1, Zenon
<1>4. CASE t # <<"h">>
  <2>1. Chosen(p.line[0], p.line[1], p.line[2])
            = Chosen(CharAt(t, 1), CharAt(t, 2), CharAt(t, 3))
    BY <1>1, <1>4, ChosenAsTyped, Zenon
  <2>. QED BY <1>2, <1>4, <2>1, Zenon
<1>. QED BY <1>3, <1>4

LEMMA RunsNext == ShellInv /\ RanAsTyped /\ [Next]_svars => RanAsTyped'
<1> SUFFICES ASSUME ShellInv, RanAsTyped, [Next]_svars PROVE RanAsTyped'
  OBVIOUS
<1>1. CASE UNCHANGED command
  BY <1>1, Zenon DEF RanAsTyped, RanWhole
<1>2. CASE OnEnter
  BY <1>2, EnterRuns DEF ShellInv
<1>3. CASE command' = NoCommand
  BY <1>3, NothingRan DEF RanAsTyped
<1>. QED BY <1>1, <1>2, <1>3, CommandSteps

\* A line that was neither overrun nor refused runs the command its text names, up to
\* its first zero; what splitting leaves of the line, and what earlier lines left
\* behind it, choose nothing but, for a lone h, between help and hexdump.
THEOREM CommandIsTyped == Spec => []RanAsTyped
<1>1. Init => RanAsTyped
  BY NothingRanAtStart DEF RanAsTyped
<1>. QED BY <1>1, RunsNext, ShellInvAlways, PTL DEF Spec

-----------------------------------------------------------------------------
(* Remainders. *)

Rem(x, m) == x % m

\* r is what is left of x after taking m away as often as it goes.
Leaves(m, x, r) == r \in 0..(m - 1) /\ \E q \in Nat : x = m * q + r

LEMMA RemainderLeft ==
    ASSUME NEW m \in Nat \ {0}, NEW x \in Nat
    PROVE  Leaves(m, x, Rem(x, m))
<1> DEFINE q == x \div m
           r == x % m
<1>1. r = x - m * q /\ q \in Nat /\ r \in 0..(m - 1)
  BY Z3
<1> HIDE DEF q, r
<1>2. m * q \in Nat
  BY <1>1
<1>3. x = m * q + r
  BY <1>1, <1>2
<1>4. Leaves(m, x, r)
  BY <1>1, <1>3 DEF Leaves
<1>. QED BY <1>4 DEF Rem, r

LEMMA LeftIsRemainder ==
    ASSUME NEW m \in Nat \ {0}, NEW x, NEW r, Leaves(m, x, r)
    PROVE  Rem(x, m) = r
<1>1. PICK q \in Nat : x = m * q + r
  BY DEF Leaves
<1>2. r \in 0..(m - 1)
  BY DEF Leaves
<1>3. (m * q + r) % m = r
  BY <1>2
<1>. QED BY <1>1, <1>3 DEF Rem

LEMMA LeftOfSum ==
    ASSUME NEW m \in Nat \ {0}, NEW z \in Nat, NEW x, NEW y, NEW a, NEW b, NEW r,
           Leaves(m, x, a), Leaves(m, y, b), Leaves(m, z * a + b, r)
    PROVE  Leaves(m, z * x + y, r)
<1>1. PICK q \in Nat : x = m * q + a
  BY DEF Leaves
<1>2. PICK p \in Nat : y = m * p + b
  BY DEF Leaves
<1>3. PICK k \in Nat : z * a + b = m * k + r
  BY DEF Leaves
<1>4. a \in Nat /\ b \in Nat /\ r \in Nat /\ r \in 0..(m - 1)
  BY DEF Leaves
<1>5. z * q + p + k \in Nat
  OBVIOUS
<1>6. z * x + y = m * (z * q + p + k) + r
  <2>1. z * (m * q + a) + (m * p + b) = m * (z * q + p) + (z * a + b)
    BY <1>4
  <2>2. m * (z * q + p) + (m * k + r) = m * (z * q + p + k) + r
    BY <1>4
  <2>. QED BY <1>1, <1>2, <1>3, <2>1, <2>2
<1>. QED BY <1>4, <1>5, <1>6 DEF Leaves

\* Reducing x and y first does not change the remainder of z * x + y.
LEMMA ReduceFirst ==
    ASSUME NEW m \in Nat \ {0}, NEW z \in Nat, NEW x \in Nat, NEW y \in Nat,
           NEW a, NEW b, a = Rem(x, m), b = Rem(y, m)
    PROVE  Rem(z * a + b, m) = Rem(z * x + y, m)
<1> DEFINE s == z * a + b
           r == Rem(s, m)
<1>1. Leaves(m, x, a) /\ Leaves(m, y, b)
  BY RemainderLeft
<1>2. a \in Nat /\ b \in Nat
  BY <1>1 DEF Leaves
<1>3. s \in Nat
  BY <1>2
<1>4. Leaves(m, s, r)
  <2> HIDE DEF s
  <2>. QED BY <1>3, RemainderLeft
<1>5. Leaves(m, z * x + y, r)
  <2>1. Leaves(m, z * a + b, r)
    BY <1>4
  <2> HIDE DEF r
  <2>. QED BY <1>1, <2>1, LeftOfSum
<1>6. Rem(z * x + y, m) = r
  <2> HIDE DEF r
  <2>. QED BY <1>5, LeftIsRemainder
<1>. QED BY <1>6

-----------------------------------------------------------------------------
(* The numbers that kill and dump read. *)

Bases == {10, 16}

\* A digit has a value.
LEMMA DigitValueType ==
    ASSUME NEW base \in Bases, NEW c, IsDigit(c, base)
    PROVE  DigitValue(c) \in 0..15
<1>1. PICK d \in 1..base : c \in {Lower[d], Upper[d]}
  BY DEF IsDigit
<1>2. d - 1 \in 0..15 /\ (d - 1) + 1 = d
  BY DEF Bases
<1>3. \E e \in 0..15 : c \in {Lower[e + 1], Upper[e + 1]}
  BY <1>1, <1>2
<1>. QED BY <1>3 DEF DigitValue

\* What atoi and hex_to_long have read after a character.
Readings == [result : Nat, multiplier : Nat]
ReadStep(r, c, base) ==
    IF ~IsDigit(c, base) THEN r
    ELSE [result     |-> (r.result + DigitValue(c) * r.multiplier) % LongRange,
          multiplier |-> (r.multiplier * base) % LongRange]

LEMMA ReadStepType ==
    ASSUME NEW base \in Bases, NEW c, NEW r \in Readings
    PROVE  ReadStep(r, c, base) \in Readings
<1>1. CASE IsDigit(c, base)
  <2>1. /\ r.result + DigitValue(c) * r.multiplier \in Nat
        /\ r.multiplier * base \in Nat
    BY <1>1, DigitValueType DEF Readings, Bases
  <2> DEFINE x == r.result + DigitValue(c) * r.multiplier
             y == r.multiplier * base
  <2>2. x % LongRange \in Nat /\ y % LongRange \in Nat
    <3> HIDE DEF x, y
    <3>. QED BY <2>1, ShellAssumption DEF x, y
  <2>3. ReadStep(r, c, base) = [result |-> x % LongRange, multiplier |-> y % LongRange]
    BY <1>1, Zenon DEF ReadStep
  <2> HIDE DEF x, y
  <2>. QED BY <2>2, <2>3 DEF Readings
<1>2. CASE ~IsDigit(c, base)
  BY <1>2, Zenon DEF ReadStep
<1>. QED BY <1>1, <1>2

\* g is what has been read after each character, from the last one on.
Reads(g, s, base) ==
    /\ g \in [0..Len(s) -> Readings]
    /\ g[0] = [result |-> 0, multiplier |-> 1]
    /\ \A k \in 1..Len(s) : g[k] = ReadStep(g[k - 1], s[Len(s) + 1 - k], base)

LEMMA NumberRead ==
    ASSUME NEW s, Len(s) \in Nat, NEW base \in Bases
    PROVE  \E g : Reads(g, s, base) /\ ReadNumber(s, base) = g[Len(s)].result
<1> DEFINE n == Len(s)
           start == [result |-> 0, multiplier |-> 1]
           Step(e) == [k \in 0..n |-> IF k = 0 THEN start
                                      ELSE ReadStep(e[k - 1], s[n + 1 - k], base)]
           read == CHOOSE e : e = Step(e)
           F == [k \in 1..n |-> [r \in Readings |-> ReadStep(r, s[n + 1 - k], base)]]
<1>0. n \in Nat /\ start \in Readings
  BY DEF Readings
<1>1. F \in [1..n -> [Readings -> Readings]]
  BY ReadStepType
<1>2. PICK g \in [0..n -> Readings] : Recurs(g, start, n, F)
  <2> HIDE DEF F, start, n
  <2>. QED BY <1>0, <1>1, RecursionExists
<1>3. g = Step(g)
  <2>1. ASSUME NEW k \in 0..n
        PROVE  g[k] = IF k = 0 THEN start ELSE ReadStep(g[k - 1], s[n + 1 - k], base)
    <3>1. CASE k = 0
      BY <1>2, <3>1 DEF Recurs
    <3>2. CASE k # 0
      <4>1. k \in 1..n /\ k - 1 \in 0..n
        BY <3>2
      <4>2. g[k] = F[k][g[k - 1]]
        BY <1>2, <4>1 DEF Recurs
      <4>3. g[k - 1] \in Readings
        BY <4>1
      <4>. QED BY <3>2, <4>1, <4>2, <4>3
    <3>. QED BY <3>1, <3>2
  <2> HIDE DEF start, F, n
  <2>. QED BY <2>1
<1>4. read = Step(read)
  <2> HIDE DEF Step
  <2>. QED BY <1>3
<1>5. ReadNumber(s, base) = read[n].result
  BY DEF ReadNumber, ReadStep
<1>6. \A k \in 0..n : read[k] = Step(read)[k]
  <2> HIDE DEF read, Step
  <2>. QED BY <1>4
<1>7. /\ read[0] = start
      /\ \A k \in 1..n : read[k] = ReadStep(read[k - 1], s[n + 1 - k], base)
  <2> HIDE DEF read, start
  <2>. QED BY <1>0, <1>6
<1>8. StepAlike(read, g, n)
  <2>1. g[0] = start
    BY <1>2 DEF Recurs
  <2>2. ASSUME NEW k \in 1..n, read[k - 1] = g[k - 1] PROVE read[k] = g[k]
    <3>1. g[k] = ReadStep(g[k - 1], s[n + 1 - k], base)
      <4>1. k \in 0..n /\ k # 0
        OBVIOUS
      <4>2. g[k] = Step(g)[k]
        <5> HIDE DEF Step
        <5>. QED BY <1>3
      <4>. QED BY <4>1, <4>2
    <3>. QED BY <1>7, <2>2, <3>1
  <2> HIDE DEF read, start
  <2>. QED BY <1>7, <2>1, <2>2 DEF StepAlike
<1>9. read[n] = g[n]
  <2>1. \A k \in 0..n : read[k] = g[k]
    <3> HIDE DEF read
    <3>. QED BY <1>0, <1>8, SameRecursion
  <2> HIDE DEF read
  <2>. QED BY <1>0, <2>1
<1>10. Reads(g, s, base)
  <2>1. g[0] = start
    BY <1>2 DEF Recurs
  <2>2. ASSUME NEW k \in 1..n PROVE g[k] = ReadStep(g[k - 1], s[n + 1 - k], base)
    <3>1. k \in 0..n /\ k # 0
      OBVIOUS
    <3>2. g[k] = Step(g)[k]
      <4> HIDE DEF Step
      <4>. QED BY <1>3
    <3>. QED BY <3>1, <3>2
  <2>. QED BY <2>1, <2>2 DEF Reads
<1>. QED BY <1>5, <1>9, <1>10

\* What the digits up to a character stand for.
CountStep(v, c, base) == IF IsDigit(c, base) THEN base * v + DigitValue(c) ELSE v

LEMMA CountStepType ==
    ASSUME NEW base \in Bases, NEW c, NEW v \in Nat
    PROVE  CountStep(v, c, base) \in Nat
<1>1. CASE IsDigit(c, base)
  BY <1>1, DigitValueType DEF CountStep, Bases
<1>2. CASE ~IsDigit(c, base)
  BY <1>2 DEF CountStep
<1>. QED BY <1>1, <1>2

Counts(h, s, base) ==
    /\ h \in [0..Len(s) -> Nat]
    /\ h[0] = 0
    /\ \A k \in 1..Len(s) : h[k] = CountStep(h[k - 1], s[k], base)

LEMMA NumberCounted ==
    ASSUME NEW s, Len(s) \in Nat, NEW base \in Bases
    PROVE  \E h : Counts(h, s, base) /\ NumberIn(s, base) = h[Len(s)] % LongRange
<1> DEFINE n == Len(s)
           Step(e) == [k \in 0..n |-> IF k = 0 THEN 0 ELSE CountStep(e[k - 1], s[k], base)]
           number == CHOOSE e : e = Step(e)
           F == [k \in 1..n |-> [v \in Nat |-> CountStep(v, s[k], base)]]
<1>0. n \in Nat /\ 0 \in Nat
  OBVIOUS
<1>1. F \in [1..n -> [Nat -> Nat]]
  BY CountStepType
<1>2. PICK h \in [0..n -> Nat] : Recurs(h, 0, n, F)
  <2> HIDE DEF F, n
  <2>. QED BY <1>0, <1>1, RecursionExists
<1>3. \A k \in 1..n : h[k] = CountStep(h[k - 1], s[k], base)
  <2> TAKE k \in 1..n
  <2>1. k \in 1..n /\ k - 1 \in 0..n
    OBVIOUS
  <2>2. h[k] = F[k][h[k - 1]]
    BY <1>2, <2>1 DEF Recurs
  <2>3. h[k - 1] \in Nat
    BY <2>1
  <2>. QED BY <2>1, <2>2, <2>3
<1>4. h[0] = 0
  BY <1>2 DEF Recurs
<1>5. h = Step(h)
  <2>1. \A k \in 0..n : h[k] = IF k = 0 THEN 0 ELSE CountStep(h[k - 1], s[k], base)
    BY <1>3, <1>4
  <2>. QED BY <2>1
<1>6. number = Step(number)
  <2> HIDE DEF Step
  <2>. QED BY <1>5
<1>7. NumberIn(s, base) = number[n] % LongRange
  BY DEF NumberIn, CountStep
<1>8. \A k \in 0..n : number[k] = Step(number)[k]
  <2> HIDE DEF number, Step
  <2>. QED BY <1>6
<1>9. /\ number[0] = 0
      /\ \A k \in 1..n : number[k] = CountStep(number[k - 1], s[k], base)
  <2> HIDE DEF number
  <2>. QED BY <1>0, <1>8
<1>10. StepAlike(number, h, n)
  <2> HIDE DEF number
  <2>. QED BY <1>3, <1>4, <1>9 DEF StepAlike
<1>11. number[n] = h[n]
  <2> HIDE DEF number
  <2>1. \A k \in 0..n : number[k] = h[k]
    BY <1>0, <1>10, SameRecursion
  <2>. QED BY <1>0, <2>1
<1>. QED
  <2> HIDE DEF number
  <2>. QED BY <1>3, <1>4, <1>7, <1>11 DEF Counts

\* One character: what lies before it counts as many times more as the
\* characters read so far are worth.
LEMMA ReadStepCounts ==
    ASSUME NEW base \in Bases, NEW c, NEW r \in Readings, NEW v \in Nat
    PROVE  Rem(v * ReadStep(r, c, base).multiplier + ReadStep(r, c, base).result, LongRange)
               = Rem(CountStep(v, c, base) * r.multiplier + r.result, LongRange)
<1>1. CASE ~IsDigit(c, base)
  <2>1. ReadStep(r, c, base) = r /\ CountStep(v, c, base) = v
    BY <1>1, Zenon DEF ReadStep, CountStep
  <2>. QED BY <2>1
<1>2. CASE IsDigit(c, base)
  <2> DEFINE d == DigitValue(c)
             x == r.multiplier * base
             y == r.result + d * r.multiplier
             a == x % LongRange
             b == y % LongRange
  <2>1. d \in Nat /\ r.multiplier \in Nat /\ r.result \in Nat /\ base \in Nat
    BY <1>2, DigitValueType DEF Readings, Bases
  <2> HIDE DEF d
  <2>2. x \in Nat /\ y \in Nat
    BY <2>1
  <2>3. ReadStep(r, c, base).multiplier = a /\ ReadStep(r, c, base).result = b
    <3>1. ReadStep(r, c, base) = [result |-> b, multiplier |-> a]
      BY <1>2, Zenon DEF ReadStep, d
    <3> HIDE DEF a, b
    <3>. QED BY <3>1
  <2>4. Rem(v * a + b, LongRange) = Rem(v * x + y, LongRange)
    <3>1. a = Rem(x, LongRange) /\ b = Rem(y, LongRange)
      BY Zenon DEF Rem
    <3> HIDE DEF a, b, x, y
    <3>2. LongRange \in Nat \ {0}
      BY ShellAssumption
    <3>. QED BY <2>2, <3>1, <3>2, ReduceFirst
  <2>5. v * x + y = CountStep(v, c, base) * r.multiplier + r.result
    <3>1. CountStep(v, c, base) = base * v + d
      BY <1>2, Zenon DEF CountStep, d
    <3>2. \A m, u \in Nat : v * (m * base) + (u + d * m) = (base * v + d) * m + u
      BY <2>1
    <3>. QED BY <2>1, <3>1, <3>2
  <2> HIDE DEF a, b, x, y
  <2>. QED BY <2>3, <2>4, <2>5
<1>. QED BY <1>1, <1>2

\* Reading from the last character on, with reductions on the way, gives what
\* the digits stand for from the first on.
LEMMA NumberReadAsTyped ==
    ASSUME NEW s, Len(s) \in Nat, NEW base \in Bases
    PROVE  ReadNumber(s, base) = NumberIn(s, base)
<1>1. PICK g : Reads(g, s, base) /\ ReadNumber(s, base) = g[Len(s)].result
  BY NumberRead
<1>2. PICK h : Counts(h, s, base) /\ NumberIn(s, base) = h[Len(s)] % LongRange
  BY NumberCounted
<1> DEFINE n == Len(s)
           Whole(k) == Rem(h[n - k] * g[k].multiplier + g[k].result, LongRange)
           P == {k \in 0..n : Whole(k) = Rem(h[n], LongRange)}
<1>3. \A k \in 0..n : g[k] \in Readings /\ h[k] \in Nat
  BY <1>1, <1>2 DEF Reads, Counts
<1>4. 0 \in P
  <2>1. g[0].multiplier = 1 /\ g[0].result = 0
    BY <1>1 DEF Reads
  <2>2. n - 0 = n /\ 0 \in 0..n /\ h[n] \in Nat
    BY <1>3
  <2>3. h[n - 0] * g[0].multiplier + g[0].result = h[n]
    BY <2>1, <2>2
  <2>. QED BY <2>2, <2>3
<1>5. ASSUME NEW k \in 1..n, k - 1 \in P PROVE k \in P
  <2>1. g[k] = ReadStep(g[k - 1], s[n + 1 - k], base)
    BY <1>1 DEF Reads
  <2>2. n + 1 - k \in 1..n /\ (n + 1 - k) - 1 = n - k /\ n - (k - 1) = n + 1 - k
        /\ n - k \in 0..n /\ k - 1 \in 0..n /\ k \in 0..n
    OBVIOUS
  <2>3. h[n + 1 - k] = CountStep(h[n - k], s[n + 1 - k], base)
    BY <1>2, <2>2 DEF Counts
  <2>4. g[k - 1] \in Readings /\ h[n - k] \in Nat
    BY <1>3, <2>2
  <2>5. Whole(k) = Whole(k - 1)
    <3>1. Rem(h[n - k] * g[k].multiplier + g[k].result, LongRange)
              = Rem(h[n + 1 - k] * g[k - 1].multiplier + g[k - 1].result, LongRange)
      <4> DEFINE r == g[k - 1]
                 c == s[n + 1 - k]
                 v == h[n - k]
      <4>1. r \in Readings /\ v \in Nat
        BY <2>4
      <4>2. g[k] = ReadStep(r, c, base) /\ h[n + 1 - k] = CountStep(v, c, base)
        BY <2>1, <2>3
      <4> HIDE DEF r, c, v
      <4>3. Rem(v * ReadStep(r, c, base).multiplier + ReadStep(r, c, base).result, LongRange)
                = Rem(CountStep(v, c, base) * r.multiplier + r.result, LongRange)
        BY <4>1, ReadStepCounts, Zenon
      <4>. QED BY <4>2, <4>3, Zenon DEF r, v
    <3>. QED BY <2>2, <3>1, Zenon
  <2>6. Whole(k - 1) = Rem(h[n], LongRange)
    BY <1>5
  <2> HIDE DEF Whole
  <2>. QED BY <2>2, <2>5, <2>6
<1>6. n \in P
  <2> HIDE DEF P
  <2>1. \A k \in 0..n : k \in P
    BY <1>4, <1>5, RangeInduction
  <2>. QED BY <2>1
<1>7. Rem(h[n], LongRange) = Rem(g[n].result, LongRange)
  <2>1. n - n = 0 /\ h[0] = 0 /\ g[n] \in Readings
    BY <1>2, <1>3 DEF Counts
  <2>2. h[n - n] * g[n].multiplier + g[n].result = g[n].result
    BY <2>1 DEF Readings
  <2>3. Whole(n) = Rem(h[n], LongRange)
    BY <1>6
  <2>. QED BY <2>2, <2>3, Zenon
<1>8. Rem(g[n].result, LongRange) = g[n].result
  <2>1. g[n].result \in 0..(LongRange - 1)
    <3> DEFINE P2 == {k \in 0..n : g[k].result \in 0..(LongRange - 1)}
    <3>1. 0 \in P2
      BY <1>1, ShellAssumption DEF Reads
    <3>2. ASSUME NEW k \in 1..n, k - 1 \in P2 PROVE k \in P2
      <4> DEFINE r == g[k - 1]
                 c == s[n + 1 - k]
      <4>1. g[k] = ReadStep(r, c, base) /\ r \in Readings /\ k \in 0..n
        BY <1>1, <1>3 DEF Reads
      <4>2. CASE ~IsDigit(c, base)
        BY <3>2, <4>1, <4>2, Zenon DEF ReadStep
      <4>3. CASE IsDigit(c, base)
        <5> DEFINE y == r.result + DigitValue(c) * r.multiplier
        <5>1. g[k].result = y % LongRange
          BY <4>1, <4>3 DEF ReadStep
        <5>2. y \in Nat
          <6>1. DigitValue(c) \in Nat
            BY <4>3, DigitValueType
          <6>2. r.result \in Nat /\ r.multiplier \in Nat
            BY <4>1 DEF Readings
          <6> HIDE DEF r, c
          <6>. QED BY <6>1, <6>2
        <5> HIDE DEF y
        <5>3. y % LongRange \in 0..(LongRange - 1)
          BY <5>2, ShellAssumption
        <5>. QED BY <4>1, <5>1, <5>3
      <4>. QED BY <4>2, <4>3
    <3>3. \A k \in 0..n : k \in P2
      <4> HIDE DEF P2
      <4>. QED BY <3>1, <3>2, RangeInduction
    <3>. QED BY <3>3
  <2> DEFINE r == g[n].result
  <2>2. r \in 0..(LongRange - 1)
    BY <2>1
  <2> HIDE DEF r
  <2>3. r % LongRange = r
    BY <2>2, ShellAssumption
  <2>. QED BY <2>3 DEF Rem, r
<1>. QED BY <1>1, <1>2, <1>7, <1>8, Zenon DEF Rem

\* What kill and dump get from words is the number in the second.
LEMMA NumberForWords ==
    ASSUME NEW ran, NEW w \in Seq(Seq(Chars))
    PROVE  NumberFor(ran, w) =
               IF Len(w) > 1 /\ ran = "kill" THEN NumberIn(w[2], 10)
               ELSE IF Len(w) > 1 /\ ran = "dump" THEN NumberIn(w[2], 16)
               ELSE NoNumber
<1>1. Len(w) > 1 => Len(w[2]) \in Nat
  <2>1. Len(w) > 1 => w[2] \in Seq(Chars)
    OBVIOUS
  <2>. QED BY <2>1
<1>2. Len(w) > 1 => /\ ReadNumber(w[2], 10) = NumberIn(w[2], 10)
                    /\ ReadNumber(w[2], 16) = NumberIn(w[2], 16)
  BY <1>1, NumberReadAsTyped DEF Bases
<1>3. "kill" # "dump"
  OBVIOUS
<1>. QED BY <1>2, <1>3 DEF NumberFor

LEMMA EnterNumber ==
    ASSUME TextInv, OnEnter
    PROVE  NumberAsTyped'
<1> DEFINE p == Parsed(line)
           args == [k \in 1..Len(p.argv) |-> String(p.line, p.argv[k])]
           t == command'.typed
           w == Words(t)
           ran == command'.ran
           Number == IF Len(w) > 1 /\ ran = "kill" THEN NumberIn(w[2], 10)
                     ELSE IF Len(w) > 1 /\ ran = "dump" THEN NumberIn(w[2], 16)
                     ELSE NoNumber
<1> SUFFICES ASSUME RanWhole' PROVE command'.number = Number
  BY Zenon DEF NumberAsTyped
<1>1. command' = Executed(p) /\ OnLine(line, t) /\ p.ok
  BY EnterShown, Zenon
<1>2. command'.number = NumberFor(ran, args)
  BY <1>1, Zenon DEF Executed
<1>3. /\ args = IF w = <<>> THEN << <<>> >> ELSE w
      /\ w \in Seq(Seq(Chars))
  <2> HIDE DEF t
  <2>. QED BY <1>1, ArgsOf, WordsType, Zenon
<1> HIDE DEF p, args, ran, t
<1>4. CASE w = <<>>
  <2>1. Len(args) = 1 /\ Len(w) = 0
    BY <1>3, <1>4
  <2>. QED BY <1>2, <2>1 DEF NumberFor
<1>5. CASE w # <<>>
  <2>1. args = w /\ w \in Seq(Seq(Chars))
    BY <1>3, <1>5
  <2> HIDE DEF w
  <2>. QED BY <1>2, <2>1, NumberForWords, Zenon
<1>. QED BY <1>4, <1>5

LEMMA NumberNext == ShellInv /\ NumberAsTyped /\ [Next]_svars => NumberAsTyped'
<1> SUFFICES ASSUME ShellInv, NumberAsTyped, [Next]_svars PROVE NumberAsTyped'
  OBVIOUS
<1>1. CASE UNCHANGED command
  BY <1>1, Zenon DEF NumberAsTyped, RanWhole
<1>2. CASE OnEnter
  BY <1>2, EnterNumber DEF ShellInv
<1>3. CASE command' = NoCommand
  BY <1>3, NothingRan DEF NumberAsTyped
<1>. QED BY <1>1, <1>2, <1>3, CommandSteps

\* The number that kill and dump work with is what a long holds of the number
\* typed behind them, for words of any length and a long of any range, although
\* it is read from its last digit on, with every sum and product reduced: of every
\* line that was neither overrun nor refused.
THEOREM NumberIsTyped == Spec => []NumberAsTyped
<1>1. Init => NumberAsTyped
  BY NothingRanAtStart DEF NumberAsTyped
<1>. QED BY <1>1, NumberNext, ShellInvAlways, PTL DEF Spec
=============================================================================
