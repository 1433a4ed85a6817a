-------------------------- MODULE KernelStdioProofs --------------------------
(***************************************************************************)
(* Proofs about the terminal and what prints on it: the types, that the    *)
(* window shows the text of the ring, that the ring is a teletype with a   *)
(* sheet of the window's height, and that numbers, log lines and dumps     *)
(* read back as what they were made from.                                  *)
(***************************************************************************)
EXTENDS KernelStdio, ListFacts, SequenceTheorems

\* What is true of a terminal between two calls.
Terminals ==
    {t \in [buffer : [Lines -> Content], first : Lines, end : Lines, endX : 0..MaxX,
            screen : [Rows -> Content]] :
        /\ LineCount(t) <= WindowSize
        /\ \A r \in Rows :
              r \notin WindowPosition..(WindowPosition + WindowSize) => t.screen[r] = BlankLine}

\* The line of the ring that the window shows as its k-th one.
Row(t, k) == (t.first + k - 1) % MaxY

ShownOf(t) == [k \in 1..LineCount(t) |-> t.buffer[Row(t, k)]]

\* A terminal as the teletype it implements.
Sheet(t) == [lines |-> ShownOf(t), column |-> t.endX]

-----------------------------------------------------------------------------
(* The ring. *)

\* Going around the ring once.
LEMMA Wraps ==
    ASSUME NEW a \in 0..(2 * MaxY - 1)
    PROVE  a % MaxY = IF a < MaxY THEN a ELSE a - MaxY
<1>1. MaxY \in Nat /\ MaxY > 0
  BY TerminalAssumption
<1>2. CASE a < MaxY
  BY <1>1, <1>2
<1>3. CASE a >= MaxY
  <2>1. a - MaxY \in 0..(MaxY - 1)
    BY <1>1, <1>3
  <2>2. a = MaxY * 1 + (a - MaxY)
    BY <1>1
  <2>. QED BY <1>1, <1>3, <2>1, <2>2
<1>. QED BY <1>1, <1>2, <1>3

LEMMA Sizes ==
    /\ MaxX \in Nat /\ MaxX > 0
    /\ MaxY \in Nat /\ WindowSize \in Nat /\ WindowSize > 0 /\ WindowSize <= MaxY - 2
    /\ WindowPosition \in Nat
    /\ InputLength \in 0..MaxX
  BY TerminalAssumption

\* The parts of a terminal.
LEMMA Parts ==
    ASSUME NEW t \in Terminals
    PROVE  /\ t.buffer \in [Lines -> Content]
           /\ t.first \in 0..(MaxY - 1) /\ t.end \in 0..(MaxY - 1)
           /\ t.endX \in 0..MaxX
           /\ t.screen \in [Rows -> Content]
           /\ LineCount(t) \in 0..WindowSize
<1>1. /\ t.first \in 0..(MaxY - 1) /\ t.end \in 0..(MaxY - 1)
      /\ t.buffer \in [Lines -> Content]
      /\ t.screen \in [Rows -> Content]
      /\ t.endX \in 0..MaxX
      /\ LineCount(t) <= WindowSize
  BY DEF Terminals, Lines
<1>2. LineCount(t) \in Int /\ LineCount(t) >= 0
  BY <1>1, Sizes DEF LineCount
<1>. QED BY <1>1, <1>2, Sizes

\* Where the lines shown lie: one after the other up to the end, all different.
LEMMA RowsLie ==
    ASSUME NEW t \in Terminals
    PROVE  LET n == LineCount(t)
           IN  /\ \A k \in 1..(n + 1) :
                     /\ Row(t, k) \in Lines
                     /\ Row(t, k) = IF t.first + k - 1 < MaxY THEN t.first + k - 1
                                    ELSE t.first + k - 1 - MaxY
               /\ Row(t, n + 1) = t.end
               /\ \A j, k \in 1..(n + 1) : j # k => Row(t, j) # Row(t, k)
<1> DEFINE n == LineCount(t)
           at(k) == IF t.first + k - 1 < MaxY THEN t.first + k - 1 ELSE t.first + k - 1 - MaxY
<1>1. t.first \in 0..(MaxY - 1) /\ t.end \in 0..(MaxY - 1) /\ n \in 0..WindowSize
  BY Parts
<1>2. n = IF t.end >= t.first THEN t.end - t.first ELSE MaxY - t.first + t.end
  BY DEF LineCount
<1>3. ASSUME NEW k \in 1..(n + 1)
      PROVE  Row(t, k) = at(k) /\ at(k) \in Lines
  <2>1. t.first + k - 1 \in 0..(2 * MaxY - 1)
    BY <1>1, Sizes
  <2>2. Row(t, k) = at(k)
    <3> DEFINE a == t.first + k - 1
    <3>1. a \in 0..(2 * MaxY - 1)
      BY <2>1
    <3>2. Row(t, k) = a % MaxY
      BY DEF Row
    <3>3. a % MaxY = IF a < MaxY THEN a ELSE a - MaxY
      <4> HIDE DEF a
      <4>. QED BY <3>1, Wraps
    <3>4. at(k) = IF a < MaxY THEN a ELSE a - MaxY
      BY <1>1, Sizes
    <3> HIDE DEF a, at
    <3>. QED BY <3>2, <3>3, <3>4, Zenon
  <2>3. at(k) \in Lines
    BY <2>1, Sizes, <1>1 DEF Lines
  <2>. QED BY <2>2, <2>3
<1> HIDE DEF n
<1>4. n + 1 \in 1..(n + 1) /\ at(n + 1) = t.end
  BY <1>1, <1>2, Sizes
<1>5. ASSUME NEW j \in 1..(n + 1), NEW k \in 1..(n + 1), j # k
      PROVE  at(j) # at(k)
  BY <1>1, <1>5, Sizes
<1> HIDE DEF at
<1>6. Row(t, n + 1) = t.end
  BY <1>3, <1>4
<1>7. \A j, k \in 1..(n + 1) : j # k => Row(t, j) # Row(t, k)
  BY <1>3, <1>5
<1>. QED BY <1>3, <1>6, <1>7 DEF n, at

\* What opening a line does: the next line of the ring is emptied and shown, the
\* oldest one leaves a full window.
LEMMA LineOpens ==
    ASSUME NEW t \in Terminals
    PROVE  LET u == LineOpened(t)
               n == LineCount(t)
           IN  /\ u \in Terminals
               /\ u.buffer = [t.buffer EXCEPT ![t.end] = NulLine]
               /\ u.endX = t.endX
               /\ u.screen = t.screen
               /\ n < WindowSize => /\ LineCount(u) = n + 1
                                    /\ u.first = t.first
               /\ n = WindowSize => /\ LineCount(u) = n
                                    /\ u.first = NextLine(t.first)
<1> DEFINE n == LineCount(t)
           v == [buffer |-> [t.buffer EXCEPT ![t.end] = NulLine], first |-> t.first,
                 end |-> NextLine(t.end), endX |-> t.endX, screen |-> t.screen]
           w == [v EXCEPT !.first = NextLine(t.first)]
<1>1. /\ t.buffer \in [Lines -> Content]
      /\ t.first \in 0..(MaxY - 1) /\ t.end \in 0..(MaxY - 1)
      /\ t.endX \in 0..MaxX
      /\ t.screen \in [Rows -> Content]
      /\ n \in 0..WindowSize
  BY Parts
<1>2. n = IF t.end >= t.first THEN t.end - t.first ELSE MaxY - t.first + t.end
  BY DEF LineCount
<1>3. [t EXCEPT !.buffer[t.end] = NulLine, !.end = NextLine(@)] = v
  <2> DEFINE T == [buffer |-> t.buffer, first |-> t.first, end |-> t.end, endX |-> t.endX,
                   screen |-> t.screen]
             B == [t.buffer EXCEPT ![t.end] = NulLine]
             E == NextLine(t.end)
             R == [T EXCEPT !.buffer = B]
  <2>1. t = T
    BY DEF Terminals
  <2>2. [t EXCEPT !.buffer[t.end] = NulLine, !.end = NextLine(@)]
          = [[t EXCEPT !.buffer = B] EXCEPT !.end = E]
    OBVIOUS
  <2>3. R = [buffer |-> B, first |-> t.first, end |-> t.end, endX |-> t.endX,
             screen |-> t.screen]
    OBVIOUS
  <2>4. [R EXCEPT !.end = E]
          = [buffer |-> B, first |-> t.first, end |-> E, endX |-> t.endX, screen |-> t.screen]
    <3> HIDE DEF B, E, R
    <3>. QED BY <2>3
  <2>. QED BY <2>1, <2>2, <2>4
<1>4. LineOpened(t) = IF LineCount(v) > WindowSize THEN w ELSE v
  BY <1>3 DEF LineOpened
<1>5. NulLine \in Content
  BY DEF NulLine, Content
<1>6. NextLine(t.end) \in Lines /\ NextLine(t.first) \in Lines
  BY <1>1, Sizes DEF NextLine, Lines
<1>7. v.buffer \in [Lines -> Content]
  BY <1>1, <1>5 DEF Lines
<1>8. LineCount(v) = n + 1
  <2>1. LineCount(v) = IF NextLine(t.end) >= t.first THEN NextLine(t.end) - t.first
                       ELSE MaxY - t.first + NextLine(t.end)
    BY DEF LineCount
  <2> HIDE DEF n, v
  <2>. QED BY <1>1, <1>2, <2>1, Sizes DEF NextLine
<1>9. n = WindowSize => LineCount(w) = n
  <2>1. LineCount(w) = IF NextLine(t.end) >= NextLine(t.first)
                       THEN NextLine(t.end) - NextLine(t.first)
                       ELSE MaxY - NextLine(t.first) + NextLine(t.end)
    BY DEF LineCount
  <2> HIDE DEF n, w
  <2>. QED BY <1>1, <1>2, <2>1, Sizes DEF NextLine
<1>10. \A r \in Rows :
          r \notin WindowPosition..(WindowPosition + WindowSize) => t.screen[r] = BlankLine
  BY DEF Terminals
<1>11. CASE n < WindowSize
  <2>1. LineOpened(t) = v
    <3> HIDE DEF n, v, w
    <3>. QED BY <1>1, <1>4, <1>8, <1>11, Sizes
  <2>2. LineCount(v) <= WindowSize
    <3> HIDE DEF n, v
    <3>. QED BY <1>1, <1>8, <1>11, Sizes
  <2>3. v \in Terminals
    BY <1>1, <1>6, <1>7, <1>10, <2>2 DEF Terminals, Lines
  <2>4. /\ v.buffer = [t.buffer EXCEPT ![t.end] = NulLine]
        /\ v.first = t.first /\ v.endX = t.endX /\ v.screen = t.screen
    OBVIOUS
  <2> HIDE DEF v
  <2>5. n # WindowSize
    BY <1>1, <1>11, Sizes
  <2>. QED BY <1>8, <1>11, <2>1, <2>3, <2>4, <2>5
<1>12. CASE n = WindowSize
  <2>1. LineOpened(t) = w
    <3> HIDE DEF n, v, w
    <3>. QED BY <1>1, <1>4, <1>8, <1>12, Sizes
  <2>2. LineCount(w) <= WindowSize
    <3> HIDE DEF n, w
    <3>. QED BY <1>1, <1>9, <1>12, Sizes
  <2>3. w \in Terminals
    BY <1>1, <1>6, <1>7, <1>10, <2>2 DEF Terminals, Lines
  <2>4. /\ w.buffer = [t.buffer EXCEPT ![t.end] = NulLine]
        /\ w.first = NextLine(t.first) /\ w.endX = t.endX /\ w.screen = t.screen
    OBVIOUS
  <2>5. LineCount(w) = n
    BY <1>9, <1>12
  <2> HIDE DEF w
  <2>6. ~ (n < WindowSize)
    BY <1>1, <1>12, Sizes
  <2>. QED BY <1>12, <2>1, <2>3, <2>4, <2>5, <2>6
<1>. QED BY <1>1, <1>11, <1>12, Sizes

\* A line opened on the ring is one opened on the sheet.
LEMMA OpenedScrolls ==
    ASSUME NEW t \in Terminals
    PROVE  Sheet(LineOpened(t)) = Paper!Scrolled(Sheet(t))
<1> DEFINE u == LineOpened(t)
           n == LineCount(t)
           s == ShownOf(t)
           a == Append(s, NulLine)
<1>1. /\ n \in 0..WindowSize
      /\ t.buffer \in [Lines -> Content]
      /\ t.first \in 0..(MaxY - 1) /\ t.end \in 0..(MaxY - 1)
  BY Parts
<1>2. /\ u \in Terminals
      /\ u.buffer = [t.buffer EXCEPT ![t.end] = NulLine]
      /\ u.endX = t.endX
      /\ n < WindowSize => LineCount(u) = n + 1 /\ u.first = t.first
      /\ n = WindowSize => LineCount(u) = n /\ u.first = NextLine(t.first)
  BY LineOpens
<1>3. /\ \A k \in 1..(n + 1) : /\ Row(t, k) \in Lines
                               /\ Row(t, k) = IF t.first + k - 1 < MaxY THEN t.first + k - 1
                                              ELSE t.first + k - 1 - MaxY
      /\ Row(t, n + 1) = t.end
      /\ \A j, k \in 1..(n + 1) : j # k => Row(t, j) # Row(t, k)
  BY RowsLie
<1>4. /\ s \in [1..n -> Content] /\ Len(s) = n
      /\ \A k \in 1..n : s[k] = t.buffer[Row(t, k)]
  BY <1>1, <1>3 DEF ShownOf
<1>5. s \in Seq(Content)
  <2> HIDE DEF s
  <2>. QED BY <1>1, <1>4
<1>6. NulLine \in Content
  BY DEF NulLine, Content
<1>7. /\ a \in Seq(Content) /\ Len(a) = n + 1
      /\ \A k \in 1..(n + 1) : a[k] = IF k = n + 1 THEN NulLine ELSE t.buffer[Row(t, k)]
  <2> HIDE DEF s, n
  <2>. QED BY <1>1, <1>4, <1>5, <1>6
<1>8. \A k \in 1..(n + 1) : a[k] = u.buffer[Row(t, k)]
  <2> SUFFICES ASSUME NEW k \in 1..(n + 1) PROVE a[k] = u.buffer[Row(t, k)]
    OBVIOUS
  <2> HIDE DEF a, u, n
  <2>1. n + 1 \in 1..(n + 1)
    BY <1>1, Sizes
  <2>2. CASE k = n + 1
    BY <1>1, <1>2, <1>3, <1>7, <2>1, <2>2 DEF Lines
  <2>3. CASE k # n + 1
    <3>1. Row(t, k) # t.end /\ Row(t, k) \in Lines
      BY <1>3, <2>1, <2>3
    <3>. QED BY <1>1, <1>2, <1>7, <2>3, <3>1
  <2>. QED BY <2>2, <2>3
<1>9. Paper!Scrolled(Sheet(t)) = [lines |-> Paper!LastLines(a, WindowSize), column |-> t.endX]
  BY DEF Paper!Scrolled, Sheet, Paper!EmptyLine, NulLine, Columns
<1>10. Sheet(u) = [lines |-> ShownOf(u), column |-> t.endX]
  BY <1>2 DEF Sheet
<1>11. ShownOf(u) = Paper!LastLines(a, WindowSize)
  <2>1. CASE n < WindowSize
    <3>1. LineCount(u) = n + 1 /\ u.first = t.first
      BY <1>2, <2>1
    <3>2. ShownOf(u) = [k \in 1..(n + 1) |-> u.buffer[Row(t, k)]]
      BY <3>1 DEF ShownOf, Row
    <3>3. ShownOf(u) = a
      <4> HIDE DEF a, u, n
      <4>. QED BY <1>1, <1>7, <1>8, <3>2
    <3>4. Paper!LastLines(a, WindowSize) = a
      <4> HIDE DEF a, n
      <4>. QED BY <1>1, <1>7, <2>1, Sizes DEF Paper!LastLines
    <3>. QED BY <3>3, <3>4
  <2>2. CASE n = WindowSize
    <3>1. LineCount(u) = n /\ u.first = NextLine(t.first)
      BY <1>2, <2>2
    <3>2. ASSUME NEW k \in 1..n PROVE Row(u, k) = Row(t, k + 1)
      <4>1. Row(u, k) = IF u.first + k - 1 < MaxY THEN u.first + k - 1
                        ELSE u.first + k - 1 - MaxY
        <5>1. k \in 1..(LineCount(u) + 1)
          BY <1>1, <3>1
        <5> HIDE DEF u
        <5>. QED BY <1>2, <5>1, RowsLie
      <4>2. k + 1 \in 1..(n + 1)
        BY <1>1
      <4>3. Row(t, k + 1) = IF t.first + (k + 1) - 1 < MaxY THEN t.first + (k + 1) - 1
                            ELSE t.first + (k + 1) - 1 - MaxY
        BY <1>3, <4>2
      <4> HIDE DEF u, n
      <4>. QED BY <1>1, <3>1, <4>1, <4>3, Sizes DEF NextLine
    <3>3. ShownOf(u) = [k \in 1..n |-> u.buffer[Row(u, k)]]
      BY <3>1 DEF ShownOf
    <3>4. Paper!LastLines(a, WindowSize) = SubSeq(a, 2, n + 1)
      <4> HIDE DEF a, n
      <4>. QED BY <1>1, <1>7, <2>2, Sizes DEF Paper!LastLines
    <3> HIDE DEF a, u, n
    <3>5. /\ SubSeq(a, 2, n + 1) \in Seq(Content)
          /\ Len(SubSeq(a, 2, n + 1)) = n
          /\ \A k \in 1..n : SubSeq(a, 2, n + 1)[k] = a[k + 1]
      BY <1>1, <1>7, Sizes
    <3>6. \A k \in 1..n : a[k + 1] = u.buffer[Row(u, k)]
      BY <1>1, <1>8, <3>2
    <3>. QED BY <1>1, <3>3, <3>4, <3>5, <3>6
  <2>. QED BY <1>1, <2>1, <2>2, Sizes
<1>. QED BY <1>9, <1>10, <1>11

-----------------------------------------------------------------------------
(* Characters. *)

\* A drawn terminal shows its lines on its rows, has the same text, and touches
\* no row outside the window but the one below it.
LEMMA RenderedShows ==
    ASSUME NEW t \in Terminals
    PROVE  LET u == Rendered(t)
           IN  /\ u \in Terminals
               /\ Sheet(u) = Sheet(t)
               /\ LineCount(u) = LineCount(t)
               /\ u.buffer = t.buffer /\ u.first = t.first
               /\ \A k \in 1..LineCount(t) :
                     u.screen[WindowPosition + k - 1] = t.buffer[Row(t, k)]
<1> DEFINE n == LineCount(t)
           drawn == [r \in Rows |->
                        LET k == r - WindowPosition
                        IN  IF k \in 0..(n - 1) THEN t.buffer[(t.first + k) % MaxY]
                            ELSE IF k = n
                            THEN [x \in Columns |-> IF x < InputLength THEN Nul ELSE t.screen[r][x]]
                            ELSE t.screen[r]]
           u == [buffer |-> t.buffer, first |-> t.first, end |-> t.end, endX |-> t.endX,
                 screen |-> drawn]
<1>1. /\ t.buffer \in [Lines -> Content]
      /\ t.first \in 0..(MaxY - 1) /\ t.end \in 0..(MaxY - 1)
      /\ t.endX \in 0..MaxX
      /\ t.screen \in [Rows -> Content]
      /\ n \in 0..WindowSize
  BY Parts
<1>2. Rendered(t) = u
  <2>1. t = [buffer |-> t.buffer, first |-> t.first, end |-> t.end, endX |-> t.endX,
             screen |-> t.screen]
    BY DEF Terminals
  <2>2. Rendered(t) = [t EXCEPT !.screen = drawn]
    BY DEF Rendered
  <2> HIDE DEF drawn
  <2>. QED BY <2>1, <2>2
<1>3. ASSUME NEW k \in 1..n
      PROVE  /\ t.buffer[(t.first + (k - 1)) % MaxY] = t.buffer[Row(t, k)]
             /\ t.buffer[Row(t, k)] \in Content
  <2>1. k \in 1..(n + 1)
    BY <1>1
  <2>2. Row(t, k) \in Lines
    BY <2>1, RowsLie
  <2>3. (t.first + (k - 1)) % MaxY = Row(t, k)
    BY <1>1 DEF Row
  <2>. QED BY <1>1, <2>2, <2>3
<1>4. ASSUME NEW r \in Rows
      PROVE  drawn[r] \in Content
  <2>1. CASE r - WindowPosition \in 0..(n - 1)
    <3> DEFINE k == r - WindowPosition + 1
    <3>1. k \in 1..n /\ k - 1 = r - WindowPosition
      <4>1. r \in Int /\ n \in Nat /\ WindowPosition \in Nat
        BY <1>1, Sizes DEF Rows
      <4> HIDE DEF n
      <4>. QED BY <2>1, <4>1
    <3>2. drawn[r] = t.buffer[(t.first + (k - 1)) % MaxY]
      BY <2>1, <3>1
    <3> HIDE DEF k, drawn, n
    <3>. QED BY <1>3, <3>1, <3>2
  <2>2. CASE r - WindowPosition = n
    <3> DEFINE line == [x \in Columns |-> IF x < InputLength THEN Nul ELSE t.screen[r][x]]
    <3>1. drawn[r] = line
      BY <1>1, <2>2
    <3>2. t.screen[r] \in Content
      BY <1>1
    <3>3. line \in Content
      BY <3>2 DEF Content
    <3>. QED BY <3>1, <3>3
  <2>3. CASE r - WindowPosition \notin 0..(n - 1) /\ r - WindowPosition # n
    BY <1>1, <2>3
  <2>. QED BY <2>1, <2>2, <2>3
<1>5. drawn \in [Rows -> Content]
  BY <1>4
<1>6. ASSUME NEW r \in Rows, r \notin WindowPosition..(WindowPosition + WindowSize)
      PROVE  drawn[r] = BlankLine
  <2>1. r - WindowPosition \notin 0..(n - 1) /\ r - WindowPosition # n
    BY <1>1, <1>6, Sizes DEF Rows
  <2>2. drawn[r] = t.screen[r]
    BY <2>1
  <2>. QED BY <1>6, <2>2 DEF Terminals
<1>7. ASSUME NEW k \in 1..n
      PROVE  drawn[WindowPosition + k - 1] = t.buffer[Row(t, k)]
  <2> DEFINE r == WindowPosition + k - 1
  <2>1. r \in Rows /\ r - WindowPosition = k - 1 /\ k - 1 \in 0..(n - 1)
    BY <1>1, Sizes DEF Rows
  <2>2. drawn[r] = t.buffer[(t.first + (k - 1)) % MaxY]
    BY <2>1
  <2> HIDE DEF drawn, n
  <2>. QED BY <1>3, <2>2
<1>8. LineCount(u) = n
  BY DEF LineCount
<1>9. u \in Terminals
  <2>1. LineCount(u) <= WindowSize
    <3> HIDE DEF u, n
    <3>. QED BY <1>1, <1>8, Sizes
  <2> HIDE DEF drawn
  <2>. QED BY <1>1, <1>5, <1>6, <2>1 DEF Terminals, Lines
<1>10. Sheet(u) = Sheet(t)
  <2>1. ShownOf(u) = ShownOf(t)
    BY <1>8 DEF ShownOf, Row
  <2>. QED BY <2>1 DEF Sheet
<1>11. u.buffer = t.buffer /\ u.first = t.first /\ u.screen = drawn
  OBVIOUS
<1> HIDE DEF drawn, u
<1>. QED BY <1>2, <1>7, <1>8, <1>9, <1>10, <1>11

\* Writing on the last line of the ring is overwriting the last line of the
\* sheet; while no line is shown, it is not seen.
LEMMA WritingOverwrites ==
    ASSUME NEW t \in Terminals, NEW x \in Columns, NEW c \in Chars \cup {Blank},
           NEW y \in 0..MaxX
    PROVE  LET u == [t EXCEPT !.buffer[LastLine(t)][x] = c, !.endX = y]
           IN  /\ u \in Terminals
               /\ Sheet(u) = [lines |-> Paper!Overwritten(ShownOf(t), x, c), column |-> y]
<1> DEFINE n == LineCount(t)
           l == LastLine(t)
           L == [t.buffer[l] EXCEPT ![x] = c]
           B == [t.buffer EXCEPT ![l] = L]
           R == [t EXCEPT !.buffer = B]
           u == [buffer |-> B, first |-> t.first, end |-> t.end, endX |-> y, screen |-> t.screen]
<1>1. /\ t.buffer \in [Lines -> Content]
      /\ t.first \in 0..(MaxY - 1) /\ t.end \in 0..(MaxY - 1)
      /\ t.endX \in 0..MaxX
      /\ t.screen \in [Rows -> Content]
      /\ n \in 0..WindowSize
  BY Parts
<1>2. [t EXCEPT !.buffer[l][x] = c, !.endX = y] = u
  <2>1. t = [buffer |-> t.buffer, first |-> t.first, end |-> t.end, endX |-> t.endX,
             screen |-> t.screen]
    BY DEF Terminals
  <2>2. [t EXCEPT !.buffer[l][x] = c, !.endX = y] = [R EXCEPT !.endX = y]
    OBVIOUS
  <2>3. R = [buffer |-> B, first |-> t.first, end |-> t.end, endX |-> t.endX,
             screen |-> t.screen]
    <3> HIDE DEF B
    <3>. QED BY <2>1
  <2>4. [R EXCEPT !.endX = y] = u
    <3> HIDE DEF B, R
    <3>. QED BY <2>3
  <2>. QED BY <2>2, <2>4
<1>3. l \in Lines
  BY <1>1, Sizes DEF LastLine, Lines
<1>4. L \in Content
  BY <1>1, <1>3 DEF Content
<1>5. B \in [Lines -> Content]
  <2> HIDE DEF L, l
  <2>. QED BY <1>1, <1>3, <1>4
<1>6. LineCount(u) = n
  BY DEF LineCount
<1>7. u \in Terminals
  <2>1. LineCount(u) <= WindowSize
    <3> HIDE DEF u, n
    <3>. QED BY <1>1, <1>6, Sizes
  <2>2. \A r \in Rows :
           r \notin WindowPosition..(WindowPosition + WindowSize) => t.screen[r] = BlankLine
    BY DEF Terminals
  <2> HIDE DEF B
  <2>. QED BY <1>1, <1>5, <2>1, <2>2 DEF Terminals, Lines
<1>8. ASSUME NEW k \in 1..n
      PROVE  /\ Row(t, k) \in Lines
             /\ Row(t, k) = l <=> k = n
  <2>1. /\ k \in 1..(n + 1) /\ n \in 1..(n + 1)
        /\ \A j \in 1..(n + 1) :
              /\ Row(t, j) \in Lines
              /\ Row(t, j) = IF t.first + j - 1 < MaxY THEN t.first + j - 1
                             ELSE t.first + j - 1 - MaxY
        /\ \A i, j \in 1..(n + 1) : i # j => Row(t, i) # Row(t, j)
    BY <1>1, RowsLie
  <2>2. n = IF t.end >= t.first THEN t.end - t.first ELSE MaxY - t.first + t.end
    BY DEF LineCount
  <2>3. Row(t, n) = IF t.first + n - 1 < MaxY THEN t.first + n - 1 ELSE t.first + n - 1 - MaxY
    BY <2>1
  <2> HIDE DEF n
  <2>4. Row(t, n) = l
    BY <1>1, <2>1, <2>2, <2>3, Sizes DEF LastLine
  <2>. QED BY <2>1, <2>4
<1>9. ShownOf(t) = [k \in 1..n |-> t.buffer[Row(t, k)]] /\ Len(ShownOf(t)) = n
  BY <1>1 DEF ShownOf
<1>10. ShownOf(u) = [k \in 1..n |-> B[Row(t, k)]]
  <2>1. ShownOf(u) = [k \in 1..LineCount(u) |-> u.buffer[Row(u, k)]]
    BY DEF ShownOf
  <2>2. u.buffer = B /\ \A k : Row(u, k) = Row(t, k)
    BY DEF Row
  <2> HIDE DEF u, B, n
  <2>. QED BY <1>6, <2>1, <2>2
<1>11. Paper!Overwritten(ShownOf(t), x, c)
         = [k \in 1..n |-> IF k = n THEN [t.buffer[Row(t, k)] EXCEPT ![x] = c]
                           ELSE t.buffer[Row(t, k)]]
  <2>1. \A k \in 1..n : ShownOf(t)[k] = t.buffer[Row(t, k)]
    BY <1>9
  <2> HIDE DEF n
  <2>. QED BY <1>9, <2>1 DEF Paper!Overwritten
<1>12. ASSUME NEW k \in 1..n
       PROVE  B[Row(t, k)] = IF k = n THEN [t.buffer[Row(t, k)] EXCEPT ![x] = c]
                             ELSE t.buffer[Row(t, k)]
  <2>1. CASE k = n
    <3>1. Row(t, k) = l /\ l \in Lines
      BY <1>3, <1>8, <2>1
    <3>2. B[l] = L
      <4> HIDE DEF l, L
      <4>. QED BY <1>1, <1>3
    <3> HIDE DEF l, n, B
    <3>. QED BY <2>1, <3>1, <3>2
  <2>2. CASE k # n
    <3>1. Row(t, k) # l /\ Row(t, k) \in Lines
      BY <1>8, <2>2
    <3>2. B[Row(t, k)] = t.buffer[Row(t, k)]
      <4> HIDE DEF l, L, n
      <4>. QED BY <1>1, <3>1
    <3> HIDE DEF n, B
    <3>. QED BY <2>2, <3>2
  <2>. QED BY <2>1, <2>2
<1>13. ShownOf(u) = Paper!Overwritten(ShownOf(t), x, c)
  <2> HIDE DEF B, n, u
  <2>. QED BY <1>10, <1>11, <1>12
<1>14. Sheet(u) = [lines |-> Paper!Overwritten(ShownOf(t), x, c), column |-> y]
  <2>1. u.endX = y
    OBVIOUS
  <2> HIDE DEF u
  <2>. QED BY <1>13, <2>1 DEF Sheet
<1> HIDE DEF u
<1>. QED BY <1>2, <1>7, <1>14 DEF l

\* Only where the next character goes changes.
LEMMA MovingTypes ==
    ASSUME NEW t \in Terminals, NEW y \in 0..MaxX
    PROVE  LET u == [t EXCEPT !.endX = y]
           IN  /\ u \in Terminals
               /\ Sheet(u) = [lines |-> ShownOf(t), column |-> y]
<1> DEFINE u == [buffer |-> t.buffer, first |-> t.first, end |-> t.end, endX |-> y,
                 screen |-> t.screen]
<1>1. t = [buffer |-> t.buffer, first |-> t.first, end |-> t.end, endX |-> t.endX,
           screen |-> t.screen]
  BY DEF Terminals
<1>2. [t EXCEPT !.endX = y] = u
  BY <1>1
<1>3. LineCount(u) = LineCount(t)
  BY DEF LineCount
<1>4. u \in Terminals
  BY <1>3 DEF Terminals
<1>5. ShownOf(u) = ShownOf(t)
  BY <1>3 DEF ShownOf, Row
<1>6. Sheet(u) = [lines |-> ShownOf(t), column |-> y]
  BY <1>5 DEF Sheet
<1>. QED BY <1>2, <1>4, <1>6

\* The column a character is put in.
LEMMA ColumnOf ==
    ASSUME NEW y \in 0..MaxX
    PROVE  y % MaxX = IF y = MaxX THEN 0 ELSE y
<1>1. CASE y = MaxX
  BY <1>1, Sizes
<1>2. CASE y < MaxX
  BY <1>2, Sizes
<1>. QED BY <1>1, <1>2, Sizes

\* A character put on the terminal is one typed on the sheet.
LEMMA PutTypes ==
    ASSUME NEW t \in Terminals, NEW c \in Printable
    PROVE  /\ Put(t, c) \in Terminals
           /\ Sheet(Put(t, c)) = Paper!Typed(Sheet(t), c)
<1> DEFINE p == Sheet(t)
           o == LineOpened(t)
           u == IF t.endX >= MaxX THEN o ELSE t
           col == t.endX % MaxX
<1>1. t.endX \in 0..MaxX /\ p.column = t.endX /\ p.lines = ShownOf(t)
  BY Parts DEF Sheet
<1>2. col = IF t.endX = MaxX THEN 0 ELSE t.endX
  BY <1>1, ColumnOf
<1>3. o \in Terminals /\ o.endX = t.endX /\ Sheet(o) = Paper!Scrolled(p)
  BY LineOpens, OpenedScrolls
<1>4. u = IF t.endX = MaxX THEN o ELSE t
  BY <1>1, Sizes
<1>5. NewLine # Backspace
  BY TerminalAssumption
<1>6. CASE c = NewLine
  <2> DEFINE d == Rendered(t)
             v == LineOpened(d)
  <2>1. d \in Terminals /\ Sheet(d) = p
    BY RenderedShows
  <2>2. v \in Terminals /\ Sheet(v) = Paper!Scrolled(p)
    <3> HIDE DEF d
    <3>. QED BY <2>1, LineOpens, OpenedScrolls
  <2>3. Put(t, c) = [v EXCEPT !.endX = 0]
    BY <1>5, <1>6 DEF Put
  <2>4. [v EXCEPT !.endX = 0] \in Terminals
        /\ Sheet([v EXCEPT !.endX = 0]) = [lines |-> ShownOf(v), column |-> 0]
    <3> HIDE DEF v
    <3>. QED BY <2>2, MovingTypes, Sizes
  <2>5. Paper!Typed(p, c) = [Paper!Scrolled(p) EXCEPT !.column = 0]
    BY <1>5, <1>6 DEF Paper!Typed
  <2>6. [Sheet(v) EXCEPT !.column = 0] = [lines |-> ShownOf(v), column |-> 0]
    BY DEF Sheet
  <2> HIDE DEF v
  <2>. QED BY <2>2, <2>3, <2>4, <2>5, <2>6
<1>7. CASE c = Backspace /\ col > 0
  <2>1. t.endX # MaxX /\ t.endX # 0 /\ col = t.endX /\ u = t /\ col - 1 \in Columns
        /\ t.endX - 1 \in 0..MaxX
    <3> HIDE DEF col, u
    <3>. QED BY <1>1, <1>2, <1>4, <1>7, Sizes DEF Columns
  <2> DEFINE v == [t EXCEPT !.buffer[LastLine(t)][col - 1] = Blank, !.endX = t.endX - 1]
  <2>2. Put(t, c) = v
    <3>1. Put(t, c) = [u EXCEPT !.buffer[LastLine(u)][col - 1] = Blank, !.endX = @ - 1]
      BY <1>5, <1>7 DEF Put
    <3> HIDE DEF u, col
    <3>. QED BY <2>1, <3>1
  <2>3. v \in Terminals
        /\ Sheet(v) = [lines |-> Paper!Overwritten(ShownOf(t), col - 1, Blank), column |-> t.endX - 1]
    <3> HIDE DEF col
    <3>. QED BY <2>1, WritingOverwrites
  <2>4. Paper!Typed(p, c) = [lines |-> Paper!Overwritten(p.lines, p.column - 1, Blank),
                             column |-> p.column - 1]
    <3> HIDE DEF p, col
    <3>. QED BY <1>1, <1>5, <1>7, <2>1 DEF Paper!Typed
  <2> HIDE DEF v, col
  <2>. QED BY <1>1, <2>1, <2>2, <2>3, <2>4
<1>8. CASE c = Backspace /\ col = 0
  <2>1. Put(t, c) = u
    BY <1>5, <1>8 DEF Put
  <2>2. CASE t.endX = MaxX
    <3>1. Paper!Typed(p, c) = Paper!Scrolled(p)
      <4> HIDE DEF p
      <4>. QED BY <1>1, <1>5, <1>8, <2>2 DEF Paper!Typed
    <3> HIDE DEF u, o
    <3>. QED BY <1>3, <1>4, <2>1, <2>2, <3>1
  <2>3. CASE t.endX # MaxX
    <3>1. t.endX = 0 /\ u = t
      <4> HIDE DEF col, u
      <4>. QED BY <1>2, <1>4, <1>8, <2>3
    <3>2. Paper!Typed(p, c) = p
      <4> HIDE DEF p
      <4>. QED BY <1>1, <1>5, <1>8, <2>3, <3>1 DEF Paper!Typed
    <3> HIDE DEF u
    <3>. QED BY <2>1, <3>1, <3>2
  <2>. QED BY <2>2, <2>3
<1>9. CASE c # NewLine /\ c # Backspace
  <2> DEFINE v == [u EXCEPT !.buffer[LastLine(u)][col] = c, !.endX = col + 1]
             q == IF t.endX = MaxX THEN [Paper!Scrolled(p) EXCEPT !.column = 0] ELSE p
  <2>1. Put(t, c) = v
    BY <1>9 DEF Put
  <2>2. Paper!Typed(p, c) = [lines |-> Paper!Overwritten(q.lines, q.column, c),
                             column |-> q.column + 1]
    <3>1. p.column = MaxX <=> t.endX = MaxX
      BY <1>1
    <3> HIDE DEF p
    <3>. QED BY <1>9, <3>1 DEF Paper!Typed
  <2>3. c \in Chars \cup {Blank}
    BY <1>9 DEF Printable
  <2>4. u \in Terminals /\ col \in Columns /\ col + 1 \in 0..MaxX
    <3> HIDE DEF u, col, o
    <3>. QED BY <1>1, <1>2, <1>3, <1>4, Sizes DEF Columns
  <2>5. v \in Terminals
        /\ Sheet(v) = [lines |-> Paper!Overwritten(ShownOf(u), col, c), column |-> col + 1]
    <3> HIDE DEF u, col
    <3>. QED BY <2>3, <2>4, WritingOverwrites
  <2>6. q.lines = ShownOf(u) /\ q.column = col
    <3>1. CASE t.endX = MaxX
      <4>1. q = [Sheet(o) EXCEPT !.column = 0]
        <5> HIDE DEF p, o
        <5>. QED BY <1>3, <3>1
      <4>2. q.lines = ShownOf(o) /\ q.column = 0
        <5> HIDE DEF q, o
        <5>. QED BY <4>1 DEF Sheet
      <4> HIDE DEF q, u, col, o
      <4>. QED BY <1>2, <1>4, <3>1, <4>2
    <3>2. CASE t.endX # MaxX
      <4>1. q = p
        BY <3>2
      <4> HIDE DEF q, u, col, p
      <4>. QED BY <1>1, <1>2, <1>4, <3>2, <4>1
    <3>. QED BY <3>1, <3>2
  <2> HIDE DEF v, q, u, col
  <2>. QED BY <2>1, <2>2, <2>5, <2>6
<1>10. col > 0 \/ col = 0
  <2> HIDE DEF col
  <2>. QED BY <1>1, <1>2, Sizes
<1>. QED BY <1>6, <1>7, <1>8, <1>9, <1>10

-----------------------------------------------------------------------------
(* Strings. *)

Sheets == {Sheet(t) : t \in Terminals}

\* Typing the string makes the sheet p the sheet q.
Typing(string, p, q) ==
    \E e \in [0..Len(string) -> Sheets] :
        /\ e[0] = p /\ e[Len(string)] = q
        /\ \A k \in 1..Len(string) : e[k] = Paper!Typed(e[k - 1], string[k])

\* The lines shown are on the display.
Drawn(t) == \A k \in 1..LineCount(t) : t.screen[WindowPosition + k - 1] = t.buffer[Row(t, k)]

\* Printing a string is typing it on the sheet, and draws the text.
LEMMA PrintingTypes ==
    ASSUME NEW t \in Terminals, NEW string \in Seq(Printable)
    PROVE  /\ Printed(t, string) \in Terminals
           /\ Drawn(Printed(t, string))
           /\ Typing(string, Sheet(t), Sheet(Printed(t, string)))
<1> DEFINE N == Len(string)
           F == [k \in 1..N |-> [u \in Terminals |-> Put(u, string[k])]]
           Step(f) == [k \in 0..N |-> IF k = 0 THEN t ELSE Put(f[k - 1], string[k])]
           after == CHOOSE f : f = Step(f)
<1>1. N \in Nat /\ \A k \in 1..N : string[k] \in Printable
  OBVIOUS
<1>2. F \in [1..N -> [Terminals -> Terminals]]
  BY <1>1, PutTypes
<1>3. PICK g \in [0..N -> Terminals] : Recurs(g, t, N, F)
  <2>1. N \in Nat
    BY <1>1
  <2> HIDE DEF F, N, Step, after
  <2>. QED BY <1>2, <2>1, RecursionExists
<1>4. g[0] = t /\ \A k \in 1..N : g[k - 1] \in Terminals /\ g[k] = Put(g[k - 1], string[k])
  <2>1. ASSUME NEW k \in 1..N
        PROVE  g[k - 1] \in Terminals /\ g[k] = Put(g[k - 1], string[k])
    <3>1. g[k - 1] \in Terminals
      BY <1>1
    <3>2. g[k] = F[k][g[k - 1]]
      BY <1>3 DEF Recurs
    <3>. QED BY <3>1, <3>2
  <2>. QED BY <1>3, <2>1 DEF Recurs
<1>5. g = Step(g)
  <2>1. \A k \in 0..N : g[k] = IF k = 0 THEN t ELSE Put(g[k - 1], string[k])
    BY <1>1, <1>4
  <2>. QED BY <2>1
<1>6. after = Step(after)
  <2> HIDE DEF Step
  <2>. QED BY <1>5
<1>7. Printed(t, string) = Rendered(after[N])
  BY DEF Printed
<1>8. \A k \in 0..N : after[k] = g[k]
  <2> HIDE DEF after
  <2>1. after[0] = g[0]
    BY <1>1, <1>4, <1>6
  <2>2. ASSUME NEW k \in 1..N, after[k - 1] = g[k - 1] PROVE after[k] = g[k]
    <3>1. k \in 0..N /\ k # 0
      BY <1>1
    <3>2. after[k] = Put(after[k - 1], string[k])
      BY <1>6, <3>1
    <3>. QED BY <1>4, <2>2, <3>2
  <2> HIDE DEF N, Step
  <2>3. StepAlike(after, g, N)
    BY <2>1, <2>2 DEF StepAlike
  <2>. QED BY <1>1, <2>3, SameRecursion
<1>9. g[N] \in Terminals /\ Printed(t, string) = Rendered(g[N])
  <2> HIDE DEF after
  <2>. QED BY <1>1, <1>7, <1>8
<1>10. /\ Rendered(g[N]) \in Terminals
       /\ Sheet(Rendered(g[N])) = Sheet(g[N])
       /\ Drawn(Rendered(g[N]))
  <2> DEFINE u == Rendered(g[N])
  <2>1. /\ u \in Terminals
        /\ Sheet(u) = Sheet(g[N])
        /\ LineCount(u) = LineCount(g[N])
        /\ u.buffer = g[N].buffer /\ u.first = g[N].first
        /\ \A k \in 1..LineCount(g[N]) :
              u.screen[WindowPosition + k - 1] = g[N].buffer[Row(g[N], k)]
    BY <1>9, RenderedShows
  <2> HIDE DEF u
  <2>2. Drawn(u)
    BY <2>1 DEF Drawn, Row
  <2>. QED BY <2>1, <2>2 DEF u
<1>11. Typing(string, Sheet(t), Sheet(g[N]))
  <2> DEFINE e == [k \in 0..N |-> Sheet(g[k])]
  <2>1. e \in [0..N -> Sheets]
    BY <1>3 DEF Sheets
  <2>2. e[0] = Sheet(t) /\ e[N] = Sheet(g[N])
    BY <1>1, <1>4
  <2>3. ASSUME NEW k \in 1..N PROVE e[k] = Paper!Typed(e[k - 1], string[k])
    <3>1. k \in 0..N /\ k - 1 \in 0..N
      BY <1>1
    <3>2. e[k] = Sheet(g[k]) /\ e[k - 1] = Sheet(g[k - 1])
      BY <3>1
    <3>3. Sheet(g[k]) = Paper!Typed(Sheet(g[k - 1]), string[k])
      BY <1>1, <1>4, PutTypes
    <3> HIDE DEF e
    <3>. QED BY <3>2, <3>3
  <2> HIDE DEF e
  <2>. QED BY <2>1, <2>2, <2>3 DEF Typing
<1>. QED BY <1>9, <1>10, <1>11

\* What typing a string makes of a sheet is what the teletype prints.
LEMMA TypingPrints ==
    ASSUME NEW string \in Seq(Printable), NEW p, NEW q, Typing(string, p, q)
    PROVE  Paper!Printed(p, string) = q
<1> DEFINE N == Len(string)
           Step(f) == [k \in 0..N |-> IF k = 0 THEN p ELSE Paper!Typed(f[k - 1], string[k])]
           after == CHOOSE f : f = Step(f)
<1>1. N \in Nat
  OBVIOUS
<1>2. PICK e \in [0..N -> Sheets] :
         /\ e[0] = p /\ e[N] = q
         /\ \A k \in 1..N : e[k] = Paper!Typed(e[k - 1], string[k])
  BY DEF Typing
<1>3. e = Step(e)
  <2>1. \A k \in 0..N : e[k] = IF k = 0 THEN p ELSE Paper!Typed(e[k - 1], string[k])
    BY <1>1, <1>2
  <2>. QED BY <2>1
<1>4. after = Step(after)
  <2> HIDE DEF Step
  <2>. QED BY <1>3
<1>5. Paper!Printed(p, string) = after[N]
  BY DEF Paper!Printed
<1> HIDE DEF after
<1>6. after[0] = e[0]
  BY <1>1, <1>2, <1>4
<1>7. \A k \in 1..N : after[k - 1] = e[k - 1] => after[k] = e[k]
  BY <1>1, <1>2, <1>4
<1>8. \A k \in 0..N : after[k] = e[k]
  <2> HIDE DEF N, Step
  <2>3. StepAlike(after, e, N)
    BY <1>6, <1>7 DEF StepAlike
  <2>. QED BY <1>1, <2>3, SameRecursion
<1>. QED BY <1>1, <1>2, <1>5, <1>8

\* One string after the other is the two as one.
LEMMA TypingChains ==
    ASSUME NEW a \in Seq(Printable), NEW b \in Seq(Printable), NEW p, NEW q, NEW r,
           Typing(a, p, q), Typing(b, q, r)
    PROVE  Typing(a \o b, p, r)
<1> DEFINE M == Len(a)
           N == Len(b)
           ab == a \o b
<1>1. /\ M \in Nat /\ N \in Nat /\ Len(ab) = M + N
      /\ \A k \in 1..(M + N) : ab[k] = IF k <= M THEN a[k] ELSE b[k - M]
  OBVIOUS
<1>2. PICK e \in [0..M -> Sheets] :
         /\ e[0] = p /\ e[M] = q
         /\ \A k \in 1..M : e[k] = Paper!Typed(e[k - 1], a[k])
  BY DEF Typing
<1>3. PICK f \in [0..N -> Sheets] :
         /\ f[0] = q /\ f[N] = r
         /\ \A k \in 1..N : f[k] = Paper!Typed(f[k - 1], b[k])
  BY DEF Typing
<1> DEFINE g == [k \in 0..(M + N) |-> IF k <= M THEN e[k] ELSE f[k - M]]
<1> HIDE DEF M, N, ab
<1>4. g \in [0..(M + N) -> Sheets]
  BY <1>1
<1>5. g[0] = p
  BY <1>1, <1>2
<1>6. ASSUME NEW k \in M..(M + N) PROVE g[k] = f[k - M]
  BY <1>1, <1>2, <1>3
<1>7. g[M + N] = r
  <2>1. M + N \in M..(M + N) /\ (M + N) - M = N
    BY <1>1
  <2> HIDE DEF g
  <2>. QED BY <1>3, <1>6, <2>1
<1>8. ASSUME NEW k \in 1..(M + N) PROVE g[k] = Paper!Typed(g[k - 1], ab[k])
  <2>1. CASE k <= M
    <3>1. k \in 1..M /\ g[k] = e[k] /\ g[k - 1] = e[k - 1] /\ ab[k] = a[k]
      BY <1>1, <2>1
    <3> HIDE DEF g
    <3>. QED BY <1>2, <3>1
  <2>2. CASE k > M
    <3>1. k \in M..(M + N) /\ k - 1 \in M..(M + N) /\ k - M \in 1..N /\ k - 1 - M = k - M - 1
      BY <1>1, <2>2
    <3>2. ab[k] = b[k - M]
      BY <1>1, <2>2
    <3>3. g[k] = f[k - M] /\ g[k - 1] = f[k - M - 1]
      <4> HIDE DEF g
      <4>. QED BY <1>6, <3>1
    <3> HIDE DEF g
    <3>. QED BY <1>3, <3>1, <3>2, <3>3
  <2>. QED BY <1>1, <2>1, <2>2
<1> HIDE DEF g
<1>9. \E h \in [0..Len(ab) -> Sheets] :
         /\ h[0] = p /\ h[Len(ab)] = r
         /\ \A k \in 1..Len(ab) : h[k] = Paper!Typed(h[k - 1], ab[k])
  BY <1>1, <1>4, <1>5, <1>7, <1>8
<1>. QED BY <1>9 DEF Typing, ab

\* One character on its own.
LEMMA TypingOne ==
    ASSUME NEW t \in Terminals, NEW c \in Printable
    PROVE  Typing(<<c>>, Sheet(t), Sheet(Put(t, c)))
<1> DEFINE e == [k \in 0..1 |-> IF k = 0 THEN Sheet(t) ELSE Sheet(Put(t, c))]
<1>1. Put(t, c) \in Terminals /\ Sheet(Put(t, c)) = Paper!Typed(Sheet(t), c)
  BY PutTypes
<1>2. Len(<<c>>) = 1 /\ <<c>>[1] = c
  OBVIOUS
<1>3. e \in [0..1 -> Sheets] /\ e[0] = Sheet(t) /\ e[1] = Sheet(Put(t, c))
  BY <1>1 DEF Sheets
<1> HIDE DEF e
<1>4. \A k \in 1..1 : e[k] = Paper!Typed(e[k - 1], <<c>>[k])
  <2> SUFFICES e[1] = Paper!Typed(e[1 - 1], <<c>>[1])
    OBVIOUS
  <2>. QED BY <1>1, <1>2, <1>3
<1>. QED BY <1>2, <1>3, <1>4 DEF Typing

-----------------------------------------------------------------------------
(* The calls. *)

\* The inductive invariant: the ring and the display are those of a terminal,
\* and what the ring holds is drawn.
TerminalInv == Terminal \in Terminals /\ Drawn(Terminal)

\* The sheet of the state.
LEMMA SheetNow == Sheet(Terminal) = [lines |-> Shown, column |-> endX]
  BY DEF Sheet, ShownOf, Shown, Row, Terminal

LEMMA InvariantShows == TerminalInv => TypeOK /\ ScreenShows
<1> SUFFICES ASSUME TerminalInv PROVE TypeOK /\ ScreenShows
  OBVIOUS
<1>1. TypeOK
  BY DEF TerminalInv, Terminals, Terminal, TypeOK
<1>2. ScreenShows
  <2> DEFINE n == LineCount(Terminal)
  <2>1. n \in Nat
    BY Parts DEF TerminalInv
  <2>2. Len(Shown) = n /\ \A k \in 1..n : Shown[k] = buffer[(first + k - 1) % MaxY]
    BY <2>1 DEF Shown
  <2>3. \A k \in 1..n : screen[WindowPosition + k - 1] = buffer[(first + k - 1) % MaxY]
    BY DEF TerminalInv, Drawn, Row, Terminal
  <2>4. \A r \in Rows :
           r \notin WindowPosition..(WindowPosition + WindowSize) => screen[r] = BlankLine
    BY DEF TerminalInv, Terminals, Terminal
  <2> HIDE DEF n
  <2>. QED BY <2>2, <2>3, <2>4 DEF ScreenShows
<1>. QED BY <1>1, <1>2

LEMMA InvariantInit == Init => TerminalInv
<1> SUFFICES ASSUME Init PROVE TerminalInv
  OBVIOUS
<1>1. LineCount(Terminal) = 0
  BY DEF Init, LineCount, Terminal
<1>2. BlankLine \in Content
  BY DEF BlankLine, Content
<1>3. buffer \in [Lines -> Content] /\ first \in Lines /\ end \in Lines /\ endX \in 0..MaxX
  BY <1>2, Sizes DEF Init, Lines
<1>4. [x \in Columns |-> IF x < InputLength THEN Nul ELSE Blank] \in Content
  BY DEF Content
<1>5. screen \in [Rows -> Content]
  BY <1>2, <1>4 DEF Init
<1>6. \A r \in Rows :
         r \notin WindowPosition..(WindowPosition + WindowSize) => screen[r] = BlankLine
  BY Sizes DEF Init
<1>7. Terminal \in Terminals
  <2>1. LineCount(Terminal) <= WindowSize
    BY <1>1, Sizes
  <2>. QED BY <1>3, <1>5, <1>6, <2>1 DEF Terminals, Terminal
<1>8. Drawn(Terminal)
  BY <1>1 DEF Drawn
<1>. QED BY <1>7, <1>8 DEF TerminalInv

\* What a call leaves is a drawn terminal, and the string it types on the sheet
\* is what the teletype emits.
LEMMA BecomingEmits ==
    ASSUME TerminalInv, NEW t \in Terminals, Drawn(t), Become(t),
           NEW string \in Seq(Printable), Typing(string, Sheet(Terminal), Sheet(t))
    PROVE  TerminalInv' /\ Paper!Emit(string)
<1>1. t = [buffer |-> t.buffer, first |-> t.first, end |-> t.end, endX |-> t.endX,
           screen |-> t.screen]
  BY DEF Terminals
<1>2. Terminal' = t
  BY <1>1 DEF Terminal, Become
<1>3. TerminalInv'
  <2>1. TerminalInv' <=> Terminal' \in Terminals /\ Drawn(Terminal')
    BY DEF TerminalInv, Drawn, LineCount, Row
  <2>. QED BY <1>2, <2>1
<1>4. Sheet(t) = [lines |-> Shown', column |-> endX']
  BY <1>2 DEF Sheet, ShownOf, Shown, Row, Terminal, LineCount
<1>5. Paper!Printed([lines |-> Shown, column |-> endX], string) = Sheet(t)
  BY SheetNow, TypingPrints
<1>. QED BY <1>3, <1>4, <1>5 DEF Paper!Emit

\* A line break after a string that is typed.
LEMMA BrokenLine ==
    ASSUME NEW t \in Terminals, NEW string \in Seq(Printable), NEW p,
           Typing(string, p, Sheet(t))
    PROVE  /\ Append(string, NewLine) \in Seq(Printable)
           /\ Typing(Append(string, NewLine), p, Sheet(Put(t, NewLine)))
           /\ Printed(t, <<NewLine>>) \in Terminals
           /\ Drawn(Printed(t, <<NewLine>>))
           /\ Typing(Append(string, NewLine), p, Sheet(Printed(t, <<NewLine>>)))
<1>1. NewLine \in Printable /\ <<NewLine>> \in Seq(Printable)
  BY DEF Printable
<1>2. Append(string, NewLine) = string \o <<NewLine>>
  OBVIOUS
<1>3. Typing(<<NewLine>>, Sheet(t), Sheet(Put(t, NewLine)))
  BY <1>1, TypingOne
<1>4. /\ Printed(t, <<NewLine>>) \in Terminals
      /\ Drawn(Printed(t, <<NewLine>>))
      /\ Typing(<<NewLine>>, Sheet(t), Sheet(Printed(t, <<NewLine>>)))
  BY <1>1, PrintingTypes
<1>5. Typing(string \o <<NewLine>>, p, Sheet(Put(t, NewLine)))
  BY <1>1, <1>3, TypingChains
<1>6. Typing(string \o <<NewLine>>, p, Sheet(Printed(t, <<NewLine>>)))
  BY <1>1, <1>4, TypingChains
<1>7. Append(string, NewLine) \in Seq(Printable)
  BY <1>1
<1>. QED BY <1>2, <1>4, <1>5, <1>6, <1>7

LEMMA PrintableStrings == \A string \in Strings : string \in Seq(Printable)
  BY TerminalAssumption DEF Printable

\* A step of the printing calls keeps the invariant and is one of the teletype.
Simulates == TerminalInv' /\ [Paper!Next]_Paper!vars

LEMMA PutcharSimulates ==
    ASSUME TerminalInv, NEW c \in Characters, KernelPutchar(c)
    PROVE  Simulates
<1> DEFINE u == Put(Terminal, c)
           t == Rendered(u)
<1>1. Terminal \in Terminals /\ c \in Printable
  BY StringsAssumption DEF TerminalInv
<1>2. u \in Terminals /\ Typing(<<c>>, Sheet(Terminal), Sheet(u))
  BY <1>1, PutTypes, TypingOne
<1>3. t \in Terminals /\ Sheet(t) = Sheet(u) /\ Drawn(t)
  <2> HIDE DEF u
  <2>1. /\ t \in Terminals
        /\ Sheet(t) = Sheet(u)
        /\ LineCount(t) = LineCount(u)
        /\ t.buffer = u.buffer /\ t.first = u.first
        /\ \A k \in 1..LineCount(u) : t.screen[WindowPosition + k - 1] = u.buffer[Row(u, k)]
    BY <1>2, RenderedShows
  <2> HIDE DEF t
  <2>. QED BY <2>1 DEF Drawn, Row
<1>4. Become(t)
  BY DEF KernelPutchar
<1>5. <<c>> \in Seq(Printable)
  BY <1>1
<1>6. TerminalInv' /\ Paper!Emit(<<c>>)
  <2> HIDE DEF t, u
  <2>. QED BY <1>2, <1>3, <1>4, <1>5, BecomingEmits
<1>. QED BY <1>1, <1>6 DEF Simulates, Paper!Next, Printable

LEMMA PrintSimulates ==
    ASSUME TerminalInv, NEW string \in Strings, KernelPrint(string)
    PROVE  Simulates
<1>1. Terminal \in Terminals /\ string \in Seq(Printable)
  BY PrintableStrings DEF TerminalInv
<1>2. TerminalInv' /\ Paper!Emit(string)
  BY <1>1, PrintingTypes, BecomingEmits DEF KernelPrint
<1>. QED BY <1>2 DEF Simulates, Paper!Next

LEMMA PrintlnSimulates ==
    ASSUME TerminalInv, NEW message \in Messages, KernelPrintln(message)
    PROVE  Simulates
<1> DEFINE u == Printed(Terminal, message)
           t == Printed(u, <<NewLine>>)
<1>1. Terminal \in Terminals /\ message \in Strings /\ message \in Seq(Printable)
  BY PrintableStrings, StringsAssumption DEF TerminalInv
<1>2. u \in Terminals /\ Typing(message, Sheet(Terminal), Sheet(u))
  BY <1>1, PrintingTypes
<1>3. /\ Append(message, NewLine) \in Seq(Printable)
      /\ t \in Terminals /\ Drawn(t)
      /\ Typing(Append(message, NewLine), Sheet(Terminal), Sheet(t))
  <2> HIDE DEF u
  <2>. QED BY <1>1, <1>2, BrokenLine
<1>4. Become(t)
  BY DEF KernelPrintln
<1>5. TerminalInv' /\ Paper!Emit(Append(message, NewLine))
  <2> HIDE DEF t
  <2>. QED BY <1>3, <1>4, BecomingEmits
<1>. QED BY <1>1, <1>5 DEF Simulates, Paper!Next

LEMMA PrintLineSimulates ==
    ASSUME TerminalInv, NEW string \in Strings, PrintLine(string)
    PROVE  Simulates
<1> DEFINE u == Printed(Terminal, string)
           v == Put(u, NewLine)
           t == Rendered(v)
<1>1. Terminal \in Terminals /\ string \in Seq(Printable) /\ NewLine \in Printable
  BY PrintableStrings DEF TerminalInv, Printable
<1>2. u \in Terminals /\ Typing(string, Sheet(Terminal), Sheet(u))
  BY <1>1, PrintingTypes
<1>3. /\ Append(string, NewLine) \in Seq(Printable)
      /\ v \in Terminals
      /\ Typing(Append(string, NewLine), Sheet(Terminal), Sheet(v))
  <2> HIDE DEF u
  <2>. QED BY <1>1, <1>2, BrokenLine, PutTypes
<1>4. t \in Terminals /\ Sheet(t) = Sheet(v) /\ Drawn(t)
  <2> HIDE DEF v
  <2>1. /\ t \in Terminals
        /\ Sheet(t) = Sheet(v)
        /\ LineCount(t) = LineCount(v)
        /\ t.buffer = v.buffer /\ t.first = v.first
        /\ \A k \in 1..LineCount(v) : t.screen[WindowPosition + k - 1] = v.buffer[Row(v, k)]
    BY <1>3, RenderedShows
  <2> HIDE DEF t
  <2>. QED BY <2>1 DEF Drawn, Row
<1>5. Become(t)
  BY DEF PrintLine
<1>6. TerminalInv' /\ Paper!Emit(Append(string, NewLine))
  <2> HIDE DEF t, v
  <2>. QED BY <1>3, <1>4, <1>5, BecomingEmits
<1>. QED BY <1>6 DEF Simulates, Paper!Next

\* The rows of a dump, one printed after the other, are its text typed at once.
LEMMA DumpSimulates ==
    ASSUME TerminalInv, NEW offset \in Addresses, Dump(offset)
    PROVE  Simulates
<1> DEFINE N == DumpRows
           row(r) == DumpedRow(offset, r)
           print(r, t) == Printed(Printed(t, row(r)), <<NewLine>>)
           break(r, s) == s \o Append(row(r), NewLine)
           Shows(f) == [r \in 0..N |-> IF r = 0 THEN Terminal ELSE print(r, f[r - 1])]
           Reads(f) == [r \in 0..N |-> IF r = 0 THEN <<>> ELSE break(r, f[r - 1])]
           shown == CHOOSE f : f = Shows(f)
           text  == CHOOSE f : f = Reads(f)
           F == [r \in 1..N |-> [t \in Terminals |-> print(r, t)]]
           G == [r \in 1..N |-> [s \in Seq(Printable) |-> break(r, s)]]
<1>1. /\ N \in Nat /\ NewLine \in Printable
      /\ \A r \in 1..N : row(r) \in Seq(Printable)
      /\ Terminal \in Terminals
      /\ DumpText(offset) \in Strings
  BY KernelStdioAssumption, StringsAssumption DEF Printable, TerminalInv
<1>2. ASSUME NEW r \in 1..N, NEW t \in Terminals, NEW s \in Seq(Printable), NEW p,
             Typing(s, p, Sheet(t))
      PROVE  print(r, t) \in Terminals /\ Typing(break(r, s), p, Sheet(print(r, t)))
  <2> DEFINE u == Printed(t, row(r))
  <2>1. row(r) \in Seq(Printable)
    BY <1>1
  <2>2. u \in Terminals /\ Typing(row(r), Sheet(t), Sheet(u))
    <3> HIDE DEF row
    <3>. QED BY <2>1, PrintingTypes
  <2>3. /\ Append(row(r), NewLine) \in Seq(Printable)
        /\ print(r, t) \in Terminals
        /\ Typing(Append(row(r), NewLine), Sheet(t), Sheet(print(r, t)))
    <3>1. print(r, t) = Printed(u, <<NewLine>>)
      OBVIOUS
    <3> HIDE DEF row, u, print
    <3>. QED BY <2>1, <2>2, <3>1, BrokenLine
  <2> HIDE DEF row, print
  <2>4. Typing(s \o Append(row(r), NewLine), p, Sheet(print(r, t)))
    BY <1>2, <2>3, TypingChains
  <2>. QED BY <2>3, <2>4
<1>3. ASSUME NEW r \in 1..N, NEW t \in Terminals PROVE print(r, t) \in Terminals
  <2>1. row(r) \in Seq(Printable) /\ <<NewLine>> \in Seq(Printable)
    BY <1>1
  <2> HIDE DEF row
  <2>2. Printed(t, row(r)) \in Terminals
    BY <2>1, PrintingTypes
  <2>. QED BY <2>1, <2>2, PrintingTypes
<1>4. ASSUME NEW r \in 1..N, NEW s \in Seq(Printable) PROVE break(r, s) \in Seq(Printable)
  <2> HIDE DEF row
  <2>1. Append(row(r), NewLine) \in Seq(Printable)
    BY <1>1
  <2>. QED BY <2>1, ConcatProperties
<1>5. PICK g \in [0..N -> Terminals] : Recurs(g, Terminal, N, F)
  <2>1. F \in [1..N -> [Terminals -> Terminals]]
    <3> HIDE DEF print
    <3>. QED BY <1>3
  <2>2. N \in Nat /\ Terminal \in Terminals
    BY <1>1
  <2> HIDE DEF F, N, print, break, row, Shows, Reads, shown, text, G
  <2>. QED BY <2>1, <2>2, RecursionExists
<1>6. PICK h \in [0..N -> Seq(Printable)] : Recurs(h, <<>>, N, G)
  <2> DEFINE V == Seq(Printable)
             none == <<>>
  <2>1. G \in [1..N -> [V -> V]]
    <3> HIDE DEF break
    <3>. QED BY <1>4
  <2>2. N \in Nat
    BY <1>1
  <2>4. none \in V
    OBVIOUS
  <2> HIDE DEF F, N, print, break, row, Shows, Reads, shown, text, G, V, none
  <2>3. \E h \in [0..N -> V] : Recurs(h, none, N, G)
    BY <2>1, <2>2, <2>4, RecursionExists
  <2>. QED BY <2>3 DEF V, none
<1>7. /\ g[0] = Terminal /\ h[0] = <<>>
      /\ \A r \in 1..N : /\ g[r - 1] \in Terminals /\ g[r] = print(r, g[r - 1])
                         /\ h[r - 1] \in Seq(Printable) /\ h[r] = break(r, h[r - 1])
  <2>1. ASSUME NEW r \in 1..N
        PROVE  /\ g[r - 1] \in Terminals /\ g[r] = print(r, g[r - 1])
               /\ h[r - 1] \in Seq(Printable) /\ h[r] = break(r, h[r - 1])
    <3>1. g[r - 1] \in Terminals /\ h[r - 1] \in Seq(Printable)
      BY <1>1
    <3>2. g[r] = F[r][g[r - 1]] /\ h[r] = G[r][h[r - 1]]
      BY <1>5, <1>6 DEF Recurs
    <3> HIDE DEF print, break
    <3>. QED BY <3>1, <3>2
  <2> HIDE DEF print, break
  <2>. QED BY <1>5, <1>6, <2>1 DEF Recurs
<1>8. \A r \in 0..N : shown[r] = g[r]
  <2>1. g = Shows(g)
    <3> HIDE DEF print
    <3>1. \A r \in 0..N : r = 0 \/ r \in 1..N
      BY <1>1
    <3>2. \A r \in 0..N : g[r] = IF r = 0 THEN Terminal ELSE print(r, g[r - 1])
      BY <1>7, <3>1
    <3>. QED BY <3>2
  <2>2. shown = Shows(shown)
    <3> HIDE DEF Shows
    <3>. QED BY <2>1
  <2> HIDE DEF shown, print
  <2>3. shown[0] = g[0]
    BY <1>1, <1>7, <2>2
  <2>4. ASSUME NEW r \in 1..N, shown[r - 1] = g[r - 1] PROVE shown[r] = g[r]
    <3>1. r \in 0..N /\ r # 0
      BY <1>1
    <3>2. shown[r] = print(r, shown[r - 1])
      BY <2>2, <3>1
    <3>. QED BY <1>7, <2>4, <3>2
  <2>5. N \in Nat
    BY <1>1
  <2> HIDE DEF N, Shows
  <2>6. StepAlike(shown, g, N)
    BY <2>3, <2>4 DEF StepAlike
  <2>. QED BY <2>5, <2>6, SameRecursion
<1>9. \A r \in 0..N : text[r] = h[r]
  <2>1. h = Reads(h)
    <3> HIDE DEF break
    <3>1. \A r \in 0..N : h[r] = IF r = 0 THEN <<>> ELSE break(r, h[r - 1])
      BY <1>1, <1>7
    <3>. QED BY <3>1
  <2>2. text = Reads(text)
    <3> HIDE DEF Reads
    <3>. QED BY <2>1
  <2> HIDE DEF text, break
  <2>3. text[0] = h[0]
    BY <1>1, <1>7, <2>2
  <2>4. ASSUME NEW r \in 1..N, text[r - 1] = h[r - 1] PROVE text[r] = h[r]
    <3>1. r \in 0..N /\ r # 0
      BY <1>1
    <3>2. text[r] = break(r, text[r - 1])
      BY <2>2, <3>1
    <3>. QED BY <1>7, <2>4, <3>2
  <2>5. N \in Nat
    BY <1>1
  <2> HIDE DEF N, Reads
  <2>6. StepAlike(text, h, N)
    BY <2>3, <2>4 DEF StepAlike
  <2>. QED BY <2>5, <2>6, SameRecursion
<1>10. /\ DumpText(offset) = h[N]
       /\ Become(Printed(g[N], <<NewLine>>))
  <2>1. DumpText(offset) = text[N]
    BY DEF DumpText
  <2>2. Become(Printed(shown[N], <<NewLine>>))
    BY DEF Dump
  <2> HIDE DEF text, shown
  <2>. QED BY <1>1, <1>8, <1>9, <2>1, <2>2
<1>11. Typing(h[N], Sheet(Terminal), Sheet(g[N]))
  <2> DEFINE P == {r \in 0..N : Typing(h[r], Sheet(Terminal), Sheet(g[r]))}
  <2>1. 0 \in P
    <3> DEFINE e == [k \in 0..0 |-> Sheet(Terminal)]
    <3>1. e \in [0..0 -> Sheets] /\ e[0] = Sheet(Terminal)
      BY <1>1 DEF Sheets
    <3>2. Len(<<>>) = 0
      OBVIOUS
    <3> HIDE DEF e
    <3>3. Typing(<<>>, Sheet(Terminal), Sheet(Terminal))
      BY <3>1, <3>2 DEF Typing
    <3>. QED BY <1>1, <1>7, <3>3
  <2>2. ASSUME NEW r \in 1..N, r - 1 \in P PROVE r \in P
    <3> HIDE DEF print, break
    <3>1. Typing(h[r - 1], Sheet(Terminal), Sheet(g[r - 1]))
      BY <2>2
    <3>2. Typing(break(r, h[r - 1]), Sheet(Terminal), Sheet(print(r, g[r - 1])))
      BY <1>2, <1>7, <3>1
    <3>. QED BY <1>7, <3>2
  <2>3. \A r \in 0..N : r \in P
    <3> HIDE DEF P, N
    <3>. QED BY <1>1, <2>1, <2>2, RangeInduction
  <2>. QED BY <1>1, <2>3
<1> DEFINE last == Printed(g[N], <<NewLine>>)
<1>12. /\ Append(h[N], NewLine) \in Seq(Printable)
       /\ last \in Terminals /\ Drawn(last)
       /\ Typing(Append(h[N], NewLine), Sheet(Terminal), Sheet(last))
  <2>1. g[N] \in Terminals /\ h[N] \in Seq(Printable)
    BY <1>1
  <2>. QED BY <1>11, <2>1, BrokenLine
<1>13. TerminalInv' /\ Paper!Emit(Append(h[N], NewLine))
  <2>1. Become(last)
    BY <1>10
  <2> HIDE DEF last
  <2>. QED BY <1>12, <2>1, BecomingEmits
<1>. QED BY <1>1, <1>10, <1>13 DEF Simulates, Paper!Next

LEMMA StepSimulates == TerminalInv /\ [StdioNext]_tvars => Simulates
<1> SUFFICES ASSUME TerminalInv, [StdioNext]_tvars PROVE Simulates
  OBVIOUS
<1>1. ASSUME NEW c \in Characters, KernelPutchar(c) PROVE Simulates
  BY <1>1, PutcharSimulates
<1>2. ASSUME NEW format \in Formats, KernelPrintf(format) PROVE Simulates
  BY <1>2, StringsAssumption, PrintSimulates DEF KernelPrintf
<1>3. ASSUME NEW message \in Messages, KernelPrintln(message) PROVE Simulates
  BY <1>3, PrintlnSimulates
<1>4. ASSUME NEW stamp \in Stamps, NEW message \in Messages, Log(stamp, message) PROVE Simulates
  BY <1>4, StringsAssumption, PrintLineSimulates DEF Log
<1>5. ASSUME NEW address \in Addresses, Dump(address) PROVE Simulates
  BY <1>5, DumpSimulates
<1>6. CASE UNCHANGED tvars
  <2>1. TerminalInv'
    BY <1>6 DEF TerminalInv, Terminal, Drawn, Row, LineCount, tvars
  <2>2. UNCHANGED Paper!vars
    BY <1>6 DEF Paper!vars, Shown, Terminal, LineCount, tvars
  <2>. QED BY <2>1, <2>2 DEF Simulates
<1>. QED BY <1>1, <1>2, <1>3, <1>4, <1>5, <1>6 DEF StdioNext

LEMMA PaperInit == Init => Paper!Init
<1> SUFFICES ASSUME Init PROVE Paper!Init
  OBVIOUS
<1>1. LineCount(Terminal) = 0
  BY DEF Init, LineCount, Terminal
<1>2. Shown = <<>>
  BY <1>1 DEF Shown
<1>. QED BY <1>2 DEF Init, Paper!Init

-----------------------------------------------------------------------------
(* The theorems. *)

\* The ring, its window and the display keep their types, whatever is printed:
\* no call writes outside the ring or the line, and there is never a line more
\* than the window has rows (terminal.c, kernel_stdio.c).
THEOREM TerminalTypeCorrect == StdioSpec => []TypeOK
<1>1. TerminalInv /\ [StdioNext]_tvars => TerminalInv'
  BY StepSimulates DEF Simulates
<1>. QED BY <1>1, InvariantInit, InvariantShows, PTL DEF StdioSpec

\* After every call the window shows the text of the ring, and nothing is drawn
\* outside it but the input line (terminal_render_to_VGA).
THEOREM WindowShowsText == StdioSpec => []ScreenShows
<1>1. TerminalInv /\ [StdioNext]_tvars => TerminalInv'
  BY StepSimulates DEF Simulates
<1>. QED BY <1>1, InvariantInit, InvariantShows, PTL DEF StdioSpec

\* The ring is a teletype with a sheet of the window's height: every printing
\* call, of however many characters, lines and wraps, is one emission of its text.
THEOREM TeletypeImplemented == StdioSpec => ImplementsTeletype
<1>1. TerminalInv /\ [StdioNext]_tvars => TerminalInv' /\ [Paper!Next]_Paper!vars
  BY StepSimulates DEF Simulates
<1>. QED BY <1>1, InvariantInit, PaperInit, PTL DEF StdioSpec, ImplementsTeletype, Paper!Spec

-----------------------------------------------------------------------------
(* Digits: splitting a number into them, and reading them back. *)

Bases == {10, 16}

LEMMA FormatSizes ==
    /\ WordRange \in Nat /\ WordRange > 0 /\ WordRange % 2 = 0
    /\ NumberSize \in Nat /\ NumberSize > 1
    /\ LongDigits \in Nat /\ LongDigits > 0 /\ LongDigits <= NumberSize
    /\ BufferSize \in Nat /\ BufferSize > NumberSize + 1
    /\ LogSize \in Nat /\ LogSize > LongDigits + 2
    /\ LongMessage \in Nat
    /\ RowBytes \in Nat /\ RowBytes > 0 /\ RowBytes % 2 = 0
  BY FormattingAssumption

LEMMA QuotientType ==
    ASSUME NEW v \in Nat, NEW base \in Bases
    PROVE  Quotient(v, base) \in Nat /\ Quotient(v, base) = v \div base
  BY DEF Quotient, Bases

\* What is left of a number: in every step a digit less.
LEMMA Rests ==
    ASSUME NEW v \in Nat, NEW base \in Bases
    PROVE  /\ Rest(v, base) \in [0..NumberSize -> Nat]
           /\ Rest(v, base)[0] = v
           /\ \A k \in 1..NumberSize : Rest(v, base)[k] = Rest(v, base)[k - 1] \div base
<1> DEFINE n == NumberSize
           Step(e) == [k \in 0..n |-> IF k = 0 THEN v ELSE Quotient(e[k - 1], base)]
           rest == CHOOSE e : e = Step(e)
           F == [k \in 1..n |-> [x \in Nat |-> Quotient(x, base)]]
<1>0. n \in Nat
  BY FormatSizes
<1>1. F \in [1..n -> [Nat -> Nat]]
  BY QuotientType
<1>2. PICK h \in [0..n -> Nat] : Recurs(h, v, n, F)
  <2> HIDE DEF F, n
  <2>. QED BY <1>0, <1>1, RecursionExists
<1>3. \A k \in 1..n : h[k] = Quotient(h[k - 1], base)
  <2> TAKE k \in 1..n
  <2>1. k \in 1..n /\ k - 1 \in 0..n
    BY <1>0
  <2>2. h[k] = F[k][h[k - 1]]
    BY <1>2, <2>1 DEF Recurs
  <2>3. h[k - 1] \in Nat
    BY <2>1
  <2>. QED BY <2>1, <2>2, <2>3
<1>4. h[0] = v
  BY <1>2 DEF Recurs
<1>5. h = Step(h)
  <2>1. \A k \in 0..n : h[k] = IF k = 0 THEN v ELSE Quotient(h[k - 1], base)
    BY <1>0, <1>3, <1>4
  <2>. QED BY <2>1
<1>6. rest = Step(rest)
  <2> HIDE DEF Step
  <2>. QED BY <1>5
<1>7. Rest(v, base) = rest
  BY DEF Rest
<1>8. \A k \in 0..n : rest[k] = Step(rest)[k]
  <2> HIDE DEF rest, Step
  <2>. QED BY <1>6
<1>9. rest[0] = v /\ \A k \in 1..n : rest[k] = Quotient(rest[k - 1], base)
  <2> HIDE DEF rest
  <2>. QED BY <1>0, <1>8
<1>10. StepAlike(rest, h, n)
  <2> HIDE DEF rest
  <2>. QED BY <1>3, <1>4, <1>9 DEF StepAlike
<1>11. \A k \in 0..n : rest[k] = h[k]
  <2> HIDE DEF rest
  <2>. QED BY <1>0, <1>10, SameRecursion
<1>12. rest \in [0..n -> Nat]
  <2>1. \E e : rest = [k \in 0..n |-> e[k]]
    <3>1. rest = [k \in 0..n |-> Step(rest)[k]]
      <4> HIDE DEF rest
      <4>1. Step(rest) = [k \in 0..n |-> Step(rest)[k]]
        OBVIOUS
      <4> HIDE DEF Step
      <4>. QED BY <1>6, <4>1
    <3> HIDE DEF rest, Step
    <3>. QED BY <3>1
  <2> HIDE DEF rest
  <2>. QED BY <1>11, <2>1
<1>13. \A k \in 1..n : rest[k] = rest[k - 1] \div base
  <2> TAKE k \in 1..n
  <2> HIDE DEF rest
  <2>1. k - 1 \in 0..n
    BY <1>0
  <2>2. rest[k - 1] \in Nat
    BY <1>12, <2>1
  <2>. QED BY <1>9, <2>2, QuotientType
<1> HIDE DEF rest
<1>. QED BY <1>7, <1>9, <1>12, <1>13

\* A digit split off and what is left make the number.
LEMMA DigitSplit ==
    ASSUME NEW v \in Nat, NEW base \in Bases
    PROVE  /\ Remainder(v, base) \in 0..(base - 1)
           /\ v = base * (v \div base) + Remainder(v, base)
<1>1. CASE base = 10
  BY <1>1 DEF Remainder, Quotient
<1>2. CASE base = 16
  BY <1>2 DEF Remainder, Quotient
<1>. QED BY <1>1, <1>2 DEF Bases

\* The digit characters are different ones, and no zero bytes.
LEMMA DigitValues ==
    \A d \in 0..15 : /\ DigitValue(Lower[d + 1]) = d
                     /\ DigitValue(Upper[d + 1]) = d
                     /\ d # 0 => Lower[d + 1] # "0" /\ Upper[d + 1] # "0"
<1>1. ASSUME NEW d \in 0..15, NEW e \in 0..15,
             \/ Lower[d + 1] \in {Lower[e + 1], Upper[e + 1]}
             \/ Upper[d + 1] \in {Lower[e + 1], Upper[e + 1]}
      PROVE  d = e
  BY <1>1 DEF Lower, Upper
<1>2. ASSUME NEW d \in 0..15 PROVE DigitValue(Lower[d + 1]) = d
  <2>1. \A e \in 0..15 : Lower[d + 1] \in {Lower[e + 1], Upper[e + 1]} <=> e = d
    BY <1>1
  <2>. QED BY <2>1 DEF DigitValue
<1>3. ASSUME NEW d \in 0..15 PROVE DigitValue(Upper[d + 1]) = d
  <2>1. \A e \in 0..15 : Upper[d + 1] \in {Lower[e + 1], Upper[e + 1]} <=> e = d
    BY <1>1
  <2>. QED BY <2>1 DEF DigitValue
<1>4. ASSUME NEW d \in 0..15, d # 0
      PROVE  Lower[d + 1] # "0" /\ Upper[d + 1] # "0"
  BY <1>4 DEF Lower, Upper
<1>. QED BY <1>2, <1>3, <1>4

\* g holds the values of the beginnings of s.
Evaluates(g, s, base, n) ==
    /\ Len(s) = n
    /\ g[0] = 0
    /\ \A k \in 1..n : g[k] = base * g[k - 1] + DigitValue(s[k])

\* The value of a string, from what each step of reading it makes.
LEMMA ValueIs ==
    ASSUME NEW s, NEW base, NEW n \in Nat, NEW g, Evaluates(g, s, base, n)
    PROVE  Value(s, base) = g[n]
<1> DEFINE Step(e) == [k \in 0..n |-> IF k = 0 THEN 0 ELSE base * e[k - 1] + DigitValue(s[k])]
           value == CHOOSE e : e = Step(e)
           h == [k \in 0..n |-> g[k]]
<1>1. h = Step(h)
  <2>1. \A k \in 0..n : g[k] = IF k = 0 THEN 0 ELSE base * h[k - 1] + DigitValue(s[k])
    <3> TAKE k \in 0..n
    <3>1. CASE k = 0
      BY <3>1 DEF Evaluates
    <3>2. CASE k # 0
      <4>1. k \in 1..n /\ k - 1 \in 0..n
        BY <3>2
      <4>. QED BY <3>2, <4>1 DEF Evaluates
    <3>. QED BY <3>1, <3>2
  <2> HIDE DEF h
  <2>2. Step(h) = [k \in 0..n |-> g[k]]
    BY <2>1
  <2>. QED BY <2>2 DEF h
<1>2. value = Step(value)
  <2> HIDE DEF Step, h
  <2>. QED BY <1>1
<1>3. Value(s, base) = value[n]
  BY DEF Value, Evaluates
<1>4. \A k \in 0..n : value[k] = Step(value)[k]
  <2> HIDE DEF value, Step
  <2>. QED BY <1>2
<1>5. StepAlike(value, g, n)
  <2> HIDE DEF value
  <2>1. value[0] = 0
    BY <1>4
  <2>2. \A k \in 1..n : value[k] = base * value[k - 1] + DigitValue(s[k])
    BY <1>4
  <2>. QED BY <2>1, <2>2 DEF StepAlike, Evaluates
<1>6. value[n] = g[n]
  <2> HIDE DEF value
  <2>1. \A k \in 0..n : value[k] = g[k]
    BY <1>5, SameRecursion
  <2>. QED BY <2>1
<1>. QED
  <2> HIDE DEF value
  <2>. QED BY <1>3, <1>6

\* When nothing is left, nothing is left later.
LEMMA RestStays ==
    ASSUME NEW v \in Nat, NEW base \in Bases, NEW n \in 0..NumberSize, Rest(v, base)[n] = 0
    PROVE  \A k \in n..NumberSize : Rest(v, base)[k] = 0
<1> DEFINE P == {k \in Nat : k < n \/ Rest(v, base)[k] = 0}
<1>1. NumberSize \in Nat
  BY FormatSizes
<1>2. 0 \in P
  OBVIOUS
<1>3. ASSUME NEW k \in 1..NumberSize, k - 1 \in P PROVE k \in P
  <2>1. CASE k <= n
    BY <2>1
  <2>2. CASE k > n
    <3>1. Rest(v, base)[k - 1] = 0
      BY <1>3, <2>2
    <3>2. Rest(v, base)[k] = 0 \div base
      BY <3>1, Rests
    <3>3. 0 \div base = 0
      BY DEF Bases
    <3>. QED BY <3>2, <3>3
  <2>. QED BY <2>1, <2>2
<1>4. \A k \in 0..NumberSize : k \in P
  <2> HIDE DEF P
  <2>. QED BY <1>1, <1>2, <1>3, RangeInduction
<1>. QED BY <1>1, <1>4

\* A smaller number never has more left.
LEMMA RestOfSmaller ==
    ASSUME NEW w \in Nat, NEW v \in 0..w, NEW base \in Bases
    PROVE  \A k \in 0..NumberSize : Rest(v, base)[k] <= Rest(w, base)[k]
<1> DEFINE a == Rest(v, base)
           b == Rest(w, base)
           P == {k \in Nat : a[k] <= b[k]}
<1>1. NumberSize \in Nat /\ v \in Nat /\ v <= w
  BY FormatSizes
<1>2. /\ a \in [0..NumberSize -> Nat] /\ a[0] = v
      /\ b \in [0..NumberSize -> Nat] /\ b[0] = w
      /\ \A k \in 1..NumberSize : a[k] = a[k - 1] \div base /\ b[k] = b[k - 1] \div base
  BY <1>1, Rests
<1> HIDE DEF a, b
<1>3. 0 \in P
  BY <1>1, <1>2
<1>4. ASSUME NEW k \in 1..NumberSize, k - 1 \in P PROVE k \in P
  <2>1. k - 1 \in 0..NumberSize
    BY <1>1
  <2>2. a[k - 1] \in Nat /\ b[k - 1] \in Nat /\ a[k - 1] <= b[k - 1]
    BY <1>2, <1>4, <2>1
  <2>3. \A x, y \in Nat : x <= y => x \div base <= y \div base
    BY DEF Bases
  <2>. QED BY <1>2, <2>2, <2>3
<1>5. \A k \in 0..NumberSize : k \in P
  <2> HIDE DEF P
  <2>. QED BY <1>1, <1>3, <1>4, RangeInduction
<1>. QED BY <1>5 DEF a, b

\* The number buffer holds every word.
LEMMA WordEnds ==
    ASSUME NEW v \in Words
    PROVE  /\ v \in Nat
           /\ Rest(v, 10)[NumberSize] = 0
           /\ Rest(v, 16)[NumberSize] = 0
           /\ Rest(v, 16)[LongDigits] = 0
<1> DEFINE w == WordRange - 1
<1>1. w \in Nat /\ v \in 0..w
  BY FormatSizes DEF Words
<1>2. 10 \in Bases /\ 16 \in Bases
  BY DEF Bases
<1>3. NumberSize \in 0..NumberSize /\ LongDigits \in 0..NumberSize
  BY FormatSizes
<1>4. Rest(w, 10)[NumberSize] = 0 /\ Rest(w, 16)[LongDigits] = 0
  BY FormattingAssumption
<1> HIDE DEF w
<1>5. v \in Nat
  BY <1>1
<1>6. Rest(v, 10)[NumberSize] <= 0 /\ Rest(v, 16)[LongDigits] <= 0
  BY <1>1, <1>2, <1>3, <1>4, RestOfSmaller
<1>7. Rest(v, 10)[NumberSize] \in Nat /\ Rest(v, 16)[LongDigits] \in Nat
  BY <1>2, <1>3, <1>5, Rests
<1>8. Rest(v, 10)[NumberSize] = 0 /\ Rest(v, 16)[LongDigits] = 0
  BY <1>6, <1>7
<1>9. NumberSize \in LongDigits..NumberSize
  BY FormatSizes
<1>10. Rest(v, 16)[NumberSize] = 0
  BY <1>2, <1>3, <1>5, <1>8, <1>9, RestStays
<1>. QED BY <1>5, <1>8, <1>10

\* How many digits there are: the loop ends at the first rest that is zero, or at
\* the end of the buffer.
LEMMA CountOfDigits ==
    ASSUME NEW v, NEW base
    PROVE  LET n == DigitCount(v, base)
           IN  /\ n \in 1..NumberSize
               /\ n = NumberSize \/ Rest(v, base)[n] = 0
               /\ \A k \in 1..(n - 1) : Rest(v, base)[k] # 0
<1> DEFINE T == {n \in 1..NumberSize : n = NumberSize \/ Rest(v, base)[n] = 0}
<1>1. NumberSize \in 1..NumberSize
  BY FormatSizes
<1>2. T \in SUBSET Nat /\ T # {}
  BY <1>1
<1>3. PICK n \in T : \A k \in T : n <= k
  <2> HIDE DEF T
  <2>. QED BY <1>2, LeastNatural
<1>4. \A k \in 1..(n - 1) : Rest(v, base)[k] # 0
  <2> TAKE k \in 1..(n - 1)
  <2>1. k < n /\ k \in 1..NumberSize
    BY <1>1
  <2>2. k \notin T
    BY <1>3, <2>1
  <2>. QED BY <2>1, <2>2
<1>5. \E m \in 1..NumberSize : /\ m = NumberSize \/ Rest(v, base)[m] = 0
                               /\ \A k \in 1..(m - 1) : Rest(v, base)[k] # 0
  BY <1>4
<1>. QED BY <1>5 DEF DigitCount

\* The i-th of the last n digits of a number, and these digits written.
DigitAt(v, base, n, i) == Remainder(Rest(v, base)[n - i], base)

LastDigits(v, base, digits, n) == [i \in 1..n |-> digits[DigitAt(v, base, n, i) + 1]]

DigitSets == {Lower, Upper}

LEMMA LastDigitsType ==
    ASSUME NEW v \in Nat, NEW base \in Bases, NEW digits \in DigitSets, NEW n \in 1..NumberSize,
           NEW i \in 1..n
    PROVE  /\ n - i \in 0..NumberSize /\ Rest(v, base)[n - i] \in Nat
           /\ DigitAt(v, base, n, i) \in 0..(base - 1)
           /\ LastDigits(v, base, digits, n)[i] = digits[DigitAt(v, base, n, i) + 1]
           /\ DigitValue(LastDigits(v, base, digits, n)[i]) = DigitAt(v, base, n, i)
           /\ DigitAt(v, base, n, i) # 0 => LastDigits(v, base, digits, n)[i] # "0"
<1>1. n - i \in 0..NumberSize
  BY FormatSizes
<1>2. Rest(v, base)[n - i] \in Nat
  BY <1>1, Rests
<1>3. DigitAt(v, base, n, i) \in 0..(base - 1)
  BY <1>2, DigitSplit DEF DigitAt
<1>4. LastDigits(v, base, digits, n)[i] = digits[DigitAt(v, base, n, i) + 1]
  BY DEF LastDigits
<1>5. DigitAt(v, base, n, i) \in 0..15
  BY <1>3 DEF Bases
<1>6. /\ DigitValue(digits[DigitAt(v, base, n, i) + 1]) = DigitAt(v, base, n, i)
      /\ DigitAt(v, base, n, i) # 0 => digits[DigitAt(v, base, n, i) + 1] # "0"
  BY <1>5, DigitValues DEF DigitSets
<1>. QED BY <1>1, <1>2, <1>3, <1>4, <1>6

\* s is t with w zeros before it, where t has n cells.
ZerosBefore(s, w, t, n) ==
    /\ Len(s) = w + n
    /\ \A k \in 1..w : s[k] = "0"
    /\ \A k \in 1..n : s[w + k] = t[k]

\* All digits of a number, with zeros before them, stand for the number.
LEMMA DigitsReadBack ==
    ASSUME NEW v \in Nat, NEW base \in Bases, NEW digits \in DigitSets, NEW n \in 1..NumberSize,
           NEW w \in Nat, NEW s,
           Rest(v, base)[n] = 0, ZerosBefore(s, w, LastDigits(v, base, digits, n), n)
    PROVE  Value(s, base) = v
<1> DEFINE rest == Rest(v, base)
           g == [k \in 0..(w + n) |-> IF k <= w THEN 0 ELSE rest[w + n - k]]
<1>0. n \in Nat /\ n > 0 /\ n <= NumberSize /\ NumberSize \in Nat /\ base \in Nat
  BY FormatSizes DEF Bases
<1>1. /\ rest \in [0..NumberSize -> Nat] /\ rest[0] = v
      /\ \A k \in 1..NumberSize : rest[k] = rest[k - 1] \div base
  BY Rests
<1>2. rest[n] = 0
  OBVIOUS
<1>3. g[0] = 0 /\ g[w + n] = v
  <2> HIDE DEF rest
  <2>. QED BY <1>0, <1>1
<1>4. ASSUME NEW k \in 1..(w + n)
      PROVE  g[k] = base * g[k - 1] + DigitValue(s[k])
  <2>0. k \in 0..(w + n) /\ k - 1 \in 0..(w + n) /\ k \in Nat
    BY <1>0
  <2>1. CASE k <= w
    <3>1. g[k] = 0 /\ g[k - 1] = 0
      BY <2>0, <2>1
    <3>2. DigitValue(s[k]) = 0
      <4>1. Lower[1] = "0"
        BY DEF Lower
      <4>2. DigitValue(Lower[0 + 1]) = 0
        BY DigitValues
      <4>3. s[k] = "0"
        BY <2>0, <2>1 DEF ZerosBefore
      <4>. QED BY <4>1, <4>2, <4>3
    <3> HIDE DEF g
    <3>. QED BY <1>0, <3>1, <3>2
  <2>2. CASE k > w
    <3> DEFINE i == k - w
               r == DigitAt(v, base, n, i)
    <3>1. i \in 1..n /\ w + i = k /\ n - i = w + n - k
      BY <1>0, <2>0, <2>2
    <3>2. n - i \in 0..NumberSize /\ rest[n - i] \in Nat /\ DigitValue(s[k]) = r
      <4>1. s[k] = LastDigits(v, base, digits, n)[i]
        <5> HIDE DEF i
        <5>. QED BY <3>1 DEF ZerosBefore
      <4> HIDE DEF i
      <4>2. i \in 1..n
        BY <3>1
      <4>3. n - i \in 0..NumberSize
        BY <4>2, LastDigitsType
      <4>4. Rest(v, base)[n - i] \in Nat
        BY <4>2, LastDigitsType
      <4>5. DigitValue(LastDigits(v, base, digits, n)[i]) = DigitAt(v, base, n, i)
        BY <4>2, LastDigitsType
      <4>. QED BY <4>1, <4>3, <4>4, <4>5
    <3>3. g[k] = rest[n - i]
      <4> HIDE DEF rest, i
      <4>. QED BY <2>0, <2>2, <3>1
    <3>4. g[k - 1] = rest[n - i] \div base
      <4>1. CASE k - 1 > w
        <5>1. n - i + 1 \in 1..NumberSize /\ n - i + 1 = w + n - (k - 1)
          BY <1>0, <3>1, <4>1
        <5>2. g[k - 1] = rest[n - i + 1]
          <6> HIDE DEF rest, i
          <6>. QED BY <2>0, <4>1, <5>1
        <5> DEFINE m == n - i + 1
        <5>3. m - 1 = n - i
          BY <1>0, <3>1
        <5>4. m \in 1..NumberSize /\ g[k - 1] = rest[m]
          <6> HIDE DEF rest, i, g
          <6>. QED BY <5>1, <5>2
        <5> HIDE DEF rest, i, g, m
        <5>5. rest[m] = rest[m - 1] \div base
          BY <1>1, <5>4
        <5>. QED BY <5>3, <5>4, <5>5
      <4>2. CASE k - 1 = w
        <5>1. n - i = n - 1 /\ n \in 1..NumberSize
          BY <1>0, <4>2
        <5>2. g[k - 1] = 0
          BY <2>0, <4>2
        <5> HIDE DEF rest, i, g
        <5>. QED BY <1>1, <1>2, <5>1, <5>2
      <4>. QED BY <1>0, <2>0, <2>2, <4>1, <4>2
    <3>5. rest[n - i] = base * (rest[n - i] \div base) + r
      <4> HIDE DEF i
      <4>. QED BY <3>2, DigitSplit DEF DigitAt
    <3> HIDE DEF rest, i, r, g
    <3>. QED BY <3>2, <3>3, <3>4, <3>5
  <2>. QED BY <1>0, <2>0, <2>1, <2>2
<1>5. w + n \in Nat
  BY <1>0
<1>6. Evaluates(g, s, base, w + n)
  <2> HIDE DEF g
  <2>. QED BY <1>3, <1>4, <1>5 DEF Evaluates, ZerosBefore
<1> HIDE DEF g
<1>7. Value(s, base) = g[w + n]
  BY <1>5, <1>6, ValueIs
<1>. QED BY <1>3, <1>7

\* A numeral has all digits, and none too many.
LEMMA NumeralDigits ==
    ASSUME NEW v \in Nat, NEW base \in Bases, NEW digits \in DigitSets
    PROVE  LET n == DigitCount(v, base)
           IN  /\ n \in 1..NumberSize
               /\ Numeral(v, base, digits) = LastDigits(v, base, digits, n)
               /\ Rest(v, base)[n] = 0 /\ n > 1 => LastDigits(v, base, digits, n)[1] # "0"
               /\ Rest(v, base)[NumberSize] = 0 => Rest(v, base)[n] = 0
<1> DEFINE n == DigitCount(v, base)
<1>1. /\ n \in 1..NumberSize
      /\ n = NumberSize \/ Rest(v, base)[n] = 0
      /\ \A k \in 1..(n - 1) : Rest(v, base)[k] # 0
  BY CountOfDigits
<1>2. Numeral(v, base, digits) =
          [i \in 1..n |-> DigitChar(digits, Remainder(Rest(v, base)[n - i], base))]
  BY DEF Numeral
<1> HIDE DEF n
<1>3. n \in Nat
  BY <1>1
<1>4. ASSUME NEW i \in 1..n
      PROVE  DigitChar(digits, Remainder(Rest(v, base)[n - i], base))
                 = digits[DigitAt(v, base, n, i) + 1]
  <2>1. DigitAt(v, base, n, i) \in 0..(base - 1)
    BY <1>1, LastDigitsType
  <2>2. ~(DigitAt(v, base, n, i) < 0)
    BY <2>1 DEF Bases
  <2>. QED BY <2>2, Zenon DEF DigitAt, DigitChar
<1>5. Numeral(v, base, digits) = LastDigits(v, base, digits, n)
  BY <1>2, <1>4, Zenon DEF LastDigits
<1>6. ASSUME Rest(v, base)[n] = 0, n > 1 PROVE LastDigits(v, base, digits, n)[1] # "0"
  <2>1. 1 \in 1..n /\ n - 1 \in 1..(n - 1) /\ n - 1 \in 0..NumberSize
    BY <1>1, <1>6, FormatSizes
  <2>2. Rest(v, base)[n - 1] # 0 /\ Rest(v, base)[n - 1] \in Nat
    <3> DEFINE j == n - 1
    <3>1. j \in 1..(n - 1) /\ j \in 0..NumberSize
      BY <2>1
    <3> HIDE DEF j
    <3>2. Rest(v, base)[j] # 0
      BY <1>1, <3>1
    <3>3. Rest(v, base)[j] \in Nat
      BY <3>1, Rests
    <3>. QED BY <3>2, <3>3 DEF j
  <2> DEFINE d == DigitAt(v, base, n, 1)
             left == Rest(v, base)[n - 1]
  <2>3. d \in 0..(base - 1) /\ (d # 0 => LastDigits(v, base, digits, n)[1] # "0")
    <3>1. d \in 0..(base - 1)
      BY <1>1, <2>1, LastDigitsType
    <3>2. d # 0 => LastDigits(v, base, digits, n)[1] # "0"
      BY <1>1, <2>1, LastDigitsType
    <3>. QED BY <3>1, <3>2
  <2>4. left \div base = 0
    <3>1. n \in 1..NumberSize
      BY <1>1
    <3>. QED BY <1>6, <3>1, Rests
  <2>5. d = left
    <3>1. left = base * (left \div base) + Remainder(left, base)
      BY <2>2, DigitSplit
    <3>2. d = Remainder(left, base)
      BY DEF DigitAt
    <3>3. base \in Nat
      BY DEF Bases
    <3> HIDE DEF left, d
    <3>4. d \in Int
      BY <2>3, <3>3
    <3>. QED BY <2>4, <3>1, <3>2, <3>3, <3>4
  <2>. QED BY <2>2, <2>3, <2>5
<1>7. Rest(v, base)[NumberSize] = 0 => Rest(v, base)[n] = 0
  BY <1>1
<1>. QED BY <1>1, <1>5, <1>6, <1>7 DEF n

\* What a numeral is made of.
DigitsOf(base, digits) == {digits[d] : d \in 1..base}

LEMMA LastDigitsAre ==
    ASSUME NEW v \in Nat, NEW base \in Bases, NEW digits \in DigitSets, NEW n \in 1..NumberSize
    PROVE  /\ LastDigits(v, base, digits, n) \in [1..n -> DigitsOf(base, digits)]
           /\ LastDigits(v, base, digits, n) \in Seq(DigitsOf(base, digits))
           /\ Len(LastDigits(v, base, digits, n)) = n
<1>1. n \in Nat
  BY FormatSizes
<1>2. ASSUME NEW i \in 1..n
      PROVE  digits[DigitAt(v, base, n, i) + 1] \in DigitsOf(base, digits)
  <2>1. DigitAt(v, base, n, i) \in 0..(base - 1)
    BY LastDigitsType
  <2>2. DigitAt(v, base, n, i) + 1 \in 1..base
    BY <2>1 DEF Bases
  <2>. QED BY <2>2 DEF DigitsOf
<1>3. LastDigits(v, base, digits, n) \in [1..n -> DigitsOf(base, digits)]
  BY <1>2 DEF LastDigits
<1>. QED BY <1>1, <1>3

\* How many zeros are written before a number.
Leading(v, base, item) ==
    LET n == DigitCount(v, base)
    IN  IF item.zero /\ item.width > n THEN item.width - n ELSE 0

\* A number with zeros up to the width asked for.
LEMMA PaddedDigits ==
    ASSUME NEW v \in Nat, NEW base \in Bases, NEW digits \in DigitSets,
           NEW item, item.zero \in BOOLEAN, item.width \in Nat
    PROVE  LET s == Padded(Numeral(v, base, digits), item)
               n == DigitCount(v, base)
               w == Leading(v, base, item)
           IN  /\ s \in Seq(DigitsOf(base, digits))
               /\ w \in Nat
               /\ ZerosBefore(s, w, LastDigits(v, base, digits, n), n)
<1> DEFINE s == Padded(Numeral(v, base, digits), item)
           n == DigitCount(v, base)
           w == Leading(v, base, item)
           D == DigitsOf(base, digits)
           t == LastDigits(v, base, digits, n)
           zeros == [i \in 1..w |-> "0"]
<1>1. n \in 1..NumberSize /\ Numeral(v, base, digits) = t
  BY NumeralDigits
<1>2. n \in Nat
  BY <1>1, FormatSizes
<1>3. t \in Seq(D) /\ Len(t) = n
  BY <1>1, LastDigitsAre
<1>4. "0" \in D
  <2>1. digits[1] = "0" /\ 1 \in 1..base
    BY DEF DigitSets, Bases, Lower, Upper
  <2>. QED BY <2>1 DEF DigitsOf
<1>5. s = IF item.zero /\ item.width > Len(t)
          THEN [i \in 1..(item.width - Len(t)) |-> "0"] \o t ELSE t
  <2> HIDE DEF t
  <2>. QED BY <1>1, Zenon DEF Padded
<1> HIDE DEF n, D, t, s
<1>6. w \in Nat /\ w = IF item.zero /\ item.width > n THEN item.width - n ELSE 0
  BY <1>2 DEF Leading, n
<1>7. zeros \in Seq(D) /\ Len(zeros) = w
  <2>1. zeros \in [1..w -> D]
    BY <1>4
  <2> HIDE DEF w
  <2>. QED BY <1>6, <2>1
<1>8. ASSUME item.zero /\ item.width > n
      PROVE  s \in Seq(D) /\ Len(s) = w + n
             /\ (\A k \in 1..w : s[k] = "0") /\ (\A k \in 1..n : s[w + k] = t[k])
  <2>1. s = zeros \o t
    <3>1. w = item.width - n
      BY <1>6, <1>8
    <3> HIDE DEF w
    <3>. QED BY <1>3, <1>5, <1>8, <3>1
  <2>2. \A k \in 1..w : zeros[k] = "0"
    OBVIOUS
  <2> HIDE DEF zeros, w
  <2>3. s \in Seq(D) /\ Len(s) = w + n
    BY <1>3, <1>7, <2>1, ConcatProperties
  <2>4. \A k \in 1..w : s[k] = "0"
    BY <1>2, <1>3, <1>6, <1>7, <2>1, <2>2
  <2>5. \A k \in 1..n : s[w + k] = t[k]
    <3> TAKE k \in 1..n
    <3>1. w + k > w /\ w + k \in 1..(w + n) /\ w + k - w = k
      BY <1>2, <1>6
    <3> DEFINE j == w + k
    <3>2. j \in 1..(w + n) /\ ~(j <= w) /\ j - w = k
      BY <1>2, <1>6, <3>1
    <3>4. Len(zeros) = w /\ Len(t) = n
      BY <1>3, <1>7
    <3> HIDE DEF j
    <3>3. (zeros \o t)[j] = t[k]
      BY <1>3, <1>7, <3>2, <3>4, ConcatProperties
    <3>. QED BY <2>1, <3>3 DEF j
  <2>. QED BY <2>3, <2>4, <2>5
<1>9. ASSUME ~(item.zero /\ item.width > n)
      PROVE  s \in Seq(D) /\ Len(s) = w + n
             /\ (\A k \in 1..w : s[k] = "0") /\ (\A k \in 1..n : s[w + k] = t[k])
  <2>1. s = t
    BY <1>3, <1>5, <1>9
  <2>2. w = 0
    BY <1>6, <1>9
  <2> HIDE DEF w
  <2>. QED BY <1>2, <1>3, <2>1, <2>2
<1>10. s \in Seq(D) /\ Len(s) = w + n
       /\ (\A k \in 1..w : s[k] = "0") /\ (\A k \in 1..n : s[w + k] = t[k])
  BY <1>8, <1>9
<1>. QED BY <1>6, <1>10 DEF s, n, D, t, ZerosBefore

\* D has the digits of a base.
DigitString(D, base, digits) == Len(D) = base /\ \A d \in 1..base : D[d] = digits[d]

LEMMA PaddedStands ==
    ASSUME NEW v \in Nat, NEW base \in Bases, NEW digits \in DigitSets,
           NEW item, NEW D,
           Rest(v, base)[NumberSize] = 0, item.zero \in BOOLEAN, item.width \in Nat,
           DigitString(D, base, digits)
    PROVE  LET s == Padded(Numeral(v, base, digits), item)
           IN  /\ Stands(s, v, base, D, item)
               /\ s \in Seq(DigitsOf(base, digits))
               /\ Len(s) <= NumberSize \/ Len(s) <= item.width
<1> DEFINE s == Padded(Numeral(v, base, digits), item)
           n == DigitCount(v, base)
           w == Leading(v, base, item)
           t == LastDigits(v, base, digits, n)
<1>1. /\ s \in Seq(DigitsOf(base, digits))
      /\ w \in Nat
      /\ ZerosBefore(s, w, t, n)
  BY PaddedDigits
<1>2. /\ n \in 1..NumberSize
      /\ Rest(v, base)[n] = 0
      /\ n > 1 => t[1] # "0"
  BY NumeralDigits
<1>3. n \in Nat /\ n >= 1 /\ n <= NumberSize /\ NumberSize \in Nat
  BY <1>2, FormatSizes
<1>4. w > 0 => item.zero /\ w + n = item.width
  BY <1>3 DEF Leading
<1>5. w = 0 => ~item.zero \/ item.width <= n
  BY <1>3 DEF Leading
<1> HIDE DEF s, n, w
<1>6. Value(s, base) = v
  BY <1>1, <1>2, DigitsReadBack DEF t
<1> HIDE DEF t
<1>11. /\ Len(s) = w + n
       /\ \A k \in 1..w : s[k] = "0"
       /\ \A k \in 1..n : s[w + k] = t[k]
  BY <1>1 DEF ZerosBefore
<1>7. IsNumeral(s, D)
  <2>1. s # <<>>
    BY <1>1, <1>11, <1>3
  <2>2. ASSUME NEW k \in 1..Len(s) PROVE \E d \in 1..Len(D) : s[k] = D[d]
    <3>1. s[k] \in DigitsOf(base, digits)
      BY <1>1
    <3>. QED BY <3>1 DEF DigitsOf, DigitString
  <2>. QED BY <2>1, <2>2 DEF IsNumeral
<1>8. Len(s) >= (IF item.zero THEN item.width ELSE 0)
  BY <1>1, <1>11, <1>3, <1>4, <1>5
<1>9. (s[1] = "0" /\ Len(s) > 1) => (item.zero /\ Len(s) = item.width)
  <2>1. CASE w > 0
    BY <1>1, <1>11, <1>4, <2>1
  <2>2. CASE w = 0
    <3>1. s[0 + 1] = t[1] /\ Len(s) = n
      BY <1>1, <1>11, <1>3, <2>2
    <3>. QED BY <1>2, <3>1
  <2>. QED BY <1>1, <2>1, <2>2
<1>10. Len(s) <= NumberSize \/ Len(s) <= item.width
  BY <1>1, <1>11, <1>3, <1>4
<1>. QED BY <1>1, <1>6, <1>7, <1>8, <1>9, <1>10 DEF s, Stands

-----------------------------------------------------------------------------
(* Strings: where they end, and what is joined. *)

\* The string in s has n characters.
EndsAt(s, n) ==
    /\ n \in 0..Len(s)
    /\ \A k \in 1..n : s[k] # Nul
    /\ n = Len(s) \/ s[n + 1] = Nul

LEMMA CStringIs ==
    ASSUME NEW T, NEW s \in Seq(T), NEW n, EndsAt(s, n)
    PROVE  CString(s) = SubSeq(s, 1, n)
<1> DEFINE zeros == {i \in 1..Len(s) : s[i] = Nul}
<1>1. n \in Nat /\ Len(s) \in Nat /\ n <= Len(s)
  BY DEF EndsAt
<1>2. \A k \in zeros : n + 1 <= k
  BY <1>1 DEF EndsAt
<1>3. CASE n = Len(s)
  <2>1. zeros = {}
    BY <1>1, <1>2, <1>3
  <2>2. CString(s) = s
    BY <2>1 DEF CString
  <2>. QED BY <1>3, <2>2
<1>4. CASE n # Len(s)
  <2>1. n + 1 \in zeros
    BY <1>1, <1>4 DEF EndsAt
  <2>2. zeros # {}
    BY <2>1
  <2>3. CString(s) = SubSeq(s, 1, Min(zeros) - 1)
    BY <2>2 DEF CString
  <2>4. zeros \subseteq Nat
    BY <1>1
  <2> HIDE DEF zeros
  <2>5. Min(zeros) = n + 1
    <3>1. \A x \in zeros : x <= n + 1 => x = n + 1
      BY <1>1, <1>2, <2>4
    <3>. QED BY <1>2, <2>1, <3>1 DEF Min
  <2>6. Min(zeros) - 1 = n
    BY <1>1, <2>5
  <2>. QED BY <2>3, <2>6, Zenon
<1>. QED BY <1>3, <1>4

LEMMA EndExists ==
    ASSUME NEW T, NEW s \in Seq(T)
    PROVE  \E n : EndsAt(s, n)
<1> DEFINE zeros == {i \in 1..Len(s) : s[i] = Nul}
<1>0. Len(s) \in Nat
  OBVIOUS
<1>1. CASE zeros = {}
  <2>1. EndsAt(s, Len(s))
    BY <1>0, <1>1 DEF EndsAt
  <2>. QED BY <2>1
<1>2. CASE zeros # {}
  <2>1. zeros \in SUBSET Nat
    BY <1>0
  <2>2. PICK i \in zeros : \A k \in zeros : i <= k
    <3> HIDE DEF zeros
    <3>. QED BY <1>2, <2>1, LeastNatural
  <2>3. EndsAt(s, i - 1)
    <3>1. i \in 1..Len(s) /\ s[i] = Nul /\ i - 1 \in 0..Len(s) /\ i - 1 + 1 = i
      BY <1>0, <2>2
    <3>2. ASSUME NEW k \in 1..(i - 1) PROVE s[k] # Nul
      <4>1. k \in 1..Len(s) /\ ~(i <= k)
        BY <1>0, <3>1
      <4>. QED BY <2>2, <4>1
    <3>. QED BY <3>1, <3>2 DEF EndsAt
  <2>. QED BY <2>3
<1>. QED BY <1>1, <1>2

LEMMA CutIs ==
    ASSUME NEW T, NEW s \in Seq(T), NEW m \in Nat
    PROVE  LET n == IF Len(s) < m THEN Len(s) ELSE m
           IN  /\ n \in Nat /\ n <= Len(s) /\ n <= m
               /\ Cut(s, m) \in Seq(T)
               /\ Len(Cut(s, m)) = n
               /\ \A k \in 1..n : Cut(s, m)[k] = s[k]
  BY DEF Cut

\* The smaller of two numbers.
Least(a, b) == IF a < b THEN a ELSE b

LEMMA LeastIs ==
    ASSUME NEW a \in Nat, NEW b \in Nat
    PROVE  /\ Least(a, b) \in Nat /\ Least(a, b) <= a /\ Least(a, b) <= b
           /\ a <= b => Least(a, b) = a
           /\ b <= a => Least(a, b) = b
  BY DEF Least

\* The string in a text that is cut.
LEMMA CStringOfCut ==
    ASSUME NEW T, NEW s \in Seq(T), NEW m \in Nat, NEW n, EndsAt(s, n)
    PROVE  /\ CString(Cut(s, m)) = SubSeq(s, 1, Least(n, m))
           /\ CString(Cut(s, m)) \in Seq(T)
           /\ Len(CString(Cut(s, m))) = Least(n, m)
           /\ \A k \in 1..Least(n, m) : CString(Cut(s, m))[k] = s[k]
<1> DEFINE c == Cut(s, m)
           a == Least(Len(s), m)
           l == Least(n, m)
<1>1. n \in Nat /\ Len(s) \in Nat /\ n <= Len(s)
  BY DEF EndsAt
<1>2. c \in Seq(T) /\ Len(c) = a /\ \A k \in 1..a : c[k] = s[k]
  BY CutIs DEF Least
<1>3. l \in Nat /\ l <= a /\ l <= n /\ a \in Nat /\ a <= Len(s)
  BY <1>1 DEF Least
<1>4. l = a \/ (l = n /\ n < a)
  BY <1>1 DEF Least
<1> HIDE DEF c, a, l
<1>5. EndsAt(c, l)
  <2>1. l \in 0..Len(c)
    BY <1>2, <1>3
  <2>2. ASSUME NEW k \in 1..l PROVE c[k] # Nul
    <3>1. k \in 1..a /\ k \in 1..n
      BY <1>1, <1>3
    <3>. QED BY <1>2, <3>1 DEF EndsAt
  <2>3. CASE l = a
    BY <1>2, <2>1, <2>2, <2>3 DEF EndsAt
  <2>4. CASE l = n /\ n < a
    <3>1. s[n + 1] = Nul
      BY <1>1, <1>3, <2>4 DEF EndsAt
    <3>2. l + 1 \in 1..a /\ l + 1 = n + 1
      BY <1>1, <1>3, <2>4
    <3>3. c[l + 1] = Nul
      BY <1>2, <3>1, <3>2
    <3>. QED BY <2>1, <2>2, <3>3 DEF EndsAt
  <2>. QED BY <1>4, <2>3, <2>4
<1>6. CString(c) = SubSeq(c, 1, l)
  BY <1>2, <1>5, CStringIs
<1>7. l <= Len(c) /\ l <= Len(s)
  BY <1>1, <1>2, <1>3
<1>8. /\ SubSeq(c, 1, l) = [k \in 1..l |-> c[k]]
      /\ SubSeq(s, 1, l) = [k \in 1..l |-> s[k]]
      /\ SubSeq(s, 1, l) \in Seq(T) /\ Len(SubSeq(s, 1, l)) = l
  BY <1>2, <1>3, <1>7
<1>9. ASSUME NEW k \in 1..l PROVE c[k] = s[k]
  <2>1. k \in 1..a
    BY <1>3
  <2>. QED BY <1>2, <2>1
<1>10. CString(c) = SubSeq(s, 1, l)
  BY <1>6, <1>8, <1>9
<1>. QED BY <1>8, <1>10 DEF c, l

\* A text that has no zero byte and fits is printed as it is.
LEMMA UncutText ==
    ASSUME NEW T, NEW s \in Seq(T), NEW m \in Nat, Len(s) <= m, Nul \notin T
    PROVE  Cut(s, m) = s /\ CString(Cut(s, m)) = s
<1>1. Cut(s, m) = s
  <2>1. (IF Len(s) < m THEN Len(s) ELSE m) = Len(s)
    OBVIOUS
  <2>2. SubSeq(s, 1, Len(s)) = s
    OBVIOUS
  <2>. QED BY <2>1, <2>2, Zenon DEF Cut
<1>2. EndsAt(s, Len(s))
  <2>1. Len(s) \in 0..Len(s) /\ \A k \in 1..Len(s) : s[k] # Nul
    OBVIOUS
  <2>. QED BY <2>1 DEF EndsAt
<1>3. CString(s) = SubSeq(s, 1, Len(s))
  BY <1>2, CStringIs
<1>. QED BY <1>1, <1>3

\* Behind a text.
LEMMA Beginning ==
    ASSUME NEW T, NEW s \in Seq(T), NEW t \in Seq(T)
    PROVE  /\ s \o t \in Seq(T) /\ Len(s \o t) = Len(s) + Len(t)
           /\ Len(s) \in Nat /\ Len(t) \in Nat
           /\ \A k \in 1..Len(s) : (s \o t)[k] = s[k]
           /\ \A k \in 1..Len(t) : (s \o t)[Len(s) + k] = t[k]
<1>1. s \o t \in Seq(T) /\ Len(s \o t) = Len(s) + Len(t) /\ Len(s) \in Nat /\ Len(t) \in Nat
  OBVIOUS
<1>2. \A k \in 1..Len(s) : (s \o t)[k] = s[k]
  BY <1>1
<1>3. ASSUME NEW k \in 1..Len(t) PROVE (s \o t)[Len(s) + k] = t[k]
  BY <1>1
<1>. QED BY <1>1, <1>2, <1>3

\* A text that ends in its first part ends there.
LEMMA EndKept ==
    ASSUME NEW T, NEW s \in Seq(T), NEW t \in Seq(T), NEW n, EndsAt(s, n), ~(n = Len(s))
    PROVE  s \o t \in Seq(T) /\ EndsAt(s \o t, n) /\ n # Len(s \o t)
<1> DEFINE u == s \o t
<1>1. /\ u \in Seq(T) /\ Len(u) = Len(s) + Len(t) /\ Len(s) \in Nat /\ Len(t) \in Nat
      /\ \A k \in 1..Len(s) : u[k] = s[k]
  BY Beginning
<1> HIDE DEF u
<1>2. n \in Nat /\ n + 1 \in 1..Len(s) /\ s[n + 1] = Nul /\ \A k \in 1..n : s[k] # Nul
  BY <1>1 DEF EndsAt
<1>3. \A k \in 1..n : u[k] = s[k]
  BY <1>1, <1>2
<1>4. EndsAt(u, n)
  BY <1>1, <1>2, <1>3 DEF EndsAt
<1>. QED BY <1>1, <1>2, <1>3, <1>4 DEF u

\* Joining, one part after the other.
Joins(flat, parts, n) ==
    /\ flat[0] = <<>>
    /\ \A i \in 1..n : flat[i] = flat[i - 1] \o parts[i]

LEMMA FlattenSteps ==
    ASSUME NEW T, NEW n \in Nat, NEW parts \in [1..n -> Seq(T)]
    PROVE  \E flat \in [0..n -> Seq(T)] : Joins(flat, parts, n) /\ FlattenSeq(parts) = flat[n]
<1> DEFINE F == [i \in 1..n |-> [x \in Seq(T) |-> x \o parts[i]]]
           Step(e) == [i \in 1..n |-> IF i = 1 THEN parts[i] ELSE e[i - 1] \o parts[i]]
           flatten == CHOOSE e : e = Step(e)
<1>1. F \in [1..n -> [Seq(T) -> Seq(T)]] /\ <<>> \in Seq(T)
  OBVIOUS
<1>2. PICK flat \in [0..n -> Seq(T)] : Recurs(flat, <<>>, n, F)
  <2> HIDE DEF F
  <2>. QED BY <1>1, RecursionExists
<1>3. \A i \in 1..n : flat[i] = flat[i - 1] \o parts[i]
  <2> TAKE i \in 1..n
  <2>1. i \in 1..n /\ i - 1 \in 0..n
    OBVIOUS
  <2>2. flat[i] = F[i][flat[i - 1]]
    BY <1>2, <2>1 DEF Recurs
  <2>3. flat[i - 1] \in Seq(T)
    BY <2>1
  <2>. QED BY <2>1, <2>2, <2>3
<1>4. flat[0] = <<>>
  BY <1>2 DEF Recurs
<1>5. Joins(flat, parts, n)
  BY <1>3, <1>4 DEF Joins
<1>6. Len(parts) = n /\ parts \in Seq(Seq(T))
  OBVIOUS
<1>7. CASE n = 0
  <2>1. FlattenSeq(parts) = parts
    BY <1>6, <1>7 DEF FlattenSeq
  <2>2. parts = <<>>
    BY <1>6, <1>7
  <2>. QED BY <1>4, <1>5, <1>7, <2>1, <2>2
<1>8. CASE n # 0
  <2> DEFINE h == [i \in 1..n |-> flat[i]]
  <2>1. h = Step(h)
    <3>1. ASSUME NEW i \in 1..n
          PROVE  flat[i] = IF i = 1 THEN parts[i] ELSE h[i - 1] \o parts[i]
      <4>1. CASE i = 1
        <5>1. flat[1] = flat[0] \o parts[1] /\ parts[1] \in Seq(T)
          BY <1>3, <4>1
        <5>2. <<>> \o parts[1] = parts[1]
          BY <5>1
        <5>. QED BY <1>4, <4>1, <5>1, <5>2
      <4>2. CASE i # 1
        <5>1. i - 1 \in 1..n
          BY <4>2
        <5>. QED BY <1>3, <4>2, <5>1
      <4>. QED BY <4>1, <4>2
    <3> HIDE DEF h
    <3>2. Step(h) = [i \in 1..n |-> flat[i]]
      BY <3>1, Zenon
    <3>. QED BY <3>2 DEF h
  <2>2. flatten = Step(flatten)
    <3> HIDE DEF Step, h
    <3>. QED BY <2>1
  <2>3. FlattenSeq(parts) = flatten[n]
    BY <1>6, <1>8, Zenon DEF FlattenSeq
  <2> DEFINE g == [i \in 0..n |-> IF i = 0 THEN <<>> ELSE flatten[i]]
  <2>4. \A i \in 1..n : flatten[i] = Step(flatten)[i]
    <3> HIDE DEF flatten, Step
    <3>. QED BY <2>2
  <2>5. StepAlike(g, flat, n)
    <3>1. g[0] = flat[0]
      BY <1>4
    <3>2. ASSUME NEW i \in 1..n, g[i - 1] = flat[i - 1] PROVE g[i] = flat[i]
      <4>1. i # 0 /\ i \in 0..n /\ i - 1 \in 0..n
        OBVIOUS
      <4>2. g[i] = flatten[i]
        <5> HIDE DEF flatten
        <5>. QED BY <4>1
      <4>3. flatten[i] = IF i = 1 THEN parts[i] ELSE flatten[i - 1] \o parts[i]
        <5> HIDE DEF flatten
        <5>. QED BY <2>4
      <4>4. CASE i = 1
        <5>1. flat[1] = flat[0] \o parts[1] /\ parts[1] \in Seq(T)
          BY <1>3, <4>4
        <5>2. <<>> \o parts[1] = parts[1]
          BY <5>1
        <5> HIDE DEF g, flatten
        <5>. QED BY <1>4, <4>2, <4>3, <4>4, <5>1, <5>2
      <4>5. CASE i # 1
        <5>1. i - 1 # 0
          BY <4>5
        <5>2. g[i - 1] = flatten[i - 1]
          <6> HIDE DEF flatten
          <6>. QED BY <4>1, <5>1
        <5> HIDE DEF g, flatten
        <5>. QED BY <1>3, <3>2, <4>2, <4>3, <4>5, <5>2
      <4>. QED BY <4>4, <4>5
    <3> HIDE DEF g
    <3>. QED BY <3>1, <3>2 DEF StepAlike
  <2>6. g[n] = flat[n]
    <3> HIDE DEF g
    <3>1. \A i \in 0..n : g[i] = flat[i]
      BY <2>5, SameRecursion
    <3>. QED BY <3>1
  <2>7. g[n] = flatten[n]
    <3> HIDE DEF flatten
    <3>. QED BY <1>8
  <2> HIDE DEF flatten, g
  <2>. QED BY <1>5, <2>3, <2>6, <2>7
<1>. QED BY <1>7, <1>8

-----------------------------------------------------------------------------
(* A number printed alone. *)

\* A format of one conversion.
LEMMA FormattedOne ==
    ASSUME NEW T, NEW item, Converted(item) \in Seq(T)
    PROVE  Formatted(<<item>>) = CString(Cut(Converted(item), BufferSize - 1))
<1> DEFINE parts == [k \in 1..Len(<<item>>) |-> Converted(<<item>>[k])]
           c == Converted(item)
<1>1. parts = [k \in 1..1 |-> c]
  <2>1. Len(<<item>>) = 1 /\ \A k \in 1..1 : <<item>>[k] = item
    OBVIOUS
  <2>. QED BY <2>1
<1>2. Formatted(<<item>>) = CString(Cut(FlattenSeq(parts), BufferSize - 1))
  BY DEF Formatted
<1> HIDE DEF c, parts
<1>3. parts \in [1..1 -> Seq(T)] /\ parts[1] = c /\ c \in Seq(T)
  BY <1>1 DEF c
<1>4. PICK flat \in [0..1 -> Seq(T)] : Joins(flat, parts, 1) /\ FlattenSeq(parts) = flat[1]
  BY <1>3, FlattenSteps
<1>5. flat[0] = <<>> /\ flat[1] = flat[0] \o parts[1]
  <2>1. 1 \in 1..1 /\ 1 - 1 = 0
    OBVIOUS
  <2>2. flat[1] = flat[1 - 1] \o parts[1]
    BY <1>4, <2>1 DEF Joins
  <2>. QED BY <1>4, <2>1, <2>2 DEF Joins
<1>6. <<>> \o c = c
  BY <1>3
<1>. QED BY <1>2, <1>3, <1>4, <1>5, <1>6 DEF c

LEMMA NoZeroBytes ==
    /\ \A base \in Bases : Nul \notin DigitsOf(base, Lower) /\ Nul \notin DigitsOf(base, Upper)
    /\ Nul # "-" /\ Nul # ":" /\ Nul # "." /\ Nul # "|"
    /\ Nul \notin Printable /\ Nul # Blank
    /\ \A b \in 32..127 : Nul # Glyphs[b]
<1>1. ASSUME NEW base \in Bases, NEW digits \in DigitSets PROVE Nul \notin DigitsOf(base, digits)
  <2>1. \A d \in 1..base : d \in DOMAIN digits
    BY DEF Bases, DigitSets, Lower, Upper
  <2>2. Nul \notin Range(digits)
    BY CharactersAssumption DEF DigitSets
  <2>. QED BY <2>1, <2>2 DEF DigitsOf, Range
<1>2. Nul # "-" /\ Nul # ":" /\ Nul # "." /\ Nul # "|" /\ Nul \notin Printable
  BY CharactersAssumption
<1>3. \A b \in 32..127 : Nul # Glyphs[b]
  BY CharactersAssumption, FormattingAssumption DEF Range
<1>. QED BY <1>1, <1>2, <1>3 DEF DigitSets, Printable

LEMMA DigitSequences ==
    /\ DigitString(Cut(Lower, 10), 10, Lower)
    /\ DigitString(Lower, 16, Lower)
    /\ DigitString(Upper, 16, Upper)
<1>1. Len(Lower) = 16 /\ Len(Upper) = 16
  BY DEF Lower, Upper
<1>2. Lower \in Seq(Range(Lower))
  <2>1. DOMAIN Lower = 1..16
    BY DEF Lower
  <2>2. Lower = [d \in 1..16 |-> Lower[d]]
    BY DEF Lower
  <2>3. Lower \in [1..16 -> Range(Lower)]
    BY <2>1, <2>2 DEF Range
  <2>4. 16 \in Nat
    OBVIOUS
  <2>. QED BY <2>3, <2>4, SeqDef, Zenon
<1>3. Cut(Lower, 10) = SubSeq(Lower, 1, 10)
  BY <1>1 DEF Cut
<1>4. Len(Cut(Lower, 10)) = 10 /\ \A d \in 1..10 : Cut(Lower, 10)[d] = Lower[d]
  BY <1>1, <1>2, <1>3
<1>. QED BY <1>1, <1>4 DEF DigitString

\* A number of n digits, padded or not, is printed as it is.
LEMMA NumberPrinted ==
    ASSUME NEW v \in Nat, NEW base \in Bases, NEW digits \in DigitSets, NEW item, NEW D,
           Rest(v, base)[NumberSize] = 0,
           item.zero \in BOOLEAN, item.width \in 0..(BufferSize - 2),
           DigitString(D, base, digits),
           Converted(item) = Padded(Numeral(v, base, digits), item)
    PROVE  Stands(Formatted(<<item>>), v, base, D, item)
<1> DEFINE s == Padded(Numeral(v, base, digits), item)
           T == DigitsOf(base, digits)
<1>1. item.width \in Nat /\ item.width <= BufferSize - 1
  BY FormatSizes
<1>2. Stands(s, v, base, D, item) /\ s \in Seq(T) /\ (Len(s) <= NumberSize \/ Len(s) <= item.width)
  BY <1>1, PaddedStands
<1> HIDE DEF s
<1>3. Len(s) <= BufferSize - 1 /\ BufferSize - 1 \in Nat
  BY <1>1, <1>2, FormatSizes
<1>4. Nul \notin T
  BY NoZeroBytes DEF DigitSets
<1> HIDE DEF T
<1>5. CString(Cut(s, BufferSize - 1)) = s
  BY <1>2, <1>3, <1>4, UncutText
<1>6. Formatted(<<item>>) = CString(Cut(Converted(item), BufferSize - 1))
  <2>1. Converted(item) \in Seq(T)
    BY <1>2 DEF s
  <2>. QED BY <2>1, FormattedOne
<1>7. Converted(item) = s
  BY DEF s
<1>. QED BY <1>2, <1>5, <1>6, <1>7

LEMMA SignedIs ==
    ASSUME NEW w \in Words
    PROVE  /\ Signed(w) \in Int /\ w \in Nat
           /\ Signed(w) >= 0 => Signed(w) = w
           /\ Signed(w) < 0 => -Signed(w) \in Words
<1>1. w \in Nat /\ w < WordRange
  BY FormatSizes DEF Words
<1> DEFINE h == WordRange \div 2
<1>2. h \in Nat /\ WordRange = 2 * h
  BY FormatSizes
<1>3. -IntMin = h /\ IntMin = -h
  BY <1>2 DEF IntMin
<1>4. Signed(w) = IF w >= h THEN w - WordRange ELSE w
  <2> HIDE DEF h
  <2>. QED BY <1>1, <1>2, <1>3 DEF Signed
<1> HIDE DEF h
<1>. QED BY <1>1, <1>2, <1>4 DEF Words

\* What a text is made of.
IsText(s) == \E T : s \in Seq(T)

\* The characters of a number, those of its sign and its padding among them.
LEMMA NumeralLetters ==
    ASSUME NEW v, NEW base, NEW digits
    PROVE  \E T : "-" \in T /\ "0" \in T /\ Numeral(v, base, digits) \in Seq(T)
<1> DEFINE n == DigitCount(v, base)
           s == Numeral(v, base, digits)
           char(i) == DigitChar(digits, Remainder(Rest(v, base)[n - i], base))
           T == {char(i) : i \in 1..n} \cup {"-", "0"}
<1>1. n \in Nat
  BY CountOfDigits, FormatSizes
<1>2. s = [i \in 1..n |-> char(i)]
  BY DEF Numeral
<1> HIDE DEF n, s
<1>3. s \in [1..n -> T]
  <2> HIDE DEF char
  <2>. QED BY <1>2
<1>4. "-" \in T /\ "0" \in T
  OBVIOUS
<1> HIDE DEF T
<1>5. s \in Seq(T)
  BY <1>1, <1>3
<1>. QED BY <1>4, <1>5, Zenon DEF s

\* A number after its sign is a text.
LEMMA SignedIsText ==
    ASSUME NEW v, NEW base, NEW digits
    PROVE  IsText(<<"-">> \o Numeral(v, base, digits))
<1> DEFINE s == Numeral(v, base, digits)
<1>1. PICK T : "-" \in T /\ "0" \in T /\ s \in Seq(T)
  BY NumeralLetters, Zenon
<1> HIDE DEF s
<1>2. <<"-">> \o s \in Seq(T)
  BY <1>1
<1>. QED BY <1>2, Zenon DEF IsText, s

\* A padded number is a text.
LEMMA NumeralIsText ==
    ASSUME NEW v, NEW base, NEW digits, NEW item, item.zero \in BOOLEAN, item.width \in Nat
    PROVE  IsText(Padded(Numeral(v, base, digits), item))
<1> DEFINE s == Numeral(v, base, digits)
           zeros == [i \in 1..(item.width - Len(s)) |-> "0"]
<1>1. PICK T : "-" \in T /\ "0" \in T /\ s \in Seq(T)
  BY NumeralLetters, Zenon
<1> HIDE DEF s
<1>2. CASE item.zero /\ item.width > Len(s)
  <2>1. item.width - Len(s) \in Nat
    BY <1>1, <1>2
  <2>2. zeros \in Seq(T)
    BY <1>1, <2>1
  <2>3. Padded(s, item) = zeros \o s
    BY <1>2 DEF Padded
  <2> HIDE DEF zeros
  <2>4. Padded(s, item) \in Seq(T)
    BY <1>1, <2>2, <2>3
  <2>. QED BY <2>4, Zenon DEF IsText, s
<1>3. CASE ~(item.zero /\ item.width > Len(s))
  <2>1. Padded(s, item) = s
    BY <1>3 DEF Padded
  <2>. QED BY <1>1, <2>1, Zenon DEF IsText, s
<1>. QED BY <1>2, <1>3

-----------------------------------------------------------------------------
(* Negative numbers. *)

\* Negative numbers lose their digits as positive ones do.
LEMMA NegativeRest ==
    ASSUME NEW v \in Nat, NEW base \in Bases
    PROVE  \A k \in 0..NumberSize : Rest(-v, base)[k] = -(Rest(v, base)[k])
<1> DEFINE n == NumberSize
           Step(e) == [k \in 0..n |-> IF k = 0 THEN -v ELSE Quotient(e[k - 1], base)]
           rest == CHOOSE e : e = Step(e)
           R == Rest(v, base)
           h == [k \in 0..n |-> -(R[k])]
<1>0. n \in Nat
  BY FormatSizes
<1>1. /\ R \in [0..n -> Nat] /\ R[0] = v
      /\ \A k \in 1..n : R[k] = R[k - 1] \div base
  BY Rests
<1> HIDE DEF R
<1>2. ASSUME NEW q \in Nat PROVE Quotient(-q, base) = -(q \div base)
  <2>1. base = 10 \/ base = 16
    BY DEF Bases
  <2>2. CASE q = 0
    BY <2>1, <2>2 DEF Quotient
  <2>3. CASE q # 0
    <3>1. -q < 0 /\ -(-q) = q
      BY <2>3
    <3>. QED BY <3>1 DEF Quotient
  <2>. QED BY <2>2, <2>3
<1>3. h[0] = -v /\ \A k \in 1..n : h[k] = Quotient(h[k - 1], base)
  <2>1. h[0] = -v
    BY <1>0, <1>1
  <2>2. ASSUME NEW k \in 1..n PROVE h[k] = Quotient(h[k - 1], base)
    <3>1. k \in 0..n /\ k - 1 \in 0..n
      BY <1>0
    <3>2. R[k - 1] \in Nat /\ R[k] = R[k - 1] \div base
      BY <1>1, <3>1
    <3>3. h[k] = -(R[k]) /\ h[k - 1] = -(R[k - 1])
      BY <3>1
    <3> HIDE DEF h
    <3>. QED BY <1>2, <3>2, <3>3
  <2>. QED BY <2>1, <2>2
<1>4. h = Step(h)
  <2>1. h = [k \in 0..n |-> h[k]]
    OBVIOUS
  <2> HIDE DEF h
  <2>2. \A k \in 0..n : h[k] = IF k = 0 THEN -v ELSE Quotient(h[k - 1], base)
    BY <1>0, <1>3
  <2>. QED BY <2>1, <2>2
<1>5. rest = Step(rest)
  <2> HIDE DEF Step, h
  <2>. QED BY <1>4
<1>6. Rest(-v, base) = rest
  BY DEF Rest
<1>7. \A k \in 0..n : rest[k] = Step(rest)[k]
  <2> HIDE DEF rest, Step
  <2>. QED BY <1>5
<1>8. rest[0] = -v /\ \A k \in 1..n : rest[k] = Quotient(rest[k - 1], base)
  <2> HIDE DEF rest
  <2>. QED BY <1>0, <1>7
<1>9. StepAlike(rest, h, n)
  <2> HIDE DEF rest, h
  <2>. QED BY <1>3, <1>8 DEF StepAlike
<1>10. \A k \in 0..n : rest[k] = h[k]
  <2> HIDE DEF rest, h
  <2>. QED BY <1>0, <1>9, SameRecursion
<1>11. \A k \in 0..n : h[k] = -(R[k])
  OBVIOUS
<1> HIDE DEF rest, h
<1>. QED BY <1>6, <1>10, <1>11 DEF R

\* The remainder of a negative number is no digit, unless it is zero.
LEMMA NegativeRemainder ==
    ASSUME NEW q \in Nat, NEW base \in Bases
    PROVE  /\ q = 0 => Remainder(-q, base) = 0
           /\ q # 0 /\ q \div base = 0 => Remainder(-q, base) \in (1 - base)..(-1)
<1>1. base = 10 \/ base = 16
  BY DEF Bases
<1>2. ASSUME q = 0 PROVE Remainder(-q, base) = 0
  BY <1>1, <1>2 DEF Remainder, Quotient
<1>3. ASSUME q # 0, q \div base = 0 PROVE Remainder(-q, base) \in (1 - base)..(-1)
  <2>1. -q < 0 /\ -(-q) = q
    BY <1>3
  <2>2. Quotient(-q, base) = 0
    BY <1>3, <2>1 DEF Quotient
  <2>3. Remainder(-q, base) = -q
    BY <1>1, <2>2 DEF Remainder
  <2>4. q < base
    BY <1>1, <1>3
  <2>. QED BY <1>1, <1>3, <2>3, <2>4
<1>. QED BY <1>2, <1>3

\* The last digits of a negative number: some zeros, and then the text ends.
LEMMA NegativeEnds ==
    ASSUME NEW v \in Nat, v # 0, NEW n \in 1..NumberSize, Rest(v, 16)[n] = 0
    PROVE  /\ IsText(LongToHex(-v, n)) /\ Len(LongToHex(-v, n)) = n
           /\ \E z \in 0..(n - 1) : /\ EndsAt(LongToHex(-v, n), z)
                                    /\ \A k \in 1..z : LongToHex(-v, n)[k] = "0"
<1> DEFINE R == Rest(v, 16)
           s == LongToHex(-v, n)
           char(i) == LET remainder == Remainder(Rest(-v, 16)[n - i], 16)
                      IN  IF remainder < 0 THEN Nul ELSE DigitChar(Upper, remainder)
           I == {i \in 1..n : R[n - i] # 0}
<1>0. n \in Nat /\ NumberSize \in Nat /\ 16 \in Bases /\ n <= NumberSize /\ n >= 1
  BY FormatSizes DEF Bases
<1>1. /\ R \in [0..NumberSize -> Nat] /\ R[0] = v /\ R[n] = 0
      /\ \A k \in 1..NumberSize : R[k] = R[k - 1] \div 16
  BY <1>0, Rests
<1>2. s = [i \in 1..n |-> char(i)]
  BY DEF LongToHex
<1>3. ASSUME NEW i \in 1..n PROVE s[i] = char(i)
  <2> HIDE DEF char, s
  <2>. QED BY <1>2
<1>4. Len(s) = n /\ IsText(s)
  <2> DEFINE T == {char(i) : i \in 1..n}
  <2>1. s \in [1..n -> T]
    <3> HIDE DEF char, s
    <3>. QED BY <1>2
  <2> HIDE DEF s, T
  <2>2. s \in Seq(T) /\ Len(s) = n
    BY <1>0, <2>1
  <2>. QED BY <2>2, Zenon DEF IsText
<1>5. ASSUME NEW i \in 1..n
      PROVE  /\ n - i \in 0..NumberSize /\ R[n - i] \in Nat
             /\ Rest(-v, 16)[n - i] = -(R[n - i])
  <2>1. n - i \in 0..NumberSize
    BY <1>0
  <2>. QED BY <1>0, <1>1, <2>1, NegativeRest
<1> HIDE DEF R
<1>6. n \in I
  BY <1>0, <1>1
<1>7. PICK i \in I : \A k \in I : i <= k
  <2>1. I \in SUBSET Nat /\ I # {}
    BY <1>0, <1>6
  <2> HIDE DEF I
  <2>. QED BY <2>1, LeastNatural
<1>8. i \in 1..n /\ R[n - i] # 0 /\ \A k \in 1..(i - 1) : k \in 1..n /\ R[n - k] = 0
  <2>1. i \in 1..n /\ R[n - i] # 0
    OBVIOUS
  <2>2. ASSUME NEW k \in 1..(i - 1) PROVE k \in 1..n /\ R[n - k] = 0
    <3>1. k \in 1..n /\ ~(i <= k)
      BY <1>0, <2>1
    <3>. QED BY <1>7, <3>1
  <2>. QED BY <2>1, <2>2
<1>9. ASSUME NEW k \in 1..(i - 1) PROVE s[k] = "0"
  <2>1. k \in 1..n /\ R[n - k] = 0
    BY <1>8
  <2>2. Remainder(Rest(-v, 16)[n - k], 16) = 0
    BY <1>0, <1>5, <2>1, NegativeRemainder
  <2>3. DigitChar(Upper, 0) = "0"
    BY DEF DigitChar, Upper
  <2> HIDE DEF s
  <2>. QED BY <1>3, <2>1, <2>2, <2>3
<1>10. s[i] = Nul
  <2> DEFINE q == R[n - i]
  <2>1. q \in Nat /\ q # 0 /\ Rest(-v, 16)[n - i] = -q
    BY <1>5, <1>8
  <2>2. q \div 16 = 0
    <3>1. n - i + 1 \in 1..NumberSize /\ n - i + 1 - 1 = n - i
      BY <1>0, <1>8
    <3>2. R[n - i + 1] = q \div 16
      BY <1>1, <3>1
    <3>3. CASE i = 1
      BY <1>0, <1>1, <3>2, <3>3
    <3>4. CASE i # 1
      <4>1. i - 1 \in 1..(i - 1) /\ n - (i - 1) = n - i + 1
        BY <1>0, <1>8, <3>4
      <4>. QED BY <1>8, <3>2, <4>1
    <3>. QED BY <3>3, <3>4
  <2> HIDE DEF q, s
  <2>3. Remainder(Rest(-v, 16)[n - i], 16) < 0
    BY <1>0, <2>1, <2>2, NegativeRemainder
  <2>. QED BY <1>3, <1>8, <2>3
<1>11. i - 1 \in 0..(n - 1)
  BY <1>0, <1>8
<1>12. EndsAt(s, i - 1)
  <2> HIDE DEF s
  <2>1. i - 1 \in 0..Len(s) /\ i - 1 + 1 = i
    BY <1>0, <1>4, <1>8
  <2>2. Nul # "0"
    BY NoZeroBytes DEF Bases, DigitsOf, Upper
  <2>3. \A k \in 1..(i - 1) : s[k] # Nul
    BY <1>9, <2>2
  <2>. QED BY <1>10, <2>1, <2>3 DEF EndsAt
<1>. QED BY <1>4, <1>9, <1>11, <1>12

\* The least integer: the first character behind its sign is no digit.
LEMMA LeastIsNoNumeral ==
    ASSUME NEW v \in Nat, v # 0, Rest(v, 10)[NumberSize] = 0
    PROVE  /\ Len(Numeral(-v, 10, Lower)) > 0
           /\ ~\E d \in 1..10 : Numeral(-v, 10, Lower)[1] = Lower[d]
<1> DEFINE n == DigitCount(-v, 10)
           R == Rest(v, 10)
           q == R[n - 1]
           num == Numeral(-v, 10, Lower)
           char(i) == DigitChar(Lower, Remainder(Rest(-v, 10)[n - i], 10))
<1>0. 10 \in Bases /\ NumberSize \in Nat
  BY FormatSizes DEF Bases
<1>1. /\ R \in [0..NumberSize -> Nat] /\ R[0] = v
      /\ \A k \in 1..NumberSize : R[k] = R[k - 1] \div 10
  BY <1>0, Rests
<1>2. /\ n \in 1..NumberSize
      /\ n = NumberSize \/ Rest(-v, 10)[n] = 0
      /\ \A k \in 1..(n - 1) : Rest(-v, 10)[k] # 0
  BY CountOfDigits
<1>3. num = [i \in 1..n |-> char(i)]
  BY DEF Numeral
<1>4. \A k \in 0..NumberSize : Rest(-v, 10)[k] = -(R[k])
  BY <1>0, NegativeRest
<1>5. R[NumberSize] = 0
  OBVIOUS
<1> HIDE DEF n, R
<1>6. n \in 0..NumberSize /\ n - 1 \in 0..NumberSize /\ R[n] = q \div 10 /\ q \in Nat
  BY <1>0, <1>1, <1>2
<1>7. R[n] = 0
  <2>1. R[n] \in Nat /\ Rest(-v, 10)[n] = -(R[n])
    BY <1>1, <1>4, <1>6
  <2>. QED BY <1>2, <1>5, <2>1
<1>8. q # 0
  <2>1. CASE n = 1
    BY <1>1, <2>1
  <2>2. CASE n # 1
    <3>1. n - 1 \in 1..(n - 1)
      BY <1>0, <1>2, <2>2
    <3>2. Rest(-v, 10)[n - 1] # 0 /\ Rest(-v, 10)[n - 1] = -q
      BY <1>2, <1>4, <1>6, <3>1
    <3> HIDE DEF q
    <3>. QED BY <1>6, <3>2
  <2>. QED BY <2>1, <2>2
<1>9. Remainder(Rest(-v, 10)[n - 1], 10) \in -9..(-1)
  <2>1. Rest(-v, 10)[n - 1] = -q
    BY <1>4, <1>6
  <2>2. q \in Nat /\ q # 0 /\ q \div 10 = 0
    BY <1>6, <1>7, <1>8
  <2> HIDE DEF q
  <2>3. Remainder(-q, 10) \in (1 - 10)..(-1)
    BY <1>0, <2>2, NegativeRemainder
  <2>. QED BY <2>1, <2>3
<1>10. \A r \in -9..(-1), d \in 1..10 : DigitChar(Lower, r) # Lower[d]
  <2>1. ASSUME NEW r \in -9..(-1) PROVE DigitChar(Lower, r) = BelowNil[-r] /\ -r \in 1..9
    BY DEF DigitChar
  <2>2. ASSUME NEW b \in 1..9, NEW d \in 1..10 PROVE BelowNil[b] # Lower[d]
    <3>0. b \in {1, 2, 3, 4, 5, 6, 7, 8, 9}
      OBVIOUS
    <3>1. BelowNil[b] \in {"/", ".", "-", ",", "+", "*", ")", "(", "'"}
      <4>1. /\ BelowNil[1] = "/" /\ BelowNil[2] = "." /\ BelowNil[3] = "-"
            /\ BelowNil[4] = "," /\ BelowNil[5] = "+" /\ BelowNil[6] = "*"
            /\ BelowNil[7] = ")" /\ BelowNil[8] = "(" /\ BelowNil[9] = "'"
        BY DEF BelowNil
      <4>. QED BY <3>0, <4>1
    <3>2. Lower[d] \in {"0", "1", "2", "3", "4", "5", "6", "7", "8", "9"}
      BY DEF Lower
    <3>. QED BY <3>1, <3>2
  <2>. QED BY <2>1, <2>2
<1>11. Len(num) = n /\ num[1] = char(1)
  <2> HIDE DEF num, char
  <2>1. 1 \in 1..n /\ n \in Nat
    BY <1>0, <1>2
  <2>. QED BY <1>3, <2>1
<1> HIDE DEF q, num
<1>12. Len(num) > 0
  BY <1>0, <1>2, <1>11
<1>13. \A d \in 1..10 : num[1] # Lower[d]
  BY <1>9, <1>10, <1>11
<1>. QED BY <1>12, <1>13 DEF num

\* Every number that kernel_printf prints on its own reads back.
LEMMA NumbersAreReadBack == NumbersReadBack
<1> SUFFICES ASSUME NEW w \in Words, NEW zero \in BOOLEAN, NEW width \in 0..(BufferSize - 2)
             PROVE  LET d == Number("d", zero, width, w)
                        x == Number("x", zero, width, w)
                        X == Number("X", zero, width, w)
                        v == Signed(w)
                    IN  /\ v >= 0 => Stands(Formatted(d), v, 10, Cut(Lower, 10), d[1])
                        /\ v < 0 /\ v # IntMin =>
                              /\ Head(Formatted(d)) = "-"
                              /\ Stands(Tail(Formatted(d)), -v, 10, Cut(Lower, 10),
                                        Number("d", FALSE, 0, w)[1])
                        /\ v = IntMin => ~IsNumeral(Tail(Formatted(d)), Cut(Lower, 10))
                        /\ Stands(Formatted(x), w, 16, Lower, x[1])
                        /\ Stands(Formatted(X), w, 16, Upper, X[1])
  BY DEF NumbersReadBack
<1> DEFINE item(conv) == [conv |-> conv, zero |-> zero, width |-> width, arg |-> w]
           v == Signed(w)
<1>1. /\ 10 \in Bases /\ 16 \in Bases /\ Lower \in DigitSets /\ Upper \in DigitSets
      /\ w \in Nat /\ v \in Int /\ (v >= 0 => v = w) /\ (v < 0 => -v \in Words)
  BY SignedIs DEF Bases, DigitSets
<1>2. \A conv : /\ Number(conv, zero, width, w) = <<item(conv)>>
                /\ Number(conv, zero, width, w)[1] = item(conv)
                /\ item(conv).zero = zero /\ item(conv).width = width
                /\ item(conv).arg = w /\ item(conv).conv = conv
  BY DEF Number
<1>3. /\ Converted(item("d")) = Decimal(item("d"))
      /\ Converted(item("x")) = Hex(item("x"), Lower)
      /\ Converted(item("X")) = Hex(item("X"), Upper)
  BY DEF Converted
<1> HIDE DEF item
<1>4. Stands(Formatted(<<item("x")>>), w, 16, Lower, item("x"))
  <2>1. Converted(item("x")) = Padded(Numeral(w, 16, Lower), item("x"))
    BY <1>2, <1>3 DEF Hex
  <2>. QED BY <1>1, <1>2, <2>1, WordEnds, DigitSequences, NumberPrinted
<1>5. Stands(Formatted(<<item("X")>>), w, 16, Upper, item("X"))
  <2>1. Converted(item("X")) = Padded(Numeral(w, 16, Upper), item("X"))
    BY <1>2, <1>3 DEF Hex
  <2>. QED BY <1>1, <1>2, <2>1, WordEnds, DigitSequences, NumberPrinted
<1>6. ASSUME v >= 0 PROVE Stands(Formatted(<<item("d")>>), v, 10, Cut(Lower, 10), item("d"))
  <2>1. ~(Signed(item("d").arg) < 0) /\ Signed(item("d").arg) = w
    BY <1>1, <1>2, <1>6
  <2>2. Converted(item("d")) = Padded(Numeral(w, 10, Lower), item("d"))
    BY <1>3, <2>1, Zenon DEF Decimal
  <2>3. v = w
    BY <1>1, <1>6
  <2> HIDE DEF v
  <2>. QED BY <1>1, <1>2, <2>2, <2>3, WordEnds, DigitSequences, NumberPrinted
<1>7. ASSUME v < 0, v # IntMin
      PROVE  /\ Head(Formatted(<<item("d")>>)) = "-"
             /\ Stands(Tail(Formatted(<<item("d")>>)), -v, 10, Cut(Lower, 10),
                       Number("d", FALSE, 0, w)[1])
  <2> DEFINE s == Numeral(-v, 10, Lower)
             plain == Number("d", FALSE, 0, w)[1]
             T == DigitsOf(10, Lower) \cup {"-"}
  <2>1. Signed(item("d").arg) < 0 /\ Negated(Signed(item("d").arg)) = -v
    BY <1>2, <1>7 DEF Negated
  <2>2. Converted(item("d")) = <<"-">> \o s
    BY <1>3, <2>1, Zenon DEF Decimal
  <2>3. plain.zero = FALSE /\ plain.width = 0 /\ plain.zero \in BOOLEAN /\ plain.width \in Nat
    BY DEF Number
  <2>4. -v \in Words /\ -v \in Nat
    BY <1>1, <1>7, WordEnds
  <2> HIDE DEF v, plain
  <2>5. Padded(s, plain) = s
    BY <2>3 DEF Padded
  <2>6. /\ Stands(Padded(s, plain), -v, 10, Cut(Lower, 10), plain)
        /\ Padded(s, plain) \in Seq(DigitsOf(10, Lower))
        /\ Len(Padded(s, plain)) <= NumberSize \/ Len(Padded(s, plain)) <= plain.width
    BY <1>1, <2>3, <2>4, WordEnds, DigitSequences, PaddedStands
  <2>7. Stands(s, -v, 10, Cut(Lower, 10), plain) /\ s \in Seq(DigitsOf(10, Lower))
    BY <2>5, <2>6
  <2>8. Len(s) <= NumberSize
    BY <2>3, <2>5, <2>6, FormatSizes
  <2> HIDE DEF s
  <2>9. /\ <<"-">> \o s \in Seq(T) /\ Len(<<"-">> \o s) <= BufferSize - 1
        /\ Head(<<"-">> \o s) = "-" /\ Tail(<<"-">> \o s) = s
    <3>1. s \in Seq(T) /\ <<"-">> \in Seq(T)
      BY <2>7
    <3> HIDE DEF T
    <3>2. <<"-">> \o s \in Seq(T) /\ Len(<<"-">> \o s) = 1 + Len(s)
      BY <3>1
    <3>3. Head(<<"-">> \o s) = "-" /\ Tail(<<"-">> \o s) = s
      BY <3>1
    <3>. QED BY <2>8, <3>1, <3>2, <3>3, FormatSizes
  <2>10. Nul \notin T
    BY <1>1, NoZeroBytes
  <2> HIDE DEF T
  <2>11. Formatted(<<item("d")>>) = CString(Cut(<<"-">> \o s, BufferSize - 1))
    BY <2>2, <2>9, FormattedOne
  <2>12. CString(Cut(<<"-">> \o s, BufferSize - 1)) = <<"-">> \o s
    <3>1. BufferSize - 1 \in Nat
      BY FormatSizes
    <3>. QED BY <2>9, <2>10, <3>1, UncutText
  <2>. QED BY <2>7, <2>9, <2>11, <2>12 DEF plain
<1>8. ASSUME v = IntMin PROVE ~IsNumeral(Tail(Formatted(<<item("d")>>)), Cut(Lower, 10))
  <2> DEFINE s == Numeral(v, 10, Lower)
             t == <<"-">> \o s
             r == Formatted(<<item("d")>>)
             m == BufferSize - 1
  <2>1. v < 0
    <3>1. WordRange \div 2 \in Nat /\ WordRange \div 2 > 0
      BY FormatSizes
    <3>. QED BY <1>8, <3>1 DEF IntMin
  <2>2. Negated(v) = v
    BY <1>8 DEF Negated
  <2>3. Converted(item("d")) = t
    <3>1. Signed(item("d").arg) = v
      BY <1>2
    <3> HIDE DEF v
    <3>. QED BY <1>3, <2>1, <2>2, <3>1, Zenon DEF Decimal
  <2>4. Len(s) > 0 /\ ~\E d \in 1..10 : s[1] = Lower[d]
    <3> DEFINE u == -v
    <3>1. u \in Words /\ u \in Nat /\ u # 0 /\ v = -u /\ Rest(u, 10)[NumberSize] = 0
      BY <1>1, <2>1, WordEnds
    <3> HIDE DEF u, v
    <3>. QED BY <3>1, LeastIsNoNumeral
  <2> HIDE DEF v
  <2>5. PICK T : "-" \in T /\ "0" \in T /\ s \in Seq(T)
    BY NumeralLetters, Zenon
  <2> HIDE DEF s
  <2>6. t \in Seq(T) /\ Len(t) = 1 + Len(s) /\ t[1] = "-" /\ t[2] = s[1]
    BY <2>4, <2>5
  <2>7. PICK n : EndsAt(t, n)
    BY <2>6, EndExists, Zenon
  <2>8. r = CString(Cut(t, m))
    BY <2>3, <2>6, FormattedOne
  <2> HIDE DEF t, r
  <2>9. m \in Nat
    BY FormatSizes
  <2> HIDE DEF m
  <2>10. r \in Seq(T) /\ Len(r) = Least(n, m) /\ \A k \in 1..Len(r) : r[k] = t[k]
    <3> DEFINE l == Least(n, m)
    <3>1. r = SubSeq(t, 1, l)
      BY <2>6, <2>7, <2>8, <2>9, CStringOfCut, Zenon
    <3>2. n \in Nat /\ n <= Len(t)
      BY <2>4, <2>5, <2>6, <2>7 DEF EndsAt
    <3>3. l \in Nat /\ l <= Len(t)
      BY <2>9, <3>2 DEF Least
    <3> HIDE DEF l
    <3>. QED BY <2>6, <3>1, <3>3 DEF l
  <2>11. DigitString(Cut(Lower, 10), 10, Lower)
    BY DigitSequences
  <2>12. ASSUME IsNumeral(Tail(r), Cut(Lower, 10)) PROVE FALSE
    <3>1. Tail(r) # <<>> /\ \A k \in 1..Len(Tail(r)) :
                               \E d \in 1..Len(Cut(Lower, 10)) : Tail(r)[k] = Cut(Lower, 10)[d]
      BY <2>12 DEF IsNumeral
    <3>2. Len(r) >= 2 /\ Len(Tail(r)) = Len(r) - 1 /\ Tail(r)[1] = r[2]
      <4>1. Len(r) # 0
        <5>1. n >= 1 /\ n \in Nat
          <6>1. Nul # "-" /\ Len(t) \in Nat /\ Len(t) > 0
            BY <2>4, <2>5, <2>6, NoZeroBytes
          <6>2. n \in 0..Len(t) /\ (n = Len(t) \/ t[n + 1] = Nul)
            BY <2>7 DEF EndsAt
          <6>3. n # 0
            BY <2>6, <6>1, <6>2
          <6>. QED BY <6>1, <6>2, <6>3
        <5>2. m >= 1
          BY FormatSizes DEF m
        <5>. QED BY <2>9, <2>10, <5>1, <5>2 DEF Least
      <4>2. Len(r) \in Nat /\ Len(r) >= 1 /\ Len(Tail(r)) = Len(r) - 1 /\ Tail(r) \in Seq(T)
        BY <2>10, <4>1
      <4>3. Len(Tail(r)) > 0
        BY <3>1, <4>2
      <4>. QED BY <2>10, <4>2, <4>3
    <3>3. 1 \in 1..Len(Tail(r))
      BY <2>10, <3>2
    <3>4. PICK d \in 1..10 : Tail(r)[1] = Lower[d]
      BY <2>11, <3>1, <3>3 DEF DigitString
    <3>5. 2 \in 1..Len(r)
      BY <2>10, <3>2
    <3>6. r[2] = t[2]
      BY <2>10, <3>5
    <3>7. s[1] = Lower[d]
      BY <2>6, <3>2, <3>4, <3>6
    <3>. QED BY <2>4, <3>7
  <2>. QED BY <2>12 DEF r
<1>. QED BY <1>2, <1>4, <1>5, <1>6, <1>7, <1>8

-----------------------------------------------------------------------------
(* Log lines. *)

\* A positive number in n digits of base 16.
LEMMA LongToHexIs ==
    ASSUME NEW v \in Nat, NEW n \in 1..NumberSize
    PROVE  LongToHex(v, n) = LastDigits(v, 16, Upper, n)
<1>1. ASSUME NEW i \in 1..n
      PROVE  (LET remainder == Remainder(Rest(v, 16)[n - i], 16)
              IN  IF remainder < 0 THEN Nul ELSE DigitChar(Upper, remainder))
                 = Upper[DigitAt(v, 16, n, i) + 1]
  <2>1. DigitAt(v, 16, n, i) \in 0..(16 - 1)
    BY LastDigitsType DEF Bases, DigitSets
  <2>2. ~(DigitAt(v, 16, n, i) < 0)
    BY <2>1
  <2>. QED BY <2>2, Zenon DEF DigitAt, DigitChar
<1>. QED BY <1>1, Zenon DEF LongToHex, LastDigits

\* These digits stand for the number if they are all of it.
LEMMA LongToHexStands ==
    ASSUME NEW v \in Nat, NEW n \in 1..NumberSize, NEW w, Rest(v, 16)[n] = 0
    PROVE  /\ Stands(LongToHex(v, n), v, 16, Upper, Number("X", TRUE, n, w)[1])
           /\ LongToHex(v, n) \in Seq(DigitsOf(16, Upper))
           /\ Len(LongToHex(v, n)) = n
<1> DEFINE s == LastDigits(v, 16, Upper, n)
           item == Number("X", TRUE, n, w)[1]
<1>1. 16 \in Bases /\ Upper \in DigitSets /\ n \in Nat /\ n > 0
  BY FormatSizes DEF Bases, DigitSets
<1>2. s \in Seq(DigitsOf(16, Upper)) /\ Len(s) = n
  BY <1>1, LastDigitsAre
<1>3. item.zero = TRUE /\ item.width = n
  BY DEF Number
<1> HIDE DEF s, item
<1>4. ZerosBefore(s, 0, s, n)
  BY <1>1, <1>2 DEF ZerosBefore
<1>5. Value(s, 16) = v
  <2>1. ZerosBefore(s, 0, LastDigits(v, 16, Upper, n), n)
    BY <1>4 DEF s
  <2>2. 0 \in Nat
    OBVIOUS
  <2>. QED BY <1>1, <2>1, <2>2, DigitsReadBack
<1>6. IsNumeral(s, Upper)
  <2>1. s # <<>>
    BY <1>1, <1>2
  <2>2. ASSUME NEW k \in 1..Len(s) PROVE \E d \in 1..Len(Upper) : s[k] = Upper[d]
    <3>1. s[k] \in DigitsOf(16, Upper)
      BY <1>2
    <3>2. Len(Upper) = 16
      BY DigitSequences DEF DigitString
    <3>. QED BY <3>1, <3>2 DEF DigitsOf
  <2>. QED BY <2>1, <2>2 DEF IsNumeral
<1>7. Stands(s, v, 16, Upper, item)
  BY <1>1, <1>2, <1>3, <1>5, <1>6 DEF Stands
<1>8. LongToHex(v, n) = s
  BY LongToHexIs DEF s
<1>. QED BY <1>2, <1>7, <1>8 DEF item

\* A text with the zero that ends it and anything behind it, cut somewhere.
LEMMA EndedText ==
    ASSUME NEW T, NEW t \in Seq(T), NEW U, NEW r \in Seq(U), NEW m \in Nat, Nul \notin T
    PROVE  CString(Cut(Append(t, Nul) \o r, m)) = Cut(t, m)
<1> DEFINE S == T \cup {Nul} \cup U
           e == Append(t, Nul)
           u == e \o r
           n == Least(Len(t), m)
<1>1. u \in Seq(S) /\ Len(u) >= Len(t) + 1 /\ Len(t) \in Nat
      /\ (\A k \in 1..Len(t) : u[k] = t[k]) /\ u[Len(t) + 1] = Nul
  <2>1. t \in Seq(S) /\ Nul \in S /\ r \in Seq(S)
    OBVIOUS
  <2> HIDE DEF S
  <2>2. e \in Seq(S) /\ Len(e) = Len(t) + 1 /\ Len(t) \in Nat
        /\ (\A k \in 1..Len(t) : e[k] = t[k]) /\ e[Len(t) + 1] = Nul
    BY <2>1
  <2> HIDE DEF e
  <2>3. u \in Seq(S) /\ Len(u) = Len(e) + Len(r) /\ Len(r) \in Nat
    BY <2>1, <2>2, Beginning, Zenon
  <2>4. \A k \in 1..Len(e) : u[k] = e[k]
    BY <2>1, <2>2, Beginning
  <2> HIDE DEF u
  <2>. QED BY <2>2, <2>3, <2>4
<1> HIDE DEF S, u
<1>2. EndsAt(u, Len(t))
  <2>1. Len(t) \in 0..Len(u)
    BY <1>1
  <2>2. \A k \in 1..Len(t) : u[k] # Nul
    BY <1>1
  <2>. QED BY <1>1, <2>1, <2>2 DEF EndsAt
<1>3. CString(Cut(u, m)) = SubSeq(u, 1, n)
  BY <1>1, <1>2, CStringOfCut
<1>4. n \in Nat /\ n <= Len(t)
  BY <1>1, LeastIs
<1>5. Cut(t, m) = SubSeq(t, 1, n)
  BY DEF Cut, Least
<1> HIDE DEF n
<1>6. SubSeq(u, 1, n) = SubSeq(t, 1, n)
  <2>1. SubSeq(u, 1, n) = [k \in 1..n |-> u[k]] /\ SubSeq(t, 1, n) = [k \in 1..n |-> t[k]]
    BY <1>1, <1>4
  <2>2. ASSUME NEW k \in 1..n PROVE u[k] = t[k]
    <3>1. k \in 1..Len(t)
      BY <1>1, <1>4
    <3>. QED BY <1>1, <3>1
  <2>. QED BY <2>1, <2>2
<1>. QED BY <1>3, <1>5, <1>6 DEF u, e

\* Appending in front of, and behind.
LEMMA AppendJoined ==
    ASSUME NEW T, NEW s \in Seq(T), NEW t \in Seq(T), NEW x \in T
    PROVE  s \o Append(t, x) = Append(s \o t, x)
<1> DEFINE a == s \o Append(t, x)
           b == Append(s \o t, x)
<1>1. a \in Seq(T) /\ b \in Seq(T) /\ Len(a) = Len(s) + Len(t) + 1 /\ Len(b) = Len(a)
  OBVIOUS
<1>2. ASSUME NEW k \in 1..Len(a) PROVE a[k] = b[k]
  <2>1. CASE k <= Len(s)
    BY <1>1, <2>1
  <2>2. CASE k > Len(s) /\ k <= Len(s) + Len(t)
    BY <1>1, <2>2
  <2>3. CASE k = Len(s) + Len(t) + 1
    BY <1>1, <2>3
  <2>. QED BY <1>1, <2>1, <2>2, <2>3
<1> HIDE DEF a, b
<1>. QED BY <1>1, <1>2, SeqEqual DEF a, b

\* The beginning of a text is not changed by a cut behind it.
LEMMA CutTwice ==
    ASSUME NEW T, NEW s \in Seq(T), NEW t \in Seq(T), NEW m \in Nat, Len(s) <= m
    PROVE  Cut(Cut(s \o t, m), Len(s)) = s /\ Len(Cut(s \o t, m)) >= Len(s)
<1> DEFINE u == s \o t
           c == Cut(u, m)
           n == IF Len(u) < m THEN Len(u) ELSE m
           d == Cut(c, Len(s))
           l == Len(s)
<1>1. u \in Seq(T) /\ Len(u) = l + Len(t) /\ l \in Nat /\ Len(t) \in Nat
      /\ \A k \in 1..l : u[k] = s[k]
  OBVIOUS
<1> HIDE DEF u
<1>2. n \in Nat /\ c \in Seq(T) /\ Len(c) = n /\ \A k \in 1..n : c[k] = u[k]
  BY <1>1, CutIs
<1>3. l <= n
  BY <1>1
<1> HIDE DEF c, n
<1>4. l \in Nat /\ Len(c) >= l
  BY <1>1, <1>2, <1>3
<1> HIDE DEF l
<1>5. d \in Seq(T) /\ Len(d) = l /\ \A k \in 1..l : d[k] = c[k]
  <2>1. d = SubSeq(c, 1, l)
    <3>1. (IF Len(c) < l THEN Len(c) ELSE l) = l
      BY <1>2, <1>4
    <3>. QED BY <3>1, Zenon DEF Cut, l
  <2> HIDE DEF d
  <2>. QED BY <1>2, <1>4, <2>1
<1>6. \A k \in 1..l : d[k] = s[k]
  <2> HIDE DEF d
  <2>. QED BY <1>1, <1>2, <1>3, <1>4, <1>5
<1>7. d = s
  <2> HIDE DEF d
  <2>1. Len(s) = l
    BY DEF l
  <2>. QED BY <1>5, <1>6, <2>1, SeqEqual
<1>. QED BY <1>4, <1>7 DEF c, u, l

\* A log line of a time that is not negative.
LEMMA TimedLine ==
    ASSUME NEW w \in Words, NEW message \in Messages, Signed(w) >= 0
    PROVE  LET l     == LogLine(w, message)
               stamp == Cut(l, LongDigits)
               shown == IF Len(message) > LongMessage THEN Cut(message, 1) ELSE message
           IN  /\ Stands(stamp, w, 16, Upper, Number("X", TRUE, LongDigits, w)[1])
               /\ l = Cut(stamp \o <<":", Blank>> \o shown, LogSize - 1)
<1> DEFINE stamp == LongToHex(w, LongDigits)
           tail == <<":", Blank>>
           header == stamp \o tail
           T == DigitsOf(16, Upper) \cup {":", Blank} \cup Printable
           m == LogSize - 1
           shown == IF Len(message) > LongMessage THEN Cut(message, 1) ELSE message
           text == header \o shown
           copied == IF Len(message) > LongMessage THEN Cut(message, 1) ELSE Append(message, Nul)
           behind == SubSeq(header, Len(header) + Len(copied) + 1, Len(header))
<1>0. w \in Nat /\ Signed(w) = w
  BY SignedIs
<1>1. /\ Stands(stamp, w, 16, Upper, Number("X", TRUE, LongDigits, w)[1])
      /\ stamp \in Seq(DigitsOf(16, Upper))
      /\ Len(stamp) = LongDigits
  <2>1. LongDigits \in 1..NumberSize
    BY FormatSizes
  <2>. QED BY <1>0, <2>1, WordEnds, LongToHexStands
<1>2. Nul \notin T
  BY NoZeroBytes DEF Bases
<1>3. message \in Seq(T) /\ shown \in Seq(T) /\ stamp \in Seq(T) /\ tail \in Seq(T)
  <2>1. message \in Seq(Printable)
    BY StringsAssumption, TerminalAssumption DEF Printable
  <2>2. message \in Seq(T)
    BY <2>1
  <2> HIDE DEF stamp, T
  <2>3. Cut(message, 1) \in Seq(T)
    BY <2>2, CutIs
  <2>4. stamp \in Seq(T) /\ tail \in Seq(T)
    BY <1>1 DEF T
  <2>. QED BY <2>2, <2>3, <2>4
<1>4. LogLine(w, message) =
          LET kept == CString(header)
              cop  == IF Len(message) > LongMessage THEN Cut(message, 1) ELSE Append(message, Nul)
              beh  == SubSeq(header, Len(kept) + Len(cop) + 1, Len(header))
          IN  CString(Cut(kept \o cop \o beh, LogSize - 1))
  <2> HIDE DEF m
  <2>. QED BY <1>0, Zenon DEF LogLine
<1> HIDE DEF stamp, T, tail
<1>5. header \in Seq(T) /\ Len(header) \in Nat
  BY <1>3
<1> HIDE DEF header
<1>6. CString(header) = header
  <2>1. EndsAt(header, Len(header))
    <3>1. Len(header) \in 0..Len(header) /\ \A k \in 1..Len(header) : header[k] # Nul
      BY <1>2, <1>5
    <3>. QED BY <3>1 DEF EndsAt
  <2>2. CString(header) = SubSeq(header, 1, Len(header))
    BY <1>5, <2>1, CStringIs
  <2>3. SubSeq(header, 1, Len(header)) = header
    BY <1>5
  <2>. QED BY <2>2, <2>3
<1>7. LogLine(w, message) = CString(Cut(header \o copied \o behind, m))
  BY <1>4, <1>6, Zenon
<1>8. Len(shown) \in Nat /\ Len(copied) \in Nat /\ behind = <<>>
  <2>1. Len(copied) \in Nat
    BY <1>3
  <2>2. behind = <<>>
    <3> HIDE DEF copied
    <3>. QED BY <1>5, <2>1
  <2>3. Len(shown) \in Nat
    <3> HIDE DEF shown
    <3>. QED BY <1>3
  <2> HIDE DEF shown, copied, behind
  <2>. QED BY <2>1, <2>2, <2>3
<1>9. m \in Nat /\ LongDigits <= m
  BY FormatSizes
<1>10. text \in Seq(T)
  <2> HIDE DEF shown
  <2>. QED BY <1>3, <1>5
<1>11. behind \in Seq({})
  BY <1>8
<1> HIDE DEF behind, m
<1>12. LogLine(w, message) = Cut(text, m)
  <2>1. CASE Len(message) > LongMessage
    <3>1. copied = shown
      BY <2>1
    <3>2. text \o behind = text
      <4> HIDE DEF text
      <4>. QED BY <1>8, <1>10
    <3>3. CString(Cut(text, m)) = Cut(text, m)
      <4> HIDE DEF text
      <4>1. Cut(text, m) \in Seq(T) /\ Len(Cut(text, m)) <= m
        BY <1>9, <1>10, CutIs
      <4> DEFINE c == Cut(text, m)
      <4> HIDE DEF c
      <4>2. Cut(c, m) = c /\ CString(Cut(c, m)) = c
        BY <1>2, <1>9, <4>1, UncutText DEF c
      <4>. QED BY <4>2 DEF c
    <3> HIDE DEF copied
    <3>. QED BY <1>7, <3>1, <3>2, <3>3
  <2>2. CASE ~(Len(message) > LongMessage)
    <3>1. copied = Append(shown, Nul)
      BY <2>2
    <3>2. header \o copied = Append(text, Nul)
      <4> DEFINE S == T \cup {Nul}
      <4>1. header \in Seq(S) /\ shown \in Seq(S) /\ Nul \in S
        BY <1>3, <1>5
      <4> HIDE DEF S, shown, copied
      <4>. QED BY <3>1, <4>1, AppendJoined
    <3> HIDE DEF text
    <3>3. CString(Cut(Append(text, Nul) \o behind, m)) = Cut(text, m)
      BY <1>2, <1>9, <1>10, <1>11, EndedText
    <3> HIDE DEF copied
    <3>. QED BY <1>7, <3>2, <3>3
  <2>. QED BY <2>1, <2>2
<1> HIDE DEF shown
<1>13. Cut(Cut(text, m), LongDigits) = stamp
  <2>1. text = stamp \o (tail \o shown)
    <3> USE DEF header
    <3>1. text \in Seq(T) /\ stamp \o (tail \o shown) \in Seq(T)
      BY <1>3, <1>10
    <3>2. Len(text) = Len(stamp \o (tail \o shown))
      BY <1>3
    <3>3. \A k \in 1..Len(text) : text[k] = (stamp \o (tail \o shown))[k]
      BY <1>3
    <3> HIDE DEF text
    <3>. QED BY <3>1, <3>2, <3>3, SeqEqual
  <2>2. tail \o shown \in Seq(T) /\ Len(stamp) <= m
    BY <1>1, <1>3, <1>9
  <2> HIDE DEF m, text
  <2>3. Cut(Cut(stamp \o (tail \o shown), m), Len(stamp)) = stamp
    BY <1>3, <1>9, <2>2, CutTwice
  <2>. QED BY <1>1, <2>1, <2>3
<1> HIDE DEF text
<1>14. text = stamp \o <<":", Blank>> \o shown
  BY DEF text, header, tail
<1>. QED BY <1>1, <1>12, <1>13, <1>14, Zenon DEF m, shown

\* A log line of a negative time: it begins with the zeros before the first digit, and
\* the message is copied behind these.
LEMMA TimelessLine ==
    ASSUME NEW w \in Words, NEW message \in Messages,
           Signed(w) < 0, Len(message) <= LongMessage
    PROVE  \E n \in 0..(LongDigits - 1) : LogLine(w, message) = Cut(Zeros(n) \o message, LogSize - 1)
<1> DEFINE v == -Signed(w)
           stamp == LongToHex(Signed(w), LongDigits)
           tail == <<":", Blank>>
           header == stamp \o tail
           copied == Append(message, Nul)
           m == LogSize - 1
<1>1. v \in Nat /\ v # 0 /\ Signed(w) = -v /\ Rest(v, 16)[LongDigits] = 0
      /\ LongDigits \in 1..NumberSize
  BY SignedIs, WordEnds, FormatSizes
<1> HIDE DEF v
<1>2. IsText(stamp) /\ Len(stamp) = LongDigits
  BY <1>1, NegativeEnds
<1>3. PICK z \in 0..(LongDigits - 1) : EndsAt(stamp, z) /\ \A k \in 1..z : stamp[k] = "0"
  BY <1>1, NegativeEnds
<1>4. PICK T : stamp \in Seq(T) /\ tail \in Seq(T)
  <2>1. PICK T0 : stamp \in Seq(T0)
    BY <1>2, Zenon DEF IsText
  <2> HIDE DEF stamp
  <2>2. stamp \in Seq(T0 \cup {":", Blank}) /\ tail \in Seq(T0 \cup {":", Blank})
    BY <2>1
  <2> HIDE DEF tail
  <2>. QED BY <2>2, Zenon
<1> HIDE DEF stamp, tail
<1>5. header \in Seq(T) /\ EndsAt(header, z) /\ \A k \in 1..z : header[k] = "0"
  <2>1. z # Len(stamp)
    BY <1>1, <1>2, <1>3, FormatSizes
  <2>2. header \in Seq(T) /\ EndsAt(header, z)
    BY <1>3, <1>4, <2>1, EndKept
  <2>3. \A k \in 1..Len(stamp) : header[k] = stamp[k]
    BY <1>4, Beginning
  <2>4. \A k \in 1..z : k \in 1..Len(stamp)
    BY <1>1, <1>2, FormatSizes
  <2> HIDE DEF header
  <2>. QED BY <1>3, <2>2, <2>3, <2>4
<1> DEFINE kept == CString(header)
           behind == SubSeq(header, Len(kept) + Len(copied) + 1, Len(header))
<1>6. LogLine(w, message) = CString(Cut(kept \o copied \o behind, m))
  <2>1. LogLine(w, message) =
            LET cop == IF Len(message) > LongMessage THEN Cut(message, 1) ELSE Append(message, Nul)
                beh == SubSeq(header, Len(kept) + Len(cop) + 1, Len(header))
            IN  CString(Cut(kept \o cop \o beh, LogSize - 1))
    BY Zenon DEF LogLine, stamp, tail
  <2>2. message \in Seq(Printable)
    BY StringsAssumption, TerminalAssumption DEF Printable
  <2>3. ~(Len(message) > LongMessage)
    BY <2>2, FormatSizes
  <2> HIDE DEF kept, header
  <2>. QED BY <2>1, <2>3, Zenon
<1>7. z \in Nat /\ z <= Len(header) /\ Len(header) \in Nat
  <2> HIDE DEF header
  <2>. QED BY <1>1, <1>5, FormatSizes DEF EndsAt
<1> HIDE DEF header
<1>8. kept = Zeros(z)
  <2>1. kept = SubSeq(header, 1, z)
    BY <1>5, CStringIs
  <2>2. SubSeq(header, 1, z) = [k \in 1..z |-> header[k]]
    BY <1>5, <1>7
  <2>. QED BY <1>5, <2>1, <2>2 DEF Zeros
<1> DEFINE P == Printable \cup {"0"}
<1>9. Nul \notin P /\ kept \in Seq(P) /\ message \in Seq(P) /\ Len(kept) \in Nat
  <2>1. message \in Seq(Printable)
    BY StringsAssumption, TerminalAssumption DEF Printable
  <2>2. Nul # "0" /\ Nul \notin Printable
    BY NoZeroBytes DEF Bases, DigitsOf, Upper
  <2>3. Zeros(z) \in Seq(P)
    BY <1>7 DEF Zeros
  <2>4. message \in Seq(P)
    BY <2>1
  <2> HIDE DEF P, kept
  <2>5. kept \in Seq(P)
    BY <1>8, <2>3
  <2>. QED BY <2>2, <2>4, <2>5 DEF P
<1> HIDE DEF kept
<1>10. behind \in Seq(T)
  <2>1. Len(copied) \in Nat
    BY <1>9
  <2> HIDE DEF copied
  <2>2. Len(kept) + Len(copied) + 1 >= 1 /\ Len(kept) + Len(copied) + 1 \in Nat
    BY <1>9, <2>1
  <2>. QED BY <1>5, <1>7, <2>2
<1>11. kept \o copied = Append(kept \o message, Nul)
  <2> DEFINE S == P \cup {Nul}
  <2>1. kept \in Seq(S) /\ message \in Seq(S) /\ Nul \in S
    <3> HIDE DEF P
    <3>. QED BY <1>9
  <2> HIDE DEF S
  <2>. QED BY <2>1, AppendJoined
<1>12. kept \o message \in Seq(P)
  <2> HIDE DEF P
  <2>. QED BY <1>9
<1>13. m \in Nat
  BY FormatSizes
<1> HIDE DEF behind, copied, P, m
<1>14. CString(Cut(Append(kept \o message, Nul) \o behind, m)) = Cut(kept \o message, m)
  BY <1>9, <1>10, <1>12, <1>13, EndedText
<1>15. LogLine(w, message) = Cut(Zeros(z) \o message, LogSize - 1)
  BY <1>6, <1>8, <1>11, <1>14 DEF m
<1>. QED BY <1>15

LEMMA LogLinesReadBack == LogReadsBack
<1> SUFFICES ASSUME NEW w \in Words, NEW message \in Messages
             PROVE  LET l     == LogLine(w, message)
                        stamp == Cut(l, LongDigits)
                        shown == IF Len(message) > LongMessage THEN Cut(message, 1) ELSE message
                    IN  IF Signed(w) >= 0
                        THEN /\ Stands(stamp, w, 16, Upper, Number("X", TRUE, LongDigits, w)[1])
                             /\ l = Cut(stamp \o <<":", Blank>> \o shown, LogSize - 1)
                        ELSE \/ Len(message) > LongMessage
                             \/ \E n \in 0..(LongDigits - 1) :
                                    l = Cut(Zeros(n) \o message, LogSize - 1)
  BY Zenon DEF LogReadsBack
<1>1. Len(message) \in Nat
  BY StringsAssumption, TerminalAssumption
<1>2. CASE Signed(w) >= 0
  BY <1>2, TimedLine, Zenon
<1>3. CASE ~(Signed(w) >= 0)
  <2>1. Signed(w) < 0
    BY <1>3, SignedIs
  <2>2. Len(message) <= LongMessage \/ Len(message) > LongMessage
    BY <1>1, FormatSizes
  <2>. QED BY <1>3, <2>1, <2>2, TimelessLine, Zenon
<1>. QED BY <1>2, <1>3, Zenon

-----------------------------------------------------------------------------
(* The rows of a dump. *)

\* Where column k of a row starts, less one: the columns have three cells, the
\* last one before the middle has four.
Start(k) == 3 * (k - 1) + IF k > RowBytes \div 2 THEN 1 ELSE 0

IsColumns(parts) ==
    \A k \in 1..RowBytes : Len(parts[k]) = IF k = RowBytes \div 2 THEN 4 ELSE 3

\* The two digits of each of the first columns are where the column starts.
Placed(row, parts, j) ==
    \A k \in 1..j, i \in 1..2 : row[Start(k) + i] = parts[k][i]

\* Joined columns: how long the row is and where its digits are.
LEMMA ColumnsJoined ==
    ASSUME NEW T, NEW parts \in [1..RowBytes -> Seq(T)], NEW flat \in [0..RowBytes -> Seq(T)],
           IsColumns(parts), Joins(flat, parts, RowBytes)
    PROVE  /\ Len(flat[RowBytes]) = Start(RowBytes + 1)
           /\ Placed(flat[RowBytes], parts, RowBytes)
<1> DEFINE h == RowBytes \div 2
           Holds(j) == Placed(flat[j], parts, j)
           P == {j \in Nat : Len(flat[j]) = Start(j + 1) /\ Holds(j)}
<1>1. RowBytes \in Nat /\ h \in Nat /\ h > 0
  BY FormatSizes
<1>2. \A k \in 1..RowBytes :
          /\ Start(k) \in Nat
          /\ Start(k + 1) = Start(k) + (IF k = h THEN 4 ELSE 3)
  <2> TAKE k \in 1..RowBytes
  <2>1. k \in Nat /\ k >= 1
    BY <1>1
  <2>2. Start(k) = 3 * (k - 1) + IF k > h THEN 1 ELSE 0
    BY DEF Start
  <2>3. Start(k + 1) = 3 * (k + 1 - 1) + IF k + 1 > h THEN 1 ELSE 0
    BY DEF Start
  <2> HIDE DEF h
  <2>4. Start(k) \in Nat
    BY <2>1, <2>2
  <2>5. Start(k + 1) = Start(k) + (IF k = h THEN 4 ELSE 3)
    <3>1. h \in Nat
      BY <1>1
    <3>2. CASE k < h
      BY <2>1, <2>2, <2>3, <3>1, <3>2
    <3>3. CASE k = h
      BY <2>1, <2>2, <2>3, <3>1, <3>3
    <3>4. CASE k > h
      BY <2>1, <2>2, <2>3, <3>1, <3>4
    <3>. QED BY <2>1, <3>1, <3>2, <3>3, <3>4
  <2>. QED BY <2>4, <2>5
<1>9. \A j, k \in 1..RowBytes : k < j => Start(k) + 2 <= Start(j)
  <2> TAKE j, k \in 1..RowBytes
  <2>1. k \in Nat /\ k >= 1 /\ j \in Nat
    BY <1>1
  <2>2. Start(k) = 3 * (k - 1) + IF k > h THEN 1 ELSE 0
    BY DEF Start
  <2>3. Start(j) = 3 * (j - 1) + IF j > h THEN 1 ELSE 0
    BY DEF Start
  <2> HIDE DEF h
  <2>. QED BY <1>1, <2>1, <2>2, <2>3
<1> HIDE DEF h
<1>3. 0 \in P
  <2>1. flat[0] = <<>>
    BY DEF Joins
  <2>2. Start(0 + 1) = 0
    BY <1>1 DEF Start, h
  <2>3. Holds(0)
    BY DEF Placed
  <2>. QED BY <2>1, <2>2, <2>3
<1>4. ASSUME NEW j \in 1..RowBytes, j - 1 \in P PROVE j \in P
  <2> DEFINE before == flat[j - 1]
             part == parts[j]
  <2> USE DEF Placed
  <2>0. j \in Nat /\ j - 1 \in 0..RowBytes /\ j >= 1
    BY <1>1
  <2>1. flat[j] = before \o part
    BY DEF Joins
  <2>2. before \in Seq(T) /\ part \in Seq(T)
    BY <2>0
  <2>3. Len(part) = IF j = h THEN 4 ELSE 3
    BY DEF IsColumns, h
  <2>4. Len(before) = Start(j) /\ Holds(j - 1)
    <3>1. j - 1 + 1 = j
      BY <2>0
    <3>. QED BY <1>4, <3>1
  <2>5. Start(j) \in Nat /\ Start(j + 1) = Start(j) + (IF j = h THEN 4 ELSE 3)
    BY <1>2
  <2> HIDE DEF before, part
  <2>6. Len(flat[j]) = Start(j + 1)
    <3>1. Len(before \o part) = Len(before) + Len(part)
      BY <2>2, Beginning
    <3>. QED BY <2>1, <2>3, <2>4, <2>5, <3>1
  <2>7. ASSUME NEW k \in 1..j, NEW i \in 1..2 PROVE flat[j][Start(k) + i] = parts[k][i]
    <3>1. CASE k = j
      <4> DEFINE c == Start(j) + i
      <4>1. c \in 1..(Start(j) + Len(part)) /\ ~(c <= Start(j)) /\ c - Start(j) = i
        BY <2>3, <2>5
      <4> HIDE DEF c
      <4>2. (before \o part)[c] = part[i]
        BY <2>2, <2>4, <4>1, ConcatProperties
      <4>. QED BY <2>1, <3>1, <4>2 DEF c, part
    <3>2. CASE k # j
      <4> DEFINE c == Start(k) + i
      <4>1. k \in 1..(j - 1)
        BY <2>0, <3>2
      <4>2. c \in 1..Start(j) /\ c <= Start(j)
        <5>1. k \in 1..RowBytes /\ k < j
          BY <1>1, <2>0, <4>1
        <5>2. Start(k) \in Nat /\ Start(k) + 2 <= Start(j)
          BY <1>2, <1>9, <5>1
        <5>. QED BY <2>5, <5>2
      <4>3. before[c] = parts[k][i]
        BY <2>4, <4>1 DEF before
      <4> HIDE DEF c
      <4>4. (before \o part)[c] = before[c]
        <5>1. Len(part) \in Nat
          BY <2>2
        <5>2. c \in 1..(Len(before) + Len(part)) /\ c <= Len(before)
          BY <2>4, <2>5, <4>2, <5>1
        <5>. QED BY <2>2, <5>2, ConcatProperties
      <4>. QED BY <2>1, <4>3, <4>4 DEF c
    <3>. QED BY <3>1, <3>2
  <2>. QED BY <2>0, <2>6, <2>7
<1>5. \A j \in 0..RowBytes : j \in P
  <2> HIDE DEF P
  <2>. QED BY <1>1, <1>3, <1>4, RangeInduction
<1>6. RowBytes \in P
  <2> HIDE DEF P
  <2>. QED BY <1>1, <1>5
<1>. QED BY <1>6

\* The two digits of a byte.
LEMMA ByteDigits ==
    ASSUME NEW b \in 0..255, NEW w
    PROVE  /\ Stands(LongToHex(b, 2), b, 16, Upper, Number("X", TRUE, 2, w)[1])
           /\ LongToHex(b, 2) \in Seq(DigitsOf(16, Upper))
           /\ Len(LongToHex(b, 2)) = 2
<1>1. 16 \in Bases /\ 2 \in 1..NumberSize /\ 1 \in 1..NumberSize /\ b \in Nat
  BY FormatSizes DEF Bases
<1>2. Rest(b, 16)[0] = b
  BY <1>1, Rests
<1>3. Rest(b, 16)[1] = b \div 16
  <2>1. Rest(b, 16)[1] = Rest(b, 16)[1 - 1] \div 16
    BY <1>1, Rests
  <2>. QED BY <1>2, <2>1
<1>4. Rest(b, 16)[2] = 0
  <2>1. Rest(b, 16)[2] = Rest(b, 16)[2 - 1] \div 16
    BY <1>1, Rests
  <2>2. (b \div 16) \div 16 = 0
    OBVIOUS
  <2>. QED BY <1>3, <2>1, <2>2
<1>. QED BY <1>1, <1>4, LongToHexStands

\* The column of a byte, and a row as it is put together.
ByteColumn(bytes, k) ==
    LongToHex(bytes[k], 2) \o IF k = RowBytes \div 2 THEN <<Blank, Blank>> ELSE <<Blank>>

LEMMA ColumnIs ==
    ASSUME NEW bytes \in [1..RowBytes -> 0..255], NEW k \in 1..RowBytes
    PROVE  LET T == DigitsOf(16, Upper) \cup {Blank}
           IN  /\ ByteColumn(bytes, k) \in Seq(T)
               /\ Len(ByteColumn(bytes, k)) = IF k = RowBytes \div 2 THEN 4 ELSE 3
               /\ \A i \in 1..2 : ByteColumn(bytes, k)[i] = LongToHex(bytes[k], 2)[i]
<1> DEFINE T == DigitsOf(16, Upper) \cup {Blank}
           d == LongToHex(bytes[k], 2)
           gap == IF k = RowBytes \div 2 THEN <<Blank, Blank>> ELSE <<Blank>>
<1>1. d \in Seq(DigitsOf(16, Upper)) /\ Len(d) = 2
  <2>1. bytes[k] \in 0..255
    OBVIOUS
  <2>. QED BY <2>1, ByteDigits
<1> HIDE DEF d
<1>2. d \in Seq(T)
  BY <1>1
<1>3. gap \in Seq(T) /\ Len(gap) = IF k = RowBytes \div 2 THEN 2 ELSE 1
  <2>1. CASE k = RowBytes \div 2
    <3>1. gap = <<Blank, Blank>>
      BY <2>1
    <3> HIDE DEF gap
    <3>2. gap \in Seq(T) /\ Len(gap) = 2
      BY <3>1
    <3>. QED BY <2>1, <3>2
  <2>2. CASE k # RowBytes \div 2
    <3>1. gap = <<Blank>>
      BY <2>2
    <3> HIDE DEF gap
    <3>2. gap \in Seq(T) /\ Len(gap) = 1
      BY <3>1
    <3>. QED BY <2>2, <3>2
  <2>. QED BY <2>1, <2>2
<1> HIDE DEF T, gap
<1>4. d \o gap \in Seq(T) /\ Len(d \o gap) = 2 + Len(gap) /\ \A i \in 1..2 : (d \o gap)[i] = d[i]
  <2>1. d \o gap \in Seq(T) /\ Len(d \o gap) = Len(d) + Len(gap)
        /\ \A i \in 1..Len(d) : (d \o gap)[i] = d[i]
    BY <1>2, <1>3, Beginning
  <2>. QED BY <1>1, <2>1
<1>5. ByteColumn(bytes, k) = d \o gap
  BY DEF ByteColumn, d, gap
<1>6. Len(d \o gap) = IF k = RowBytes \div 2 THEN 4 ELSE 3
  BY <1>3, <1>4
<1>. QED BY <1>4, <1>5, <1>6 DEF d, T

\* A row reads back as the address and the bytes it is made of.
SomeBytes(w) == [k \in 1..RowBytes |-> (w + 37 * (k - 1)) % 256]

RowReadsBack(w) ==
    LET bytes  == SomeBytes(w)
        row    == DumpRow(w, bytes)
        at(k)  == LongDigits + 3 * k + (IF 2 * k > RowBytes THEN 1 ELSE 0)
        two(b) == Number("X", TRUE, 2, b)[1]
    IN  /\ Stands(Cut(row, LongDigits), w, 16, Upper, Number("X", TRUE, LongDigits, w)[1])
        /\ \A k \in 1..RowBytes :
              Stands(SubSeq(row, at(k), at(k) + 1), bytes[k], 16, Upper, two(bytes[k]))

\* A dump of an address that is not negative.
LEMMA AddressedRow ==
    ASSUME NEW w \in Words, Signed(w) >= 0
    PROVE  RowReadsBack(w)
<1> DEFINE bytes == [k \in 1..RowBytes |-> (w + 37 * (k - 1)) % 256]
           row == DumpRow(w, bytes)
           at(k) == LongDigits + 3 * k + (IF 2 * k > RowBytes THEN 1 ELSE 0)
           stamp == LongToHex(w, LongDigits)
           header == stamp \o <<":", Blank>>
           parts == [k \in 1..RowBytes |-> ByteColumn(bytes, k)]
           columns == FlattenSeq(parts)
           bar == <<Blank, Blank, "|">>
           glyphs == [k \in 1..RowBytes |-> Glyph(bytes[k])]
           end1 == <<"|">>
           G == {Glyphs[b] : b \in 32..127}
           T == DigitsOf(16, Upper) \cup {":", Blank, "|", "."} \cup G
           text == header \o columns
           all == text \o bar \o glyphs \o end1
<1>0. w \in Nat /\ Signed(w) = w
  BY SignedIs
<1>1. bytes \in [1..RowBytes -> 0..255]
  <2>1. ASSUME NEW k \in 1..RowBytes PROVE (w + 37 * (k - 1)) % 256 \in 0..255
    <3>1. w + 37 * (k - 1) \in Int
      BY <1>0, FormatSizes
    <3>. QED BY <3>1
  <2>. QED BY <2>1
<1>2. row = CString(all)
  <2>1. row = CString(LongToHex(Signed(w), LongDigits) \o <<":", Blank>>
                    \o FlattenSeq([k \in 1..RowBytes |-> ByteColumn(bytes, k)])
                    \o <<Blank, Blank, "|">>
                    \o [k \in 1..RowBytes |-> Glyph(bytes[k])] \o <<"|">>)
    <3> HIDE DEF bytes
    <3>. QED BY Zenon DEF DumpRow, ByteColumn
  <2> HIDE DEF row, bytes
  <2>. QED BY <1>0, <2>1
<1>3. /\ Stands(stamp, w, 16, Upper, Number("X", TRUE, LongDigits, w)[1])
      /\ stamp \in Seq(DigitsOf(16, Upper))
      /\ Len(stamp) = LongDigits
  <2>1. LongDigits \in 1..NumberSize
    BY FormatSizes
  <2>. QED BY <1>0, <2>1, WordEnds, LongToHexStands
<1> HIDE DEF bytes, stamp, G, row
<1>4. Nul \notin T
  BY NoZeroBytes DEF Bases, G
<1>5. header \in Seq(T) /\ Len(header) = LongDigits + 2
      /\ \A k \in 1..LongDigits : header[k] = stamp[k]
  <2>1. stamp \in Seq(T) /\ <<":", Blank>> \in Seq(T)
    BY <1>3
  <2> HIDE DEF T
  <2>2. Len(<<":", Blank>>) = 2
    OBVIOUS
  <2>. QED BY <1>3, <2>1, <2>2, Beginning
<1>6. /\ parts \in [1..RowBytes -> Seq(T)]
      /\ IsColumns(parts)
      /\ \A k \in 1..RowBytes, i \in 1..2 : parts[k][i] = LongToHex(bytes[k], 2)[i]
  <2>1. ASSUME NEW k \in 1..RowBytes
        PROVE  /\ ByteColumn(bytes, k) \in Seq(T)
               /\ Len(ByteColumn(bytes, k)) = IF k = RowBytes \div 2 THEN 4 ELSE 3
               /\ \A i \in 1..2 : ByteColumn(bytes, k)[i] = LongToHex(bytes[k], 2)[i]
    <3>1. ByteColumn(bytes, k) \in Seq(DigitsOf(16, Upper) \cup {Blank})
      BY <1>1, ColumnIs
    <3>2. Len(ByteColumn(bytes, k)) = IF k = RowBytes \div 2 THEN 4 ELSE 3
      BY <1>1, ColumnIs
    <3>3. \A i \in 1..2 : ByteColumn(bytes, k)[i] = LongToHex(bytes[k], 2)[i]
      BY <1>1, ColumnIs
    <3>4. DigitsOf(16, Upper) \cup {Blank} \subseteq T
      OBVIOUS
    <3> HIDE DEF T
    <3>5. ByteColumn(bytes, k) \in Seq(T)
      BY <3>1, <3>4, SeqMonotonic
    <3>. QED BY <3>2, <3>3, <3>5
  <2> HIDE DEF T
  <2>. QED BY <2>1 DEF IsColumns
<1> HIDE DEF T, header, parts
<1>7. columns \in Seq(T) /\ Len(columns) = Start(RowBytes + 1)
      /\ \A k \in 1..RowBytes, i \in 1..2 : columns[Start(k) + i] = LongToHex(bytes[k], 2)[i]
  <2>1. RowBytes \in Nat
    BY FormatSizes
  <2>2. PICK flat \in [0..RowBytes -> Seq(T)] :
            Joins(flat, parts, RowBytes) /\ columns = flat[RowBytes]
    BY <1>6, <2>1, FlattenSteps
  <2> HIDE DEF columns
  <2>3. /\ Len(flat[RowBytes]) = Start(RowBytes + 1)
        /\ \A k \in 1..RowBytes, i \in 1..2 : flat[RowBytes][Start(k) + i] = parts[k][i]
    <3>1. /\ parts \in [1..RowBytes -> Seq(T)] /\ IsColumns(parts)
          /\ flat \in [0..RowBytes -> Seq(T)] /\ Joins(flat, parts, RowBytes)
      BY <1>6, <2>2
    <3>2. Len(flat[RowBytes]) = Start(RowBytes + 1)
      BY <3>1, ColumnsJoined
    <3>3. Placed(flat[RowBytes], parts, RowBytes)
      BY <3>1, ColumnsJoined
    <3>. QED BY <3>2, <3>3 DEF Placed
  <2>4. columns \in Seq(T)
    <3>1. RowBytes \in 0..RowBytes
      BY <2>1
    <3>. QED BY <2>2, <3>1
  <2>5. \A k \in 1..RowBytes, i \in 1..2 : columns[Start(k) + i] = LongToHex(bytes[k], 2)[i]
    <3>1. \A k \in 1..RowBytes, i \in 1..2 : columns[Start(k) + i] = parts[k][i]
      BY <2>2, <2>3
    <3>2. \A k \in 1..RowBytes, i \in 1..2 : parts[k][i] = LongToHex(bytes[k], 2)[i]
      BY <1>6
    <3>. QED BY <3>1, <3>2, Zenon
  <2>. QED BY <2>2, <2>3, <2>4, <2>5
<1> HIDE DEF columns
<1>8. bar \in Seq(T) /\ glyphs \in Seq(T) /\ end1 \in Seq(T)
  <2>1. ASSUME NEW k \in 1..RowBytes PROVE Glyph(bytes[k]) \in T
    BY DEF Glyph, T, G
  <2>2. RowBytes \in Nat
    BY FormatSizes
  <2>3. bar \in Seq(T) /\ end1 \in Seq(T)
    BY DEF T
  <2>. QED BY <2>1, <2>2, <2>3
<1> HIDE DEF bar, glyphs, end1
<1>9. /\ text \in Seq(T)
      /\ Len(text) = Len(header) + Len(columns)
      /\ \A k \in 1..Len(header) : text[k] = header[k]
      /\ \A k \in 1..Len(columns) : text[Len(header) + k] = columns[k]
  <2>1. header \in Seq(T) /\ columns \in Seq(T)
    BY <1>5, <1>7
  <2>2. text = header \o columns
    OBVIOUS
  <2> HIDE DEF text
  <2>. QED BY <2>1, <2>2, Beginning
<1> HIDE DEF text
<1>10. all \in Seq(T) /\ Len(all) >= Len(text) /\ \A k \in 1..Len(text) : all[k] = text[k]
  <2> DEFINE a == text \o bar
             b == a \o glyphs
  <2>1. a \in Seq(T) /\ Len(a) >= Len(text) /\ \A k \in 1..Len(text) : a[k] = text[k]
    BY <1>8, <1>9, Beginning
  <2> HIDE DEF a
  <2>2. b \in Seq(T) /\ Len(b) >= Len(a) /\ \A k \in 1..Len(a) : b[k] = a[k]
    BY <1>8, <2>1, Beginning
  <2> HIDE DEF b
  <2>3. b \o end1 \in Seq(T) /\ Len(b \o end1) >= Len(b)
        /\ \A k \in 1..Len(b) : (b \o end1)[k] = b[k]
    BY <1>8, <2>2, Beginning
  <2>4. all = b \o end1
    BY DEF a, b
  <2> HIDE DEF all
  <2>5. Len(text) \in Nat /\ Len(a) \in Nat /\ Len(b) \in Nat /\ Len(all) \in Nat
    BY <1>9, <2>1, <2>2, <2>3, <2>4
  <2>. QED BY <2>1, <2>2, <2>3, <2>4, <2>5
<1> HIDE DEF all
<1>11. row = all
  <2>1. EndsAt(all, Len(all))
    <3>1. Len(all) \in 0..Len(all) /\ \A k \in 1..Len(all) : all[k] # Nul
      BY <1>4, <1>10
    <3>. QED BY <3>1 DEF EndsAt
  <2>2. CString(all) = SubSeq(all, 1, Len(all))
    BY <1>10, <2>1, CStringIs
  <2>3. SubSeq(all, 1, Len(all)) = all
    BY <1>10
  <2>. QED BY <1>2, <2>2, <2>3
<1>12. Len(header) \in Nat /\ Len(columns) \in Nat /\ LongDigits \in Nat /\ RowBytes \in Nat
  BY <1>5, <1>7, FormatSizes
<1>13. Cut(row, LongDigits) = stamp
  <2>1. Len(all) >= LongDigits /\ Len(all) \in Nat
    BY <1>5, <1>9, <1>10, <1>12
  <2>2. /\ Cut(all, LongDigits) \in Seq(T)
        /\ Len(Cut(all, LongDigits)) = LongDigits
        /\ \A k \in 1..LongDigits : Cut(all, LongDigits)[k] = all[k]
    <3> DEFINE n == IF Len(all) < LongDigits THEN Len(all) ELSE LongDigits
    <3>1. n = LongDigits
      BY <1>12, <2>1
    <3>2. /\ Cut(all, LongDigits) \in Seq(T)
          /\ Len(Cut(all, LongDigits)) = n
          /\ \A k \in 1..n : Cut(all, LongDigits)[k] = all[k]
      BY <1>10, <1>12, CutIs
    <3> HIDE DEF n
    <3>. QED BY <3>1, <3>2
  <2>3. \A k \in 1..LongDigits : all[k] = stamp[k]
    <3> TAKE k \in 1..LongDigits
    <3>1. k \in 1..Len(header) /\ k \in 1..Len(text)
      BY <1>5, <1>9, <1>12
    <3>. QED BY <1>5, <1>9, <1>10, <3>1
  <2>4. stamp \in Seq(T)
    BY <1>3 DEF T
  <2>. QED BY <1>3, <1>11, <2>2, <2>3, <2>4, SeqEqual
<1>14. ASSUME NEW k \in 1..RowBytes
       PROVE  SubSeq(row, at(k), at(k) + 1) = LongToHex(bytes[k], 2)
  <2> DEFINE s == Start(k)
             t == LongToHex(bytes[k], 2)
  <2>1. k \in Nat /\ k >= 1 /\ k <= RowBytes
    BY <1>12
  <2>2. s \in Nat /\ at(k) = LongDigits + 2 + s + 1
    <3>1. s = 3 * (k - 1) + IF k > RowBytes \div 2 THEN 1 ELSE 0
      BY DEF Start
    <3>2. 2 * k > RowBytes <=> k > RowBytes \div 2
      BY <1>12, <2>1, FormatSizes
    <3> HIDE DEF s
    <3>. QED BY <1>12, <2>1, <3>1, <3>2
  <2>3. s + 2 <= Len(columns)
    <3>1. s = 3 * (k - 1) + IF k > RowBytes \div 2 THEN 1 ELSE 0
      BY DEF Start
    <3>2. \A j : Start(j) = 3 * (j - 1) + IF j > RowBytes \div 2 THEN 1 ELSE 0
      BY DEF Start
    <3> HIDE DEF s
    <3>3. RowBytes + 1 > RowBytes \div 2
      BY <1>12
    <3>. QED BY <1>7, <1>12, <2>1, <3>1, <3>2, <3>3
  <2> HIDE DEF s, at
  <2>4. t \in Seq(DigitsOf(16, Upper)) /\ Len(t) = 2
    BY <1>1, ByteDigits
  <2> HIDE DEF t
  <2>5. ASSUME NEW i \in 1..2 PROVE all[LongDigits + 2 + (s + i)] = t[i]
    <3> DEFINE c == s + i
               e == Len(header) + c
    <3>1. c \in 1..Len(columns)
      BY <1>12, <2>2, <2>3
    <3>2. columns[c] = t[i]
      BY <1>7 DEF s, t
    <3> HIDE DEF c
    <3>3. e \in 1..Len(text)
      BY <1>9, <1>12, <3>1
    <3>4. text[e] = t[i]
      <4>1. \A j \in 1..Len(columns) : text[Len(header) + j] = columns[j]
        BY <1>9, Zenon
      <4>. QED BY <3>1, <3>2, <4>1
    <3> HIDE DEF e
    <3>5. all[e] = t[i]
      BY <1>10, <3>3, <3>4
    <3>. QED BY <1>5, <3>5 DEF c, e
  <2> DEFINE p == at(k)
  <2>6. p \in Nat /\ p >= 1 /\ p + 1 <= Len(all)
    BY <1>5, <1>9, <1>10, <1>12, <2>2, <2>3
  <2>7. all[p] = t[1] /\ all[p + 1] = t[2]
    <3>1. LongDigits + 2 + (s + 1) = p /\ LongDigits + 2 + (s + 2) = p + 1
      BY <1>12, <2>2
    <3>. QED BY <2>5, <3>1
  <2> HIDE DEF p
  <2>8. SubSeq(all, p, p + 1) = t
    <3> DEFINE q == SubSeq(all, p, p + 1)
    <3>1. q \in Seq(T) /\ Len(q) = 2 /\ q[1] = all[p] /\ q[2] = all[p + 1]
      BY <1>10, <2>6
    <3>2. t \in Seq(T)
      BY <2>4 DEF T
    <3>3. \A i \in 1..2 : q[i] = t[i]
      <4> HIDE DEF q
      <4>. QED BY <2>7, <3>1
    <3> HIDE DEF q
    <3>4. q = t
      BY <2>4, <3>1, <3>2, <3>3, SeqEqual
    <3>. QED BY <3>4 DEF q
  <2>. QED BY <1>11, <2>8 DEF p, t
<1>15. ASSUME NEW k \in 1..RowBytes
       PROVE  Stands(LongToHex(bytes[k], 2), bytes[k], 16, Upper, Number("X", TRUE, 2, bytes[k])[1])
  BY <1>1, ByteDigits
<1> HIDE DEF at
<1>16. \A k \in 1..RowBytes :
          Stands(SubSeq(row, at(k), at(k) + 1), bytes[k], 16, Upper,
                 Number("X", TRUE, 2, bytes[k])[1])
  BY <1>14, <1>15
<1>. QED BY <1>3, <1>13, <1>16, Zenon DEF at, bytes, row, RowReadsBack, SomeBytes

\* The row of a negative address ends before its bytes.
LEMMA UnaddressedRow ==
    ASSUME NEW w \in Words, Signed(w) < 0, NEW bytes \in [1..RowBytes -> 0..255]
    PROVE  \E n \in 0..(LongDigits - 1) : DumpRow(w, bytes) = Zeros(n)
<1> DEFINE v == -Signed(w)
           stamp == LongToHex(Signed(w), LongDigits)
           colon == <<":", Blank>>
           parts == [k \in 1..RowBytes |-> ByteColumn(bytes, k)]
           columns == FlattenSeq(parts)
           bar == <<Blank, Blank, "|">>
           glyphs == [k \in 1..RowBytes |-> Glyph(bytes[k])]
           end1 == <<"|">>
           all == stamp \o colon \o columns \o bar \o glyphs \o end1
<1>1. v \in Nat /\ v # 0 /\ Signed(w) = -v /\ Rest(v, 16)[LongDigits] = 0
      /\ LongDigits \in 1..NumberSize
  BY SignedIs, WordEnds, FormatSizes
<1> HIDE DEF v
<1>2. IsText(stamp) /\ Len(stamp) = LongDigits
  BY <1>1, NegativeEnds
<1>3. PICK z \in 0..(LongDigits - 1) : EndsAt(stamp, z) /\ \A k \in 1..z : stamp[k] = "0"
  BY <1>1, NegativeEnds
<1>4. PICK T0 : stamp \in Seq(T0)
  BY <1>2, Zenon DEF IsText
<1> DEFINE T == T0 \cup DigitsOf(16, Upper) \cup {":", Blank, "|", "."} \cup {Glyph(b) : b \in 0..255}
<1>5. stamp \in Seq(T) /\ colon \in Seq(T) /\ bar \in Seq(T) /\ end1 \in Seq(T)
  <2> HIDE DEF stamp
  <2>. QED BY <1>4
<1>6. glyphs \in Seq(T)
  <2>1. glyphs \in [1..RowBytes -> T]
    OBVIOUS
  <2> HIDE DEF T, glyphs
  <2>. QED BY <2>1, FormatSizes
<1>7. columns \in Seq(T)
  <2>1. ASSUME NEW k \in 1..RowBytes PROVE ByteColumn(bytes, k) \in Seq(T)
    <3> DEFINE D == DigitsOf(16, Upper) \cup {Blank}
    <3>1. ByteColumn(bytes, k) \in Seq(D)
      BY ColumnIs
    <3>2. D \subseteq T
      OBVIOUS
    <3> HIDE DEF D, T
    <3>. QED BY <3>1, <3>2
  <2> HIDE DEF T
  <2>2. parts \in [1..RowBytes -> Seq(T)] /\ RowBytes \in Nat
    BY <2>1, FormatSizes
  <2> HIDE DEF parts
  <2>3. PICK flat \in [0..RowBytes -> Seq(T)] : FlattenSeq(parts) = flat[RowBytes]
    BY <2>2, FlattenSteps
  <2>. QED BY <2>2, <2>3
<1> HIDE DEF T, columns, glyphs, bar, colon, end1
<1>8. EndsAt(stamp, z) /\ z # Len(stamp)
  <2> HIDE DEF stamp
  <2>. QED BY <1>1, <1>2, <1>3, FormatSizes
<1> DEFINE Begins(s) == /\ s \in Seq(T) /\ EndsAt(s, z) /\ z # Len(s)
                        /\ \A k \in 1..z : s[k] = "0"
<1>9. Begins(stamp)
  BY <1>3, <1>5, <1>8
<1> HIDE DEF stamp
<1>10. ASSUME NEW s, NEW t \in Seq(T), Begins(s) PROVE Begins(s \o t)
  <2> DEFINE u == s \o t
  <2>0. s \in Seq(T) /\ EndsAt(s, z) /\ z # Len(s) /\ \A k \in 1..z : s[k] = "0"
    BY <1>10 DEF Begins
  <2>1. u \in Seq(T) /\ EndsAt(u, z) /\ z # Len(u)
    BY <2>0, EndKept
  <2>2. \A k \in 1..Len(s) : u[k] = s[k]
    BY <2>0, Beginning
  <2> HIDE DEF u
  <2>3. \A k \in 1..z : k \in 1..Len(s)
    BY <2>0 DEF EndsAt
  <2>4. \A k \in 1..z : u[k] = "0"
    BY <2>0, <2>2, <2>3
  <2>. QED BY <2>1, <2>4 DEF Begins, u
<1> HIDE DEF Begins
<1>11. Begins(all)
  BY <1>5, <1>6, <1>7, <1>9, <1>10
<1> HIDE DEF all
<1>12. CString(all) = Zeros(z)
  <2>1. /\ all \in Seq(T) /\ EndsAt(all, z) /\ \A k \in 1..z : all[k] = "0"
    BY <1>11 DEF Begins
  <2>2. CString(all) = SubSeq(all, 1, z)
    BY <2>1, CStringIs
  <2>3. z \in Nat /\ z <= Len(all)
    BY <1>1, <2>1, FormatSizes DEF EndsAt
  <2>4. SubSeq(all, 1, z) = [k \in 1..z |-> all[k]]
    BY <2>1, <2>3
  <2>. QED BY <2>1, <2>2, <2>4 DEF Zeros
<1>13. DumpRow(w, bytes) = CString(all)
  BY Zenon DEF DumpRow, ByteColumn, all, stamp, colon, columns, bar, glyphs, end1
<1>. QED BY <1>12, <1>13

LEMMA DumpsReadBack == DumpReadsBack
<1> SUFFICES ASSUME NEW w \in Words
             PROVE  IF Signed(w) >= 0 THEN RowReadsBack(w)
                    ELSE \E n \in 0..(LongDigits - 1) : DumpRow(w, SomeBytes(w)) = Zeros(n)
  BY Zenon DEF DumpReadsBack, RowReadsBack, SomeBytes
<1>1. CASE Signed(w) >= 0
  BY <1>1, AddressedRow, Zenon
<1>2. CASE ~(Signed(w) >= 0)
  <2>1. SomeBytes(w) \in [1..RowBytes -> 0..255]
    <3>1. ASSUME NEW k \in 1..RowBytes PROVE (w + 37 * (k - 1)) % 256 \in 0..255
      <4>1. w + 37 * (k - 1) \in Int
        BY SignedIs, FormatSizes
      <4>. QED BY <4>1
    <3>. QED BY <3>1 DEF SomeBytes
  <2>2. Signed(w) < 0
    BY <1>2, SignedIs
  <2>. QED BY <1>2, <2>1, <2>2, UnaddressedRow, Zenon
<1>. QED BY <1>1, <1>2, Zenon

-----------------------------------------------------------------------------
(* One format after the other. *)

\* The string in two texts one after the other: that of the first, if a zero byte
\* ends it, or else all of the first and the string in the second.
LEMMA JoinedEnds ==
    ASSUME NEW T, NEW s \in Seq(T), NEW t \in Seq(T), NEW n, NEW p, EndsAt(s, n), EndsAt(t, p)
    PROVE  EndsAt(s \o t, IF n = Len(s) THEN Len(s) + p ELSE n)
<1> DEFINE u == s \o t
           l == Len(s)
<1>1. /\ u \in Seq(T) /\ Len(u) = l + Len(t) /\ l \in Nat /\ Len(t) \in Nat
      /\ \A k \in 1..l : u[k] = s[k]
      /\ \A k \in 1..Len(t) : u[l + k] = t[k]
  BY Beginning
<1>2. n \in Nat /\ n <= l /\ p \in Nat /\ p <= Len(t)
  BY DEF EndsAt
<1> HIDE DEF u, l
<1>3. \A k \in 1..n : s[k] # Nul
  BY DEF EndsAt
<1>4. CASE n = l
  <2>1. l + p \in 0..Len(u)
    BY <1>1, <1>2
  <2>2. ASSUME NEW k \in 1..(l + p) PROVE u[k] # Nul
    <3>1. CASE k <= l
      <4>1. k \in 1..l
        BY <1>1, <1>2, <3>1
      <4>. QED BY <1>1, <1>3, <1>4, <4>1
    <3>2. CASE k > l
      <4> DEFINE j == k - l
      <4>1. j \in 1..p /\ j \in 1..Len(t) /\ l + j = k
        BY <1>1, <1>2, <3>2
      <4>2. t[j] # Nul
        BY <4>1 DEF EndsAt
      <4> HIDE DEF j
      <4>3. u[l + j] = t[j]
        BY <1>1, <4>1
      <4>. QED BY <4>1, <4>2, <4>3
    <3>. QED BY <1>1, <1>2, <3>1, <3>2
  <2>3. l + p = Len(u) \/ u[l + p + 1] = Nul
    <3>1. CASE p = Len(t)
      BY <1>1, <3>1
    <3>2. CASE p # Len(t)
      <4> DEFINE j == p + 1
      <4>1. j \in 1..Len(t) /\ l + j = l + p + 1
        BY <1>1, <1>2, <3>2
      <4>2. t[j] = Nul
        BY <3>2 DEF EndsAt
      <4> HIDE DEF j
      <4>3. u[l + j] = t[j]
        BY <1>1, <4>1
      <4>. QED BY <4>1, <4>2, <4>3
    <3>. QED BY <3>1, <3>2
  <2>4. EndsAt(u, l + p)
    BY <2>1, <2>2, <2>3 DEF EndsAt
  <2>. QED BY <1>4, <2>4 DEF u, l
<1>5. CASE n # l
  <2>1. n \in 0..Len(u)
    BY <1>1, <1>2
  <2>2. ASSUME NEW k \in 1..n PROVE u[k] # Nul
    <3>1. k \in 1..l
      BY <1>1, <1>2
    <3>. QED BY <1>1, <1>3, <3>1
  <2>3. u[n + 1] = Nul
    <3>1. n + 1 \in 1..l
      BY <1>1, <1>2, <1>5
    <3>2. s[n + 1] = Nul
      BY <1>5 DEF EndsAt, l
    <3>. QED BY <1>1, <3>1, <3>2
  <2>4. EndsAt(u, n)
    BY <2>1, <2>2, <2>3 DEF EndsAt
  <2>. QED BY <1>5, <2>4 DEF u, l
<1>. QED BY <1>4, <1>5

\* Two texts printed as one: each as it is printed alone, cut once more.
LEMMA JoinedCut ==
    ASSUME NEW T, NEW s \in Seq(T), NEW t \in Seq(T), NEW m \in Nat, NEW n, EndsAt(s, n)
    PROVE  LET printed(u) == CString(Cut(u, m))
           IN  /\ Len(printed(s \o t)) <= m
               /\ n # Len(s) => printed(s \o t) = printed(s)
               /\ n = Len(s) => printed(s \o t) = Cut(printed(s) \o printed(t), m)
<1> DEFINE u == s \o t
           l == Len(s)
           a == CString(Cut(s, m))
           b == CString(Cut(t, m))
           c == CString(Cut(u, m))
           d == a \o b
           e == Cut(d, m)
<1>1. PICK p : EndsAt(t, p)
  BY EndExists
<1>2. /\ n \in Nat /\ n <= l /\ l \in Nat /\ p \in Nat /\ p <= Len(t) /\ Len(t) \in Nat
  BY <1>1 DEF EndsAt
<1>3. /\ u \in Seq(T)
      /\ \A k \in 1..l : u[k] = s[k]
      /\ \A k \in 1..Len(t) : u[l + k] = t[k]
  BY Beginning
<1>4. EndsAt(u, IF n = l THEN l + p ELSE n)
  BY <1>1, JoinedEnds
<1> HIDE DEF u, l
<1>5. /\ a = SubSeq(s, 1, Least(n, m))
      /\ a \in Seq(T)
      /\ Len(a) = Least(n, m)
      /\ \A k \in 1..Least(n, m) : a[k] = s[k]
  <2>1. a = SubSeq(s, 1, Least(n, m))
    BY CStringOfCut
  <2>2. a \in Seq(T)
    BY CStringOfCut
  <2>3. Len(a) = Least(n, m)
    BY CStringOfCut
  <2>4. \A k \in 1..Least(n, m) : a[k] = s[k]
    BY CStringOfCut
  <2>. QED BY <2>1, <2>2, <2>3, <2>4
<1>6. /\ b \in Seq(T)
      /\ Len(b) = Least(p, m)
      /\ \A k \in 1..Least(p, m) : b[k] = t[k]
  <2>1. b \in Seq(T)
    BY <1>1, CStringOfCut
  <2>2. Len(b) = Least(p, m)
    BY <1>1, CStringOfCut
  <2>3. \A k \in 1..Least(p, m) : b[k] = t[k]
    BY <1>1, CStringOfCut
  <2>. QED BY <2>1, <2>2, <2>3
<1>7. ASSUME NEW q \in Nat, EndsAt(u, q)
      PROVE  /\ c \in Seq(T)
             /\ Len(c) = Least(q, m)
             /\ \A k \in 1..Least(q, m) : c[k] = u[k]
  <2>1. u \in Seq(T)
    BY <1>3
  <2>2. c \in Seq(T)
    BY <1>7, <2>1, CStringOfCut
  <2>3. Len(c) = Least(q, m)
    BY <1>7, <2>1, CStringOfCut
  <2>4. \A k \in 1..Least(q, m) : c[k] = u[k]
    BY <1>7, <2>1, CStringOfCut
  <2>. QED BY <2>2, <2>3, <2>4
<1>8. Least(n, m) \in Nat /\ Least(n, m) <= m /\ Least(n, m) <= n
  BY <1>2, LeastIs
<1> HIDE DEF a, b, c
<1>9. ASSUME n # l PROVE c = a /\ Len(c) <= m
  <2>1. EndsAt(u, n)
    BY <1>4, <1>9
  <2>2. /\ c \in Seq(T)
        /\ Len(c) = Least(n, m)
        /\ \A k \in 1..Least(n, m) : c[k] = u[k]
    BY <1>2, <1>7, <2>1
  <2>3. ASSUME NEW k \in 1..Least(n, m) PROVE c[k] = a[k]
    <3>1. k \in 1..l
      BY <1>2, <1>8
    <3>. QED BY <1>3, <1>5, <2>2, <3>1
  <2>4. Len(c) = Len(a) /\ \A k \in 1..Len(c) : c[k] = a[k]
    BY <1>5, <2>2, <2>3
  <2>5. c = a
    BY <1>5, <2>2, <2>4, SeqEqual
  <2>. QED BY <1>8, <2>2, <2>5
<1>10. ASSUME n = l PROVE c = e /\ Len(c) <= m
  <2> DEFINE x == Least(l, m)
             y == Least(p, m)
             z == Least(l + p, m)
  <2>1. EndsAt(u, l + p) /\ l + p \in Nat
    BY <1>2, <1>4, <1>10
  <2>2. /\ c \in Seq(T)
        /\ Len(c) = z
        /\ \A k \in 1..z : c[k] = u[k]
    BY <1>7, <2>1
  <2>3. a \in Seq(T) /\ Len(a) = x /\ \A k \in 1..x : a[k] = s[k]
    BY <1>5, <1>10
  <2>4. b \in Seq(T) /\ Len(b) = y /\ \A k \in 1..y : b[k] = t[k]
    BY <1>6
  <2>5. /\ x \in Nat /\ y \in Nat /\ z \in Nat /\ z = Least(x + y, m) /\ z <= m
        /\ x <= l /\ (x = l \/ x = z) /\ y <= p /\ z <= x + y /\ x <= z
    BY <1>2 DEF Least
  <2> HIDE DEF x, y, z
  <2>6. /\ d \in Seq(T) /\ Len(d) = x + y
        /\ \A k \in 1..Len(a) : d[k] = a[k]
    <3>1. a \in Seq(T) /\ b \in Seq(T)
      BY <2>3, <2>4
    <3>2. d \in Seq(T)
      BY <3>1
    <3>3. Len(d) = Len(a) + Len(b)
      BY <3>1
    <3>4. \A k \in 1..Len(a) : d[k] = a[k]
      BY <3>1, Beginning
    <3>. QED BY <2>3, <2>4, <3>2, <3>3, <3>4
  <2>7. \A k \in 1..Len(b) : d[Len(a) + k] = b[k]
    <3>1. a \in Seq(T) /\ b \in Seq(T)
      BY <2>3, <2>4
    <3>. QED BY <3>1, Beginning
  <2> HIDE DEF d
  <2>8. e \in Seq(T) /\ Len(e) = Least(x + y, m) /\ \A k \in 1..Least(x + y, m) : e[k] = d[k]
    BY <2>6, CutIs DEF Least
  <2> HIDE DEF e
  <2>9. ASSUME NEW k \in 1..z PROVE c[k] = e[k]
    <3>1. c[k] = u[k] /\ e[k] = d[k]
      BY <2>2, <2>5, <2>8
    <3>2. CASE k <= x
      <4>1. k \in 1..x /\ k \in 1..l /\ k \in 1..Len(a)
        BY <1>2, <2>3, <2>5, <3>2
      <4>. QED BY <1>3, <2>3, <2>6, <3>1, <4>1
    <3>3. CASE k > x
      <4> DEFINE j == k - x
      <4>1. x = l
        BY <2>5, <3>3
      <4>2. j \in 1..y /\ j \in 1..Len(t) /\ j \in 1..Len(b) /\ x + j = k
        BY <1>2, <2>4, <2>5, <3>3
      <4> HIDE DEF j
      <4>3. u[l + j] = t[j]
        BY <1>3, <4>2
      <4>4. d[Len(a) + j] = b[j]
        BY <2>7, <4>2
      <4>5. b[j] = t[j]
        BY <2>4, <4>2
      <4>. QED BY <2>3, <3>1, <4>1, <4>2, <4>3, <4>4, <4>5
    <3>. QED BY <2>5, <3>2, <3>3
  <2>10. Len(c) = Len(e) /\ \A k \in 1..Len(c) : c[k] = e[k]
    BY <2>2, <2>5, <2>8, <2>9
  <2>11. c = e
    BY <2>2, <2>8, <2>10, SeqEqual
  <2>. QED BY <2>2, <2>5, <2>11
<1> HIDE DEF e
<1>. QED BY <1>9, <1>10 DEF a, b, c, d, e, u, l

\* What any conversion of a format writes is a text.
LEMMA ConvertedIsText ==
    ASSUME NEW format \in Formats, NEW k \in 1..Len(format)
    PROVE  IsText(Converted(format[k]))
<1> DEFINE item == format[k]
<1>1. /\ item.zero \in BOOLEAN /\ item.width \in Nat
      /\ item.conv = "s" => item.arg \in Seq(Printable)
  <2>1. item \in Range(format)
    <3>1. format \in Seq(Range(format))
      BY FormatsAssumption
    <3>. QED BY <3>1
  <2> HIDE DEF item
  <2>. QED BY <2>1, FormatsAssumption
<1> HIDE DEF item
<1>2. CASE item.conv = "s"
  <2>1. Converted(item) = item.arg
    BY <1>2 DEF Converted
  <2>. QED BY <1>1, <1>2, <2>1 DEF IsText, item
<1>3. CASE item.conv = "d"
  <2>1. Converted(item) = Decimal(item)
    BY <1>3 DEF Converted
  <2>2. IsText(Decimal(item))
    <3> DEFINE v == Signed(item.arg)
    <3>1. CASE v < 0
      <4>1. Decimal(item) = <<"-">> \o Numeral(Negated(v), 10, Lower)
        BY <3>1, Zenon DEF Decimal
      <4> HIDE DEF v
      <4>2. IsText(<<"-">> \o Numeral(Negated(v), 10, Lower))
        <5> DEFINE u == Negated(v)
        <5> HIDE DEF u
        <5>1. IsText(<<"-">> \o Numeral(u, 10, Lower))
          BY SignedIsText
        <5>. QED BY <5>1 DEF u
      <4>. QED BY <4>1, <4>2, Zenon
    <3>2. CASE ~(v < 0)
      <4>1. Decimal(item) = Padded(Numeral(v, 10, Lower), item)
        BY <3>2, Zenon DEF Decimal
      <4> HIDE DEF v
      <4>. QED BY <1>1, <4>1, NumeralIsText
    <3>. QED BY <3>1, <3>2
  <2>. QED BY <2>1, <2>2 DEF item
<1>4. CASE item.conv = "x"
  <2>1. Converted(item) = Padded(Numeral(item.arg, 16, Lower), item)
    BY <1>4 DEF Converted, Hex
  <2>. QED BY <1>1, <2>1, NumeralIsText DEF item
<1>5. CASE item.conv = "X"
  <2>1. Converted(item) = Padded(Numeral(item.arg, 16, Upper), item)
    BY <1>5 DEF Converted, Hex
  <2>. QED BY <1>1, <2>1, NumeralIsText DEF item
<1>6. CASE item.conv \in {"c", "literal"}
  <2>1. Converted(item) = <<item.arg>>
    BY <1>6 DEF Converted
  <2>2. <<item.arg>> \in Seq({item.arg})
    OBVIOUS
  <2>. QED BY <2>1, <2>2, Zenon DEF IsText, item
<1>7. CASE item.conv \notin {"s", "d", "x", "X", "c", "literal"}
  <2>1. Converted(item) = <<"%", item.conv>>
    BY <1>7 DEF Converted
  <2>2. <<"%", item.conv>> \in Seq({"%", item.conv})
    OBVIOUS
  <2>. QED BY <2>1, <2>2, Zenon DEF IsText, item
<1>. QED BY <1>2, <1>3, <1>4, <1>5, <1>6, <1>7

\* The conversions of a format, and its text before it is cut.
Conversions(format) == [k \in 1..Len(format) |-> Converted(format[k])]
Text(format)   == FlattenSeq(Conversions(format))

LEMMA FormatParts ==
    ASSUME NEW format \in Formats
    PROVE  /\ Len(format) \in Nat /\ format \in Seq(Range(format))
           /\ \E T : Conversions(format) \in [1..Len(format) -> Seq(T)]
<1>1. format \in Seq(Range(format)) /\ Len(format) \in Nat
  <2>1. format \in Seq(Range(format))
    BY FormatsAssumption
  <2>. QED BY <2>1
<1> DEFINE C(k) == Converted(format[k])
           T == UNION {Range(C(k)) : k \in 1..Len(format)}
<1>2. ASSUME NEW k \in 1..Len(format) PROVE C(k) \in Seq(T)
  <2>1. PICK S : C(k) \in Seq(S)
    BY ConvertedIsText DEF IsText
  <2>2. Range(C(k)) \subseteq T
    OBVIOUS
  <2> HIDE DEF C, T
  <2>3. C(k) \in Seq(T)
    <3>1. \A i \in 1..Len(C(k)) : C(k)[i] \in Range(C(k))
      BY <2>1 DEF Range
    <3>2. C(k) \in [1..Len(C(k)) -> T] /\ Len(C(k)) \in Nat
      BY <2>1, <2>2, <3>1
    <3>. QED BY <3>2
  <2>. QED BY <2>3
<1> HIDE DEF T
<1>3. Conversions(format) \in [1..Len(format) -> Seq(T)]
  BY <1>2 DEF Conversions
<1>. QED BY <1>1, <1>3

\* The texts of two formats, as that of one.
LEMMA TextsJoined ==
    ASSUME NEW f \in Formats, NEW g \in Formats
    PROVE  \E T : /\ Text(f) \in Seq(T) /\ Text(g) \in Seq(T)
                  /\ Text(f \o g) = Text(f) \o Text(g)
<1> DEFINE m == Len(f)
           n == Len(g)
           both == Conversions(f \o g)
<1>1. PICK R : Conversions(f) \in [1..m -> Seq(R)]
  BY FormatParts
<1>2. PICK S : Conversions(g) \in [1..n -> Seq(S)]
  BY FormatParts
<1> DEFINE T == R \cup S
<1>3. m \in Nat /\ n \in Nat /\ f \in Seq(Range(f)) /\ g \in Seq(Range(g))
  BY FormatParts
<1>4. Conversions(f) \in [1..m -> Seq(T)] /\ Conversions(g) \in [1..n -> Seq(T)]
  <2>1. Seq(R) \subseteq Seq(T) /\ Seq(S) \subseteq Seq(T)
    <3>1. R \subseteq T /\ S \subseteq T
      OBVIOUS
    <3> HIDE DEF T
    <3>. QED BY <3>1, SeqMonotonic
  <2> HIDE DEF m, n, T
  <2>. QED BY <1>1, <1>2, <2>1
<1>5. /\ Len(f \o g) = m + n
      /\ \A k \in 1..m : (f \o g)[k] = f[k]
      /\ \A k \in 1..n : (f \o g)[m + k] = g[k]
  <2>1. f \in Seq(Range(f) \cup Range(g)) /\ g \in Seq(Range(f) \cup Range(g))
    <3>1. Range(f) \subseteq Range(f) \cup Range(g) /\ Range(g) \subseteq Range(f) \cup Range(g)
      OBVIOUS
    <3>. QED BY <1>3, <3>1, SeqMonotonic
  <2>. QED BY <2>1, Beginning
<1> HIDE DEF T, m, n
<1>6. both \in [1..(m + n) -> Seq(T)]
      /\ (\A k \in 1..m : both[k] = Conversions(f)[k])
      /\ (\A k \in 1..n : both[m + k] = Conversions(g)[k])
  <2>1. both = [k \in 1..(m + n) |-> Converted((f \o g)[k])]
    BY <1>5 DEF Conversions
  <2> HIDE DEF both
  <2>2. ASSUME NEW k \in 1..m PROVE both[k] = Conversions(f)[k]
    <3>1. k \in 1..(m + n)
      BY <1>3
    <3>2. both[k] = Converted(f[k])
      BY <1>5, <2>1, <3>1
    <3>. QED BY <3>2 DEF Conversions, m
  <2>3. ASSUME NEW k \in 1..n PROVE both[m + k] = Conversions(g)[k]
    <3> DEFINE j == m + k
    <3>1. j \in 1..(m + n)
      BY <1>3
    <3>2. (f \o g)[j] = g[k]
      BY <1>5
    <3> HIDE DEF j
    <3>3. both[j] = Converted(g[k])
      BY <2>1, <3>1, <3>2
    <3>. QED BY <3>3 DEF Conversions, n, j
  <2>4. ASSUME NEW k \in 1..(m + n) PROVE both[k] \in Seq(T)
    <3>1. CASE k <= m
      <4>1. k \in 1..m
        BY <1>3, <3>1
      <4>. QED BY <1>4, <2>2, <4>1
    <3>2. CASE k > m
      <4> DEFINE j == k - m
      <4>1. j \in 1..n /\ m + j = k
        BY <1>3, <3>2
      <4> HIDE DEF j
      <4>2. both[m + j] = Conversions(g)[j]
        BY <2>3, <4>1
      <4>. QED BY <1>4, <4>1, <4>2
    <3>. QED BY <1>3, <3>1, <3>2
  <2>5. both \in [1..(m + n) -> Seq(T)]
    BY <2>1, <2>4
  <2>. QED BY <2>2, <2>3, <2>5
<1> HIDE DEF both
<1>7. PICK a \in [0..m -> Seq(T)] : Joins(a, Conversions(f), m) /\ Text(f) = a[m]
  BY <1>3, <1>4, FlattenSteps DEF Text
<1>8. PICK b \in [0..n -> Seq(T)] : Joins(b, Conversions(g), n) /\ Text(g) = b[n]
  BY <1>3, <1>4, FlattenSteps DEF Text
<1>9. PICK c \in [0..(m + n) -> Seq(T)] : Joins(c, both, m + n) /\ FlattenSeq(both) = c[m + n]
  <2>1. m + n \in Nat
    BY <1>3
  <2>. QED BY <1>6, <2>1, FlattenSteps
<1>10. Text(f \o g) = c[m + n]
  BY <1>9 DEF Text, both
<1>11. c[m] = a[m]
  <2> DEFINE P == {k \in Nat : c[k] = a[k]}
  <2>1. 0 \in P
    BY <1>7, <1>9 DEF Joins
  <2>2. ASSUME NEW k \in 1..m, k - 1 \in P PROVE k \in P
    <3>1. k \in 1..(m + n) /\ k \in Nat
      BY <1>3
    <3>2. c[k] = c[k - 1] \o both[k]
      BY <1>9, <3>1 DEF Joins
    <3>3. a[k] = a[k - 1] \o Conversions(f)[k]
      BY <1>7 DEF Joins
    <3>4. c[k - 1] = a[k - 1]
      BY <2>2
    <3>5. both[k] = Conversions(f)[k]
      BY <1>6
    <3>. QED BY <3>1, <3>2, <3>3, <3>4, <3>5
  <2>3. \A k \in 0..m : k \in P
    <3> HIDE DEF P
    <3>. QED BY <1>3, <2>1, <2>2, RangeInduction
  <2>. QED BY <1>3, <2>3
<1>12. c[m + n] = a[m] \o b[n]
  <2> DEFINE P == {k \in Nat : c[m + k] = a[m] \o b[k]}
  <2>0. a[m] \in Seq(T)
    BY <1>3
  <2>1. 0 \in P
    <3>1. b[0] = <<>> /\ m + 0 = m
      BY <1>3, <1>8 DEF Joins
    <3>2. a[m] \o <<>> = a[m]
      BY <2>0
    <3>. QED BY <1>11, <3>1, <3>2
  <2>2. ASSUME NEW k \in 1..n, k - 1 \in P PROVE k \in P
    <3> DEFINE j == m + k
    <3>1. j \in 1..(m + n) /\ j - 1 = m + (k - 1) /\ k \in Nat /\ k - 1 \in 0..n
      BY <1>3
    <3>2. c[j] = c[j - 1] \o both[j]
      <4> HIDE DEF j
      <4>. QED BY <1>9, <3>1 DEF Joins
    <3>3. c[j - 1] = a[m] \o b[k - 1]
      <4>1. c[m + (k - 1)] = a[m] \o b[k - 1]
        BY <2>2
      <4> HIDE DEF j
      <4>. QED BY <3>1, <4>1
    <3>4. both[j] = Conversions(g)[k]
      BY <1>6
    <3>5. b[k] = b[k - 1] \o Conversions(g)[k]
      BY <1>8 DEF Joins
    <3> DEFINE x == b[k - 1]
               y == Conversions(g)[k]
               z == a[m]
    <3>6. x \in Seq(T) /\ y \in Seq(T) /\ z \in Seq(T)
      BY <1>4, <2>0, <3>1
    <3>7. (z \o x) \o y = z \o (x \o y)
      <4> HIDE DEF x, y, z
      <4>. QED BY <3>6, ConcatAssociative
    <3>8. c[j] = a[m] \o b[k]
      <4> HIDE DEF j
      <4>. QED BY <3>2, <3>3, <3>4, <3>5, <3>7
    <3>. QED BY <3>1, <3>8
  <2>3. \A k \in 0..n : k \in P
    <3> HIDE DEF P
    <3>. QED BY <1>3, <2>1, <2>2, RangeInduction
  <2>. QED BY <1>3, <2>3
<1>13. Text(f) \in Seq(T) /\ Text(g) \in Seq(T)
  BY <1>3, <1>7, <1>8
<1>. QED BY <1>7, <1>8, <1>10, <1>12, <1>13

\* The text of a format has a zero byte exactly if one of its conversions writes one.
LEMMA TextEnds ==
    ASSUME NEW f \in Formats
    PROVE  (\E k \in 1..Len(f) : EndsString(f[k])) <=> (\E i \in 1..Len(Text(f)) : Text(f)[i] = Nul)
<1> DEFINE m == Len(f)
           C == Conversions(f)
           some == \E k \in 1..m : EndsString(f[k])
           Has(s) == \E i \in 1..Len(s) : s[i] = Nul
<1>1. PICK T : C \in [1..m -> Seq(T)]
  BY FormatParts
<1>2. m \in Nat
  BY FormatParts
<1>3. \A k \in 1..m : EndsString(f[k]) <=> Has(C[k])
  BY DEF EndsString, Conversions
<1> HIDE DEF C, m
<1>4. ASSUME some PROVE Has(Text(f))
  <2>1. PICK a \in [0..m -> Seq(T)] : Joins(a, C, m) /\ Text(f) = a[m]
    BY <1>1, <1>2, FlattenSteps DEF Text, C
  <2>2. PICK p \in 1..m : EndsString(f[p])
    BY <1>4
  <2>3. Has(C[p])
    BY <1>3, <2>2
  <2> DEFINE P == {k \in Nat : k >= p => Has(a[k])}
  <2>4. 0 \in P
    BY <1>2
  <2>5. ASSUME NEW k \in 1..m, k - 1 \in P PROVE k \in P
    <3> DEFINE x == a[k - 1]
               y == C[k]
    <3>1. a[k] = x \o y /\ k \in Nat
      <4>1. a[k] = a[k - 1] \o C[k]
        BY <2>1 DEF Joins
      <4>. QED BY <1>2, <4>1
    <3>2. x \in Seq(T) /\ y \in Seq(T)
      <4>1. k - 1 \in 0..m
        BY <1>2
      <4>. QED BY <1>1, <4>1
    <3>3. /\ x \o y \in Seq(T) /\ Len(x \o y) = Len(x) + Len(y)
          /\ Len(x) \in Nat /\ Len(y) \in Nat
          /\ \A i \in 1..Len(x) : (x \o y)[i] = x[i]
          /\ \A i \in 1..Len(y) : (x \o y)[Len(x) + i] = y[i]
      <4> HIDE DEF x, y
      <4>. QED BY <3>2, Beginning
    <3>4. k - 1 >= p => Has(x)
      BY <2>5
    <3> HIDE DEF x
    <3>5. ASSUME k >= p PROVE Has(x \o y)
      <4>1. CASE k = p
        <5>1. PICK i \in 1..Len(y) : y[i] = Nul
          BY <2>3, <4>1
        <5> HIDE DEF y
        <5> DEFINE j == Len(x) + i
        <5>2. j \in 1..Len(x \o y)
          BY <3>3
        <5>3. (x \o y)[j] = Nul
          BY <3>3, <5>1
        <5> HIDE DEF j
        <5>. QED BY <5>2, <5>3
      <4>2. CASE k # p
        <5>1. k - 1 >= p
          BY <1>2, <3>5, <4>2
        <5>2. PICK i \in 1..Len(x) : x[i] = Nul
          BY <3>4, <5>1
        <5> HIDE DEF y
        <5>3. i \in 1..Len(x \o y)
          BY <3>3
        <5>. QED BY <3>3, <5>2, <5>3
      <4>. QED BY <4>1, <4>2
    <3> HIDE DEF y
    <3>. QED BY <3>1, <3>5
  <2>6. \A k \in 0..m : k \in P
    <3> HIDE DEF P
    <3>. QED BY <1>2, <2>4, <2>5, RangeInduction
  <2>7. m \in 0..m /\ m >= p
    BY <1>2
  <2>. QED BY <2>1, <2>6, <2>7
<1>5. ASSUME ~some PROVE ~Has(Text(f))
  <2> DEFINE S == T \ {Nul}
  <2>1. ASSUME NEW k \in 1..m PROVE C[k] \in Seq(S)
    <3>1. ~Has(C[k])
      BY <1>3, <1>5
    <3>2. C[k] \in Seq(T)
      BY <1>1
    <3>3. \A i \in 1..Len(C[k]) : C[k][i] \in S
      BY <3>1, <3>2
    <3>4. C[k] \in [1..Len(C[k]) -> S] /\ Len(C[k]) \in Nat
      BY <3>2, <3>3
    <3> HIDE DEF S
    <3>. QED BY <3>4
  <2> HIDE DEF S
  <2>2. C \in [1..m -> Seq(S)]
    BY <1>1, <2>1
  <2>3. PICK a \in [0..m -> Seq(S)] : Joins(a, C, m) /\ Text(f) = a[m]
    BY <1>2, <2>2, FlattenSteps DEF Text, C
  <2>4. Text(f) \in Seq(S)
    BY <1>2, <2>3
  <2>. QED BY <2>4 DEF S
<1>. QED BY <1>4, <1>5 DEF m

\* Formats printed together.
LEMMA FormatsFit == FitsTogether
<1> SUFFICES ASSUME NEW f \in Formats, NEW g \in Formats
             PROVE  /\ Len(Formatted(f \o g)) < BufferSize
                    /\ Formatted(f \o g) = IF \E k \in 1..Len(f) : EndsString(f[k])
                                           THEN Formatted(f)
                                           ELSE Cut(Formatted(f) \o Formatted(g), BufferSize - 1)
  BY DEF FitsTogether
<1> DEFINE m == BufferSize - 1
           s == Text(f)
           t == Text(g)
           ends == \E k \in 1..Len(f) : EndsString(f[k])
<1>1. m \in Nat /\ m < BufferSize
  BY FormatSizes
<1>2. PICK T : s \in Seq(T) /\ t \in Seq(T) /\ Text(f \o g) = s \o t
  BY TextsJoined
<1>3. PICK n : EndsAt(s, n)
  BY <1>2, EndExists
<1>4. /\ Formatted(f) = CString(Cut(s, m))
      /\ Formatted(g) = CString(Cut(t, m))
      /\ Formatted(f \o g) = CString(Cut(s \o t, m))
  <2>1. \A h : Formatted(h) = CString(Cut(Text(h), m))
    BY DEF Formatted, Text, Conversions
  <2> HIDE DEF m, s, t
  <2>. QED BY <1>2, <2>1 DEF s, t
<1>5. ends <=> \E i \in 1..Len(s) : s[i] = Nul
  BY TextEnds
<1> HIDE DEF m, s, t, ends
<1>6. ends <=> n # Len(s)
  <2>1. n \in Nat /\ n <= Len(s) /\ Len(s) \in Nat
    BY <1>2, <1>3 DEF EndsAt
  <2>2. CASE n = Len(s)
    BY <1>3, <1>5, <2>2 DEF EndsAt
  <2>3. CASE n # Len(s)
    <3>1. n + 1 \in 1..Len(s)
      BY <2>1, <2>3
    <3>2. s[n + 1] = Nul
      BY <1>3, <2>3 DEF EndsAt
    <3>. QED BY <1>5, <2>3, <3>1, <3>2
  <2>. QED BY <2>2, <2>3
<1>7. /\ Len(CString(Cut(s \o t, m))) <= m
      /\ n # Len(s) => CString(Cut(s \o t, m)) = CString(Cut(s, m))
      /\ n = Len(s) => CString(Cut(s \o t, m)) = Cut(CString(Cut(s, m)) \o CString(Cut(t, m)), m)
  BY <1>1, <1>2, <1>3, JoinedCut
<1>8. CString(Cut(s \o t, m)) \in Seq(T)
  <2>1. s \o t \in Seq(T)
    BY <1>2
  <2>2. PICK p : EndsAt(s \o t, p)
    BY <2>1, EndExists
  <2>. QED BY <1>1, <2>1, <2>2, CStringOfCut
<1>9. Len(Formatted(f \o g)) < BufferSize
  <2>1. Len(Formatted(f \o g)) \in Nat
    BY <1>4, <1>8
  <2>. QED BY <1>1, <1>4, <1>7, <2>1, FormatSizes
<1>10. Formatted(f \o g) = IF ends THEN Formatted(f) ELSE Cut(Formatted(f) \o Formatted(g), m)
  BY <1>4, <1>6, <1>7, Zenon
<1>. QED BY <1>9, <1>10 DEF ends, m

\* What kernel_printf, LOG and dump print is made of the right parts, for every size
\* of word and buffer that holds its digits: every number but the least integer reads
\* back as the number that was passed, filled up with zeros to its width only by %0 and only
\* if it is not negative; a log line is its time and its message, or the first
\* character of a long one, and a row of a dump its address and its bytes.  Where the
\* code prints no number, that is stated too: the least integer is no numeral, of a negative
\* address and, before a message that is not too long, of a negative time some zeros
\* are left.
THEOREM FormatsAreAsAsked == StdioSpec => FormatsAsAsked
<1>1. /\ (NumbersReadBack /\ FitsTogether) \/ ~\E format \in Formats : KernelPrintf(format)
      /\ LogReadsBack \/ ~\E stamp \in Stamps, message \in Messages : Log(stamp, message)
      /\ DumpReadsBack \/ ~\E address \in Addresses : Dump(address)
  BY NumbersAreReadBack, FormatsFit, LogLinesReadBack, DumpsReadBack
<1>. QED BY <1>1, PTL DEF FormatsAsAsked
=============================================================================
