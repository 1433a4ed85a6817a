----------------------------- MODULE RouterProofs -----------------------------
(***************************************************************************)
(* A name leads where it says after any sequence of cd, and a program stays *)
(* whole until the next one is read: proofs about Router and Programs for  *)
(* every size of the buffers and the mount table and for all mounts,       *)
(* files and names that satisfy the assumptions.                           *)
(***************************************************************************)
EXTENDS Programs, ListFacts, SequenceTheorems

-----------------------------------------------------------------------------
(* Cutting strings. *)

\* Sequences of the same length with the same elements are the same.
LEMMA SameElements ==
    ASSUME NEW V, NEW s \in Seq(V), NEW t \in Seq(V), Len(s) = Len(t),
           \A k \in 1..Len(s) : s[k] = t[k]
    PROVE  s = t
  OBVIOUS

\* A sequence begins what is put together from it.
LEMMA ConcatBeginning ==
    ASSUME NEW V, NEW s \in Seq(V), NEW t \in Seq(V)
    PROVE  /\ s \o t \in Seq(V)
           /\ Len(s \o t) = Len(s) + Len(t)
           /\ \A j \in 1..Len(s) : (s \o t)[j] = s[j]
<1>1. /\ s \o t \in Seq(V)
      /\ Len(s \o t) = Len(s) + Len(t)
      /\ \A j \in 1..Len(s) + Len(t) : (s \o t)[j] = IF j <= Len(s) THEN s[j] ELSE t[j - Len(s)]
  BY ConcatProperties
<1>2. ASSUME NEW j \in 1..Len(s) PROVE (s \o t)[j] = s[j]
  <2>1. j \in 1..Len(s) + Len(t) /\ j <= Len(s)
    OBVIOUS
  <2>. QED BY <1>1, <2>1
<1>. QED BY <1>1, <1>2

\* Take keeps the beginning.
LEMMA TakeFacts ==
    ASSUME NEW V, NEW s \in Seq(V), NEW n \in Nat
    PROVE  /\ Take(s, n) \in Seq(V)
           /\ Len(Take(s, n)) = IF Len(s) < n THEN Len(s) ELSE n
           /\ \A k \in 1..Len(Take(s, n)) : Take(s, n)[k] = s[k]
           /\ Len(s) <= n => Take(s, n) = s
<1> DEFINE l == IF Len(s) < n THEN Len(s) ELSE n
<1>1. l \in Nat /\ l <= Len(s)
  OBVIOUS
<1> HIDE DEF l
<1>2. /\ SubSeq(s, 1, l) \in Seq(V)
      /\ Len(SubSeq(s, 1, l)) = l
      /\ \A k \in 1..l : SubSeq(s, 1, l)[k] = s[k]
  BY <1>1, PrefixOfSeq
<1>3. Take(s, n) = SubSeq(s, 1, l)
  BY DEF Take, l
<1>4. ASSUME Len(s) <= n PROVE Take(s, n) = s
  <2>1. l = Len(s)
    BY <1>4 DEF l
  <2>. QED BY <1>2, <1>3, <2>1, SameElements
<1>. QED BY <1>2, <1>3, <1>4 DEF l

\* Cutting before appending makes no difference when the result is cut.
LEMMA TakeOfAppended ==
    ASSUME NEW V, NEW s \in Seq(V), NEW t \in Seq(V), NEW n \in Nat
    PROVE  Take(Take(s, n) \o t, n) = Take(s \o t, n)
<1> DEFINE u == Take(s, n)
           x == Take(u \o t, n)
           y == Take(s \o t, n)
<1>1. u \in Seq(V) /\ Len(u) = (IF Len(s) < n THEN Len(s) ELSE n)
      /\ (\A k \in 1..Len(u) : u[k] = s[k])
  BY TakeFacts
<1> HIDE DEF u
<1>2. u \o t \in Seq(V) /\ Len(u \o t) = Len(u) + Len(t)
      /\ (\A k \in 1..Len(u \o t) : (u \o t)[k] = IF k <= Len(u) THEN u[k] ELSE t[k - Len(u)])
  <2>1. u \in Seq(V)
    BY <1>1
  <2>. QED BY <2>1, ConcatProperties
<1>3. s \o t \in Seq(V) /\ Len(s \o t) = Len(s) + Len(t)
      /\ (\A k \in 1..Len(s \o t) : (s \o t)[k] = IF k <= Len(s) THEN s[k] ELSE t[k - Len(s)])
  BY ConcatProperties
<1>4. /\ x \in Seq(V)
      /\ Len(x) = IF Len(u \o t) < n THEN Len(u \o t) ELSE n
      /\ \A k \in 1..Len(x) : x[k] = (u \o t)[k]
  BY <1>2, TakeFacts
<1>5. /\ y \in Seq(V)
      /\ Len(y) = IF Len(s \o t) < n THEN Len(s \o t) ELSE n
      /\ \A k \in 1..Len(y) : y[k] = (s \o t)[k]
  BY <1>3, TakeFacts
<1> HIDE DEF x, y
<1>6. Len(s) \in Nat /\ Len(t) \in Nat
  OBVIOUS
<1>7. Len(x) = Len(y)
  BY <1>1, <1>2, <1>3, <1>4, <1>5, <1>6
<1>8. ASSUME NEW k \in 1..Len(x) PROVE x[k] = y[k]
  <2>1. k \in Nat /\ 1 <= k /\ k <= n /\ k \in 1..Len(u \o t) /\ k \in 1..Len(s \o t)
    BY <1>1, <1>2, <1>3, <1>4, <1>5, <1>6, <1>7
  <2>2. x[k] = (u \o t)[k] /\ y[k] = (s \o t)[k]
    BY <1>4, <1>5, <1>7
  <2>3. CASE k <= Len(u)
    <3>1. k <= Len(s) /\ k \in 1..Len(u)
      BY <1>1, <1>6, <2>1, <2>3
    <3>. QED BY <1>1, <1>2, <1>3, <2>1, <2>2, <2>3, <3>1
  <2>4. CASE ~ (k <= Len(u))
    <3>1. Len(u) = Len(s)
      BY <1>1, <1>6, <2>1, <2>4
    <3>. QED BY <1>2, <1>3, <2>1, <2>2, <2>4, <3>1
  <2>. QED BY <2>3, <2>4
<1>9. x = y
  BY <1>4, <1>5, <1>7, <1>8, SameElements
<1>. QED BY <1>9 DEF x, y, u

-----------------------------------------------------------------------------
(* The mount table. *)

MountFS(k)  == BootMounts[k][1]
MountDir(k) == BootMounts[k][2]
Mounts      == 1..Len(BootMounts)

\* The mount table with the first k of the mounts in it.
TableWith(k) ==
    [i \in 1..TableSize |->
        IF i <= k THEN [fs |-> MountFS(i), dir |-> MountDir(i)] ELSE [fs |-> NoFS, dir |-> <<>>]]

\* What the assumption says of a mount: a slash and a name that fits the buffer
\* its name is copied to.
LEMMA MountFacts ==
    ASSUME NEW k \in Mounts
    PROVE  /\ MountFS(k) \in DOMAIN Files /\ MountFS(k) # NoFS
           /\ MountDir(k) \in Strings /\ Len(MountDir(k)) \in Nat
           /\ 2 <= Len(MountDir(k)) /\ Len(MountDir(k)) <= DirNameSize
           /\ MountDir(k)[1] = Slash
           /\ \A j \in 2..Len(MountDir(k)) : MountDir(k)[j] # Slash
<1>1. BootMounts[k] \in (DOMAIN Files) \X Strings
  BY RouterAssumption DEF Mounts
<1>2. MountFS(k) \in DOMAIN Files /\ MountDir(k) \in Strings
  BY <1>1 DEF MountFS, MountDir
<1>3. /\ MountFS(k) # NoFS
      /\ Head(MountDir(k)) = Slash
      /\ Tail(MountDir(k)) \in Seq(Chars)
      /\ Len(MountDir(k)) \in 2..DirNameSize
  BY RouterAssumption DEF Mounts, MountFS, MountDir
<1> DEFINE d == MountDir(k)
<1>4. d \in Strings /\ Head(d) = Slash /\ Tail(d) \in Seq(Chars) /\ Len(d) \in 2..DirNameSize
  BY <1>2, <1>3
<1> HIDE DEF d
<1>5. DirNameSize \in Nat
  BY RouterAssumption
<1>6. Len(d) \in Nat /\ 2 <= Len(d) /\ Len(d) <= DirNameSize
  BY <1>4, <1>5
<1>7. d[1] = Slash
  BY <1>4, <1>6 DEF Strings
<1>8. ASSUME NEW j \in 2..Len(d) PROVE d[j] # Slash
  <2>1. Len(Tail(d)) = Len(d) - 1 /\ Tail(d)[j - 1] = d[j]
    BY <1>4, <1>6, <1>8 DEF Strings
  <2>2. j - 1 \in 1..Len(Tail(d))
    BY <1>6, <1>8, <2>1
  <2>3. Tail(d)[j - 1] \in Chars
    BY <1>4, <2>2
  <2>. QED BY <2>1, <2>3, RouterAssumption
<1>. QED BY <1>2, <1>3, <1>6, <1>7, <1>8 DEF d

\* No two mounts have the same directory.
LEMMA MountsDiffer ==
    ASSUME NEW k \in Mounts, NEW l \in Mounts, MountDir(k) = MountDir(l)
    PROVE  k = l
  BY RouterAssumption DEF Mounts, MountDir

LEMMA MountCount == Len(BootMounts) \in Nat /\ TableSize \in Nat /\ Len(BootMounts) <= TableSize
  BY RouterAssumption

\* mount_fs takes the entry behind those that are taken.
LEMMA MountedNext ==
    ASSUME NEW k \in Mounts
    PROVE  Mounted(TableWith(k - 1), MountFS(k), MountDir(k)) = TableWith(k)
<1> DEFINE t == TableWith(k - 1)
           free == {i \in 1..TableSize : t[i].fs = NoFS}
<1>1. k \in Nat /\ 1 <= k /\ k <= TableSize /\ k \in 1..TableSize
  BY MountCount DEF Mounts
<1>2. ASSUME NEW i \in 1..TableSize PROVE i \in free <=> k <= i
  <2>1. CASE i <= k - 1
    <3>1. i \in Mounts
      BY <1>1, <2>1, MountCount DEF Mounts
    <3>2. t[i].fs = MountFS(i)
      BY <2>1 DEF TableWith
    <3>. QED BY <1>1, <2>1, <3>1, <3>2, MountFacts
  <2>2. CASE ~ (i <= k - 1)
    <3>1. t[i].fs = NoFS
      BY <2>2 DEF TableWith
    <3>. QED BY <1>1, <2>2, <3>1
  <2>. QED BY <2>1, <2>2
<1>3. (CHOOSE i \in free : \A j \in free : i <= j) = k
  <2>1. k \in free /\ \A j \in free : k <= j
    BY <1>1, <1>2
  <2>2. \A i \in free : (\A j \in free : i <= j) => i = k
    BY <1>1, <1>2, <2>1
  <2> HIDE DEF free
  <2>. QED BY <2>1, <2>2
<1>4. free # {}
  BY <1>1, <1>2
<1>5. Mounted(t, MountFS(k), MountDir(k)) = [t EXCEPT ![k] = [fs |-> MountFS(k), dir |-> MountDir(k)]]
  BY <1>3, <1>4 DEF Mounted
<1>6. [t EXCEPT ![k] = [fs |-> MountFS(k), dir |-> MountDir(k)]] = TableWith(k)
  <2>1. \A i \in 1..TableSize : (i <= k) <=> (i <= k - 1 \/ i = k)
    BY <1>1
  <2>. QED BY <2>1 DEF TableWith
<1>. QED BY <1>5, <1>6

\* At start every mount has its entry, in the order of the calls of mount_fs.
LEMMA BootTableHasAll == BootTable = TableWith(Len(BootMounts))
<1> DEFINE N == Len(BootMounts)
           Step(f) == [k \in 0..N |-> IF k = 0 THEN Empty
                                      ELSE Mounted(f[k - 1], BootMounts[k][1], BootMounts[k][2])]
           after == CHOOSE f : f = Step(f)
           good == [k \in 0..N |-> TableWith(k)]
<1>1. N \in Nat
  BY MountCount
<1>2. TableWith(0) = Empty
  <2>1. \A i \in 1..TableSize : ~ (i <= 0)
    BY MountCount
  <2>. QED BY <2>1 DEF TableWith, Empty
<1>3. ASSUME NEW k \in 0..N, k # 0
      PROVE  /\ k - 1 \in 0..N
             /\ Mounted(TableWith(k - 1), BootMounts[k][1], BootMounts[k][2]) = TableWith(k)
  <2>1. k \in Mounts /\ k - 1 \in 0..N
    BY <1>1, <1>3 DEF Mounts
  <2>. QED BY <2>1, MountedNext DEF MountFS, MountDir
<1>4. good = Step(good)
  BY <1>2, <1>3
<1>5. after = Step(after)
  <2> HIDE DEF Step, good
  <2>. QED BY <1>4
<1> HIDE DEF after
<1>6. \A k \in 0..N : after[k] = TableWith(k)
  <2> DEFINE wrong == {k \in 0..N : after[k] # TableWith(k)}
  <2> SUFFICES ASSUME wrong # {} PROVE FALSE
    OBVIOUS
  <2>1. wrong \in SUBSET Nat
    BY <1>1
  <2>2. PICK x \in wrong : \A y \in wrong : x <= y
    <3> HIDE DEF wrong
    <3>. QED BY <2>1, LeastNatural
  <2>3. x \in 0..N /\ x \in Nat
    BY <1>1
  <2>4. x # 0
    BY <1>1, <1>2, <1>5
  <2>5. x - 1 \in 0..N /\ x - 1 \notin wrong
    BY <1>1, <2>2, <2>3, <2>4
  <2>6. after[x - 1] = TableWith(x - 1)
    BY <2>5
  <2>7. after[x] = Mounted(after[x - 1], BootMounts[x][1], BootMounts[x][2])
    BY <1>5, <2>3, <2>4
  <2>. QED BY <1>3, <2>3, <2>4, <2>6, <2>7
<1>7. BootTable = after[N]
  BY DEF BootTable, after
<1>. QED BY <1>1, <1>6, <1>7

-----------------------------------------------------------------------------
(* What a path leads to. *)

\* The path is the directory d, or one below it.
Leads(path, d) ==
    /\ Len(d) <= Len(path)
    /\ \A j \in 1..Len(d) : path[j] = d[j]
    /\ Len(path) > Len(d) => path[Len(d) + 1] = Slash

\* The first component of a path that starts with a slash goes up to the next
\* slash, cut to the buffer it is copied to.
LEMMA FirstDirFacts ==
    ASSUME NEW path \in Strings, Len(path) >= 2, path[1] = Slash
    PROVE  \E stop \in 2..(Len(path) + 1) :
              /\ FirstDir(path) \in Strings
              /\ \A j \in 2..(stop - 1) : path[j] # Slash
              /\ stop <= Len(path) => path[stop] = Slash
              /\ Len(FirstDir(path)) = IF stop - 2 < DirNameSize THEN stop - 2 ELSE DirNameSize
              /\ \A j \in 1..Len(FirstDir(path)) : FirstDir(path)[j] = path[j + 1]
<1> DEFINE stops == {i \in 2..Len(path) : path[i] = Slash}
           stop  == IF stops = {} THEN Len(path) + 1 ELSE CHOOSE i \in stops : \A j \in stops : i <= j
           s == SubSeq(path, 2, stop - 1)
<1>1. Len(path) \in Nat /\ path \in Seq(Chars \cup {Slash}) /\ DirNameSize \in Nat
  BY RouterAssumption DEF Strings
<1>2. /\ stop \in 2..(Len(path) + 1)
      /\ \A j \in 2..(stop - 1) : path[j] # Slash
      /\ stop <= Len(path) => path[stop] = Slash
  <2>1. CASE stops = {}
    <3>1. stop = Len(path) + 1
      BY <2>1
    <3>2. \A j \in 2..Len(path) : path[j] # Slash
      BY <2>1
    <3> HIDE DEF stop
    <3>. QED BY <1>1, <3>1, <3>2
  <2>2. CASE stops # {}
    <3>1. stops \in SUBSET Nat
      BY <1>1
    <3>2. PICK x \in stops : \A y \in stops : x <= y
      <4> HIDE DEF stops
      <4>. QED BY <2>2, <3>1, LeastNatural
    <3>3. stop \in stops /\ \A y \in stops : stop <= y
      <4> HIDE DEF stops
      <4>. QED BY <2>2, <3>2
    <3> HIDE DEF stop
    <3>4. ASSUME NEW j \in 2..(stop - 1) PROVE path[j] # Slash
      <4>1. j \in 2..Len(path) /\ j < stop /\ stop \in Nat
        BY <1>1, <3>1, <3>3, <3>4
      <4>2. j \notin stops
        BY <1>1, <3>3, <4>1
      <4>. QED BY <4>1, <4>2
    <3>. QED BY <1>1, <3>3, <3>4
  <2>. QED BY <2>1, <2>2
<1>3. FirstDir(path) = Take(s, DirNameSize)
  <2>1. ~ (Len(path) < 2)
    BY <1>1
  <2>. QED BY <2>1 DEF FirstDir
<1> HIDE DEF stop
<1>4. /\ s \in Seq(Chars \cup {Slash})
      /\ Len(s) = stop - 2
      /\ \A j \in 1..Len(s) : s[j] = path[j + 1]
  <2> DEFINE m == stop - 1
  <2>1. 2 \in 1..(Len(path) + 1) /\ m \in 1..Len(path) /\ m = stop - 1 /\ stop \in Nat
    BY <1>1, <1>2
  <2> HIDE DEF m
  <2>2. m \in (2 - 1)..Len(path)
    BY <2>1
  <2>3. /\ SubSeq(path, 2, m) \in Seq(Chars \cup {Slash})
        /\ Len(SubSeq(path, 2, m)) = IF 2 <= m THEN m - 2 + 1 ELSE 0
        /\ \A j \in 1..(m - 2 + 1) : SubSeq(path, 2, m)[j] = path[2 + j - 1]
    BY <1>1, <2>1, <2>2, SubSeqProperties
  <2>4. s = SubSeq(path, 2, m)
    BY <2>1
  <2>5. m - 2 + 1 = stop - 2 /\ stop - 2 \in Nat /\ (~ (2 <= m) => stop - 2 = 0)
    BY <1>2, <2>1
  <2>6. \A j \in 1..(stop - 2) : 2 + j - 1 = j + 1
    BY <2>5
  <2>. QED BY <2>3, <2>4, <2>5, <2>6
<1> HIDE DEF s
<1>5. /\ FirstDir(path) \in Strings
      /\ Len(FirstDir(path)) = IF Len(s) < DirNameSize THEN Len(s) ELSE DirNameSize
      /\ \A j \in 1..Len(FirstDir(path)) : FirstDir(path)[j] = s[j]
  BY <1>1, <1>3, <1>4, TakeFacts DEF Strings
<1>6. \A j \in 1..Len(FirstDir(path)) : j \in 1..Len(s)
  BY <1>1, <1>2, <1>4, <1>5
<1>. QED BY <1>2, <1>4, <1>5, <1>6

\* The first component of a mount's directory is all of it but the slash.
LEMMA FirstDirOfMount ==
    ASSUME NEW k \in Mounts
    PROVE  /\ FirstDir(MountDir(k)) \in Strings
           /\ Len(FirstDir(MountDir(k))) = Len(MountDir(k)) - 1
           /\ \A j \in 1..(Len(MountDir(k)) - 1) : FirstDir(MountDir(k))[j] = MountDir(k)[j + 1]
<1> DEFINE d == MountDir(k)
<1>1. /\ d \in Strings /\ Len(d) \in Nat /\ 2 <= Len(d) /\ Len(d) <= DirNameSize /\ d[1] = Slash
      /\ \A j \in 2..Len(d) : d[j] # Slash
      /\ DirNameSize \in Nat
  BY MountFacts, RouterAssumption
<1> HIDE DEF d
<1>2. PICK stop \in 2..(Len(d) + 1) :
          /\ FirstDir(d) \in Strings
          /\ \A j \in 2..(stop - 1) : d[j] # Slash
          /\ stop <= Len(d) => d[stop] = Slash
          /\ Len(FirstDir(d)) = IF stop - 2 < DirNameSize THEN stop - 2 ELSE DirNameSize
          /\ \A j \in 1..Len(FirstDir(d)) : FirstDir(d)[j] = d[j + 1]
  BY <1>1, FirstDirFacts
<1>3. stop = Len(d) + 1
  BY <1>1, <1>2
<1>4. Len(FirstDir(d)) = Len(d) - 1
  BY <1>1, <1>2, <1>3
<1>. QED BY <1>2, <1>4 DEF d

\* find_mount takes an entry exactly if the path is its directory or below it:
\* a longer name that begins like a mount, or that is cut to the length of one,
\* does not pass.
LEMMA FirstDirMatches ==
    ASSUME NEW path \in Strings, Len(path) >= 1, path[1] = Slash, NEW k \in Mounts
    PROVE  FirstDir(path) = FirstDir(MountDir(k)) <=> Leads(path, MountDir(k))
<1> DEFINE d == MountDir(k)
           e == FirstDir(d)
           p == FirstDir(path)
<1>1. /\ d \in Strings /\ Len(d) \in Nat /\ 2 <= Len(d) /\ Len(d) <= DirNameSize /\ d[1] = Slash
      /\ \A j \in 2..Len(d) : d[j] # Slash
      /\ DirNameSize \in Nat
  BY MountFacts, RouterAssumption
<1>2. e \in Strings /\ Len(e) = Len(d) - 1 /\ (\A j \in 1..(Len(d) - 1) : e[j] = d[j + 1])
  BY FirstDirOfMount
<1>3. Len(path) \in Nat
  BY DEF Strings
<1> HIDE DEF d, e, p
<1>4. CASE Len(path) < 2
  <2>1. p = <<>>
    BY <1>4 DEF FirstDir, p
  <2>2. p # e
    BY <1>1, <1>2, <2>1
  <2>3. ~ Leads(path, d)
    BY <1>1, <1>3, <1>4 DEF Leads
  <2>. QED BY <2>2, <2>3 DEF d, e, p
<1>5. CASE Len(path) >= 2
  <2>1. PICK stop \in 2..(Len(path) + 1) :
          /\ p \in Strings
          /\ \A j \in 2..(stop - 1) : path[j] # Slash
          /\ stop <= Len(path) => path[stop] = Slash
          /\ Len(p) = IF stop - 2 < DirNameSize THEN stop - 2 ELSE DirNameSize
          /\ \A j \in 1..Len(p) : p[j] = path[j + 1]
    BY <1>5, FirstDirFacts DEF p
  <2>2. stop \in Nat /\ 2 <= stop /\ stop <= Len(path) + 1
    BY <1>3, <2>1
  <2>3. ASSUME p = e PROVE Leads(path, d)
    <3>1. stop = Len(d) + 1
      BY <1>1, <1>2, <2>1, <2>2, <2>3
    <3>2. ASSUME NEW j \in 1..Len(d) PROVE path[j] = d[j]
      <4>1. CASE j = 1
        BY <1>1, <4>1
      <4>2. CASE j # 1
        <5>1. j - 1 \in 1..(Len(d) - 1) /\ j - 1 \in 1..Len(p) /\ (j - 1) + 1 = j
          BY <1>1, <1>2, <2>3, <3>2, <4>2
        <5>. QED BY <1>2, <2>1, <2>3, <5>1
      <4>. QED BY <4>1, <4>2
    <3>3. Len(d) <= Len(path) /\ (Len(path) > Len(d) => path[Len(d) + 1] = Slash)
      BY <1>1, <1>3, <2>1, <2>2, <3>1
    <3>. QED BY <3>2, <3>3 DEF Leads
  <2>4. ASSUME Leads(path, d) PROVE p = e
    <3>1. /\ Len(d) <= Len(path)
          /\ \A j \in 1..Len(d) : path[j] = d[j]
          /\ Len(path) > Len(d) => path[Len(d) + 1] = Slash
      BY <2>4 DEF Leads
    <3>2. stop = Len(d) + 1
      <4>1. ~ (stop <= Len(d))
        <5> SUFFICES ASSUME stop <= Len(d) PROVE FALSE
          OBVIOUS
        <5>1. stop \in 2..Len(d) /\ stop \in 1..Len(d) /\ stop <= Len(path)
          BY <1>1, <1>3, <2>2, <3>1
        <5>2. path[stop] = Slash /\ path[stop] = d[stop] /\ d[stop] # Slash
          BY <1>1, <2>1, <3>1, <5>1
        <5>. QED BY <5>2
      <4>2. ~ (stop > Len(d) + 1)
        <5> SUFFICES ASSUME stop > Len(d) + 1 PROVE FALSE
          OBVIOUS
        <5>1. Len(d) + 1 \in 2..(stop - 1) /\ Len(path) > Len(d)
          BY <1>1, <1>3, <2>2
        <5>. QED BY <2>1, <3>1, <5>1
      <4>. QED BY <1>1, <2>2, <4>1, <4>2
    <3>3. Len(p) = Len(e)
      BY <1>1, <1>2, <2>1, <2>2, <3>2
    <3>4. ASSUME NEW j \in 1..Len(p) PROVE p[j] = e[j]
      <4>1. j \in 1..(Len(d) - 1) /\ j + 1 \in 1..Len(d)
        BY <1>1, <1>2, <3>3, <3>4
      <4>. QED BY <1>2, <2>1, <3>1, <3>4, <4>1
    <3>. QED BY <1>2, <2>1, <3>3, <3>4, SameElements DEF Strings
  <2>. QED BY <2>3, <2>4 DEF d, e, p
<1>. QED BY <1>3, <1>4, <1>5

\* A path leads to one mount at most: none is below another.
LEMMA LeadsToOne ==
    ASSUME NEW path \in Strings, NEW k \in Mounts, NEW l \in Mounts,
           Leads(path, MountDir(k)), Leads(path, MountDir(l))
    PROVE  k = l
<1>1. ASSUME NEW i \in Mounts, NEW j \in Mounts,
             Leads(path, MountDir(i)), Leads(path, MountDir(j))
      PROVE  ~ (Len(MountDir(i)) < Len(MountDir(j)))
  <2> DEFINE d == MountDir(i)
             e == MountDir(j)
  <2>1. /\ Len(d) \in Nat /\ 2 <= Len(d) /\ Len(e) \in Nat
        /\ \A m \in 2..Len(e) : e[m] # Slash
    BY <1>1, MountFacts
  <2>2. /\ Len(path) > Len(d) => path[Len(d) + 1] = Slash
        /\ Len(e) <= Len(path)
        /\ \A m \in 1..Len(e) : path[m] = e[m]
    BY <1>1 DEF Leads
  <2> HIDE DEF d, e
  <2>3. Len(path) \in Nat
    BY DEF Strings
  <2> SUFFICES ASSUME Len(d) < Len(e) PROVE FALSE
    BY DEF d, e
  <2>4. Len(d) + 1 \in 2..Len(e) /\ Len(d) + 1 \in 1..Len(e) /\ Len(path) > Len(d)
    BY <2>1, <2>2, <2>3
  <2>. QED BY <2>1, <2>2, <2>4
<1> DEFINE d == MountDir(k)
           e == MountDir(l)
<1>2. d \in Strings /\ e \in Strings /\ Len(d) \in Nat /\ Len(e) \in Nat
  BY MountFacts
<1>3. ~ (Len(d) < Len(e)) /\ ~ (Len(e) < Len(d))
  BY <1>1
<1>4. \A m \in 1..Len(d) : path[m] = d[m]
  BY DEF Leads
<1>5. \A m \in 1..Len(e) : path[m] = e[m]
  BY DEF Leads
<1> HIDE DEF d, e
<1>6. Len(d) = Len(e)
  BY <1>2, <1>3
<1>7. d = e
  BY <1>2, <1>4, <1>5, <1>6, SameElements DEF Strings
<1>. QED BY <1>7, MountsDiffer DEF d, e

\* The characters of a path that say where it leads.
MountedPart(path, d) == IF Len(path) = Len(d) THEN Len(d) ELSE Len(d) + 1

LEMMA LeadsByParts ==
    ASSUME NEW path \in Strings, NEW k \in Mounts, NEW n \in 0..Len(path)
    PROVE  (\/ path = MountDir(k) /\ n = Len(path)
            \/ Take(path, n) = MountDir(k) \o <<Slash>>)
              <=> Leads(path, MountDir(k)) /\ n = MountedPart(path, MountDir(k))
<1> DEFINE d == MountDir(k)
           t == Take(path, n)
           u == d \o <<Slash>>
<1>1. /\ d \in Strings /\ Len(d) \in Nat /\ 2 <= Len(d)
      /\ Len(path) \in Nat /\ n \in Nat /\ n <= Len(path)
      /\ path \in Seq(Chars \cup {Slash}) /\ d \in Seq(Chars \cup {Slash})
  BY MountFacts DEF Strings
<1>2. /\ t \in Seq(Chars \cup {Slash}) /\ Len(t) = n
      /\ \A j \in 1..n : t[j] = path[j]
  <2>1. /\ t \in Seq(Chars \cup {Slash})
        /\ Len(t) = IF Len(path) < n THEN Len(path) ELSE n
        /\ \A j \in 1..Len(t) : t[j] = path[j]
    BY <1>1, TakeFacts
  <2> HIDE DEF t
  <2>. QED BY <1>1, <2>1
<1> HIDE DEF d, t
<1>3. /\ u \in Seq(Chars \cup {Slash}) /\ Len(u) = Len(d) + 1
      /\ (\A j \in 1..Len(d) : u[j] = d[j]) /\ u[Len(d) + 1] = Slash
  BY <1>1
<1> HIDE DEF u
<1>4. ASSUME path = d, n = Len(path) PROVE Leads(path, d) /\ n = MountedPart(path, d)
  BY <1>1, <1>4 DEF Leads, MountedPart
<1>5. ASSUME t = u PROVE Leads(path, d) /\ n = MountedPart(path, d)
  <2>1. n = Len(d) + 1
    BY <1>2, <1>3, <1>5
  <2>2. \A j \in 1..Len(d) : path[j] = d[j]
    BY <1>1, <1>2, <1>3, <1>5, <2>1
  <2>3. path[Len(d) + 1] = Slash
    BY <1>1, <1>2, <1>3, <1>5, <2>1
  <2>. QED BY <1>1, <2>1, <2>2, <2>3 DEF Leads, MountedPart
<1>6. ASSUME Leads(path, d), n = MountedPart(path, d)
      PROVE  (path = d /\ n = Len(path)) \/ t = u
  <2>1. /\ Len(d) <= Len(path)
        /\ \A j \in 1..Len(d) : path[j] = d[j]
        /\ Len(path) > Len(d) => path[Len(d) + 1] = Slash
    BY <1>6 DEF Leads
  <2>2. CASE Len(path) = Len(d)
    <3>1. path = d
      BY <1>1, <2>1, <2>2, SameElements
    <3>. QED BY <1>6, <2>2, <3>1 DEF MountedPart
  <2>3. CASE Len(path) # Len(d)
    <3>1. n = Len(d) + 1 /\ Len(path) > Len(d)
      BY <1>1, <1>6, <2>1, <2>3 DEF MountedPart
    <3>2. ASSUME NEW j \in 1..n PROVE t[j] = u[j]
      <4>1. CASE j = n
        BY <1>1, <1>2, <1>3, <2>1, <3>1, <4>1
      <4>2. CASE j # n
        <5>1. j \in 1..Len(d)
          BY <1>1, <3>1, <3>2, <4>2
        <5>. QED BY <1>2, <1>3, <2>1, <3>2, <5>1
      <4>. QED BY <4>1, <4>2
    <3>3. t = u
      BY <1>2, <1>3, <3>1, <3>2, SameElements
    <3>. QED BY <3>3
  <2>. QED BY <2>2, <2>3
<1>. QED BY <1>4, <1>5, <1>6 DEF d, t, u

\* What is left of the path then is what read_file looks up, also when the path
\* ends where the mount does.
LEMMA RestOfPath ==
    ASSUME NEW path \in Strings, NEW k \in Mounts, Leads(path, MountDir(k))
    PROVE  /\ MountedPart(path, MountDir(k)) \in 0..Len(path)
           /\ Drop(path, MountedPart(path, MountDir(k))) = Drop(path, Len(MountDir(k)) + 1)
<1> DEFINE d == MountDir(k)
<1>1. Len(d) \in Nat /\ Len(path) \in Nat /\ Len(d) <= Len(path)
  BY MountFacts DEF Strings, Leads
<1> HIDE DEF d
<1>2. MountedPart(path, d) \in 0..Len(path)
  BY <1>1 DEF MountedPart
<1>3. CASE Len(path) = Len(d)
  <2>1. Drop(path, Len(d)) = <<>>
    <3>1. Len(d) + 1 \in Int /\ Len(path) \in Int /\ Len(path) < Len(d) + 1
      BY <1>1, <1>3
    <3>. QED BY <3>1, SubSeqEmpty DEF Drop
  <2>2. Drop(path, Len(d) + 1) = <<>>
    <3> DEFINE m == Len(d) + 1 + 1
    <3>1. m \in Int /\ Len(path) \in Int /\ Len(path) < m
      BY <1>1, <1>3
    <3> HIDE DEF m
    <3>2. SubSeq(path, m, Len(path)) = <<>>
      BY <3>1, SubSeqEmpty
    <3>. QED BY <3>2 DEF Drop, m
  <2>. QED BY <1>3, <2>1, <2>2, <1>2 DEF MountedPart, d
<1>4. CASE Len(path) # Len(d)
  BY <1>2, <1>4 DEF MountedPart, d
<1>. QED BY <1>3, <1>4

\* The mounts a path leads to, and what it names below one of them.
Reached(path)   == {k \in Mounts : Leads(path, MountDir(k))}
InMount(path, k) == File(MountFS(k), Drop(path, Len(MountDir(k)) + 1))

\* What a path names is what it leads to.
LEMMA NamedIsReached ==
    ASSUME NEW path \in Strings
    PROVE  Named(path) = {InMount(path, k) : k \in Reached(path)}
<1> DEFINE leadsTo(dir, n) == (path = dir /\ n = Len(path)) \/ Take(path, n) = dir \o <<Slash>>
           below(m) == {File(m[1], Drop(path, n)) : n \in {n \in 0..Len(path) : leadsTo(m[2], n)}}
<1>1. Named(path) = UNION {below(BootMounts[k]) : k \in Mounts}
  BY DEF Named, Mounts
<1>2. ASSUME NEW k \in Mounts
      PROVE  below(BootMounts[k]) = IF k \in Reached(path) THEN {InMount(path, k)} ELSE {}
  <2>1. below(BootMounts[k]) =
          {File(MountFS(k), Drop(path, n)) : n \in {n \in 0..Len(path) : leadsTo(MountDir(k), n)}}
    BY DEF MountFS, MountDir
  <2>2. ASSUME NEW n \in 0..Len(path)
        PROVE  leadsTo(MountDir(k), n) <=>
                 k \in Reached(path) /\ n = MountedPart(path, MountDir(k))
    <3>1. leadsTo(MountDir(k), n) <=>
            Leads(path, MountDir(k)) /\ n = MountedPart(path, MountDir(k))
      BY LeadsByParts
    <3>. QED BY <3>1 DEF Reached
  <2> HIDE DEF leadsTo
  <2>3. CASE k \in Reached(path)
    <3>1. MountedPart(path, MountDir(k)) \in 0..Len(path)
          /\ Drop(path, MountedPart(path, MountDir(k))) = Drop(path, Len(MountDir(k)) + 1)
      BY <2>3, RestOfPath DEF Reached
    <3>2. {n \in 0..Len(path) : leadsTo(MountDir(k), n)} = {MountedPart(path, MountDir(k))}
      BY <2>2, <2>3, <3>1
    <3>. QED BY <2>1, <2>3, <3>1, <3>2 DEF InMount
  <2>4. CASE k \notin Reached(path)
    <3>1. {n \in 0..Len(path) : leadsTo(MountDir(k), n)} = {}
      BY <2>2, <2>4
    <3>. QED BY <2>1, <2>4, <3>1
  <2>. QED BY <2>3, <2>4
<1> HIDE DEF below
<1>3. \A k \in Reached(path) : k \in Mounts
  BY DEF Reached
<1>. QED BY <1>1, <1>2, <1>3

\* The mount table is the one of the start.
TableMounted == table = TableWith(Len(BootMounts))

LEMMA MountEntry ==
    ASSUME TableMounted
    PROVE  /\ \A k \in Mounts : /\ k \in 1..TableSize
                                /\ table[k] = [fs |-> MountFS(k), dir |-> MountDir(k)]
           /\ \A i \in 1..TableSize : i \notin Mounts => table[i].fs = NoFS
<1>1. ASSUME NEW k \in Mounts
      PROVE  k \in 1..TableSize /\ table[k] = [fs |-> MountFS(k), dir |-> MountDir(k)]
  <2>1. k \in 1..TableSize /\ k <= Len(BootMounts)
    BY MountCount DEF Mounts
  <2>. QED BY <2>1 DEF TableMounted, TableWith
<1>2. ASSUME NEW i \in 1..TableSize, i \notin Mounts PROVE table[i].fs = NoFS
  <2>1. ~ (i <= Len(BootMounts))
    BY <1>2, MountCount DEF Mounts
  <2>. QED BY <2>1 DEF TableMounted, TableWith
<1>. QED BY <1>1, <1>2

\* find_mount finds the mount a path leads to, and none if there is none.
LEMMA MatchesAreReached ==
    ASSUME TableMounted, NEW path \in Strings, Len(path) >= 1, path[1] = Slash
    PROVE  Matches(path) = Reached(path)
<1>1. ASSUME NEW i \in 1..TableSize
      PROVE  i \in Matches(path) <=> i \in Reached(path)
  <2>1. CASE i \in Mounts
    <3>1. table[i].fs # NoFS /\ table[i].dir = MountDir(i)
      <4>1. table[i] = [fs |-> MountFS(i), dir |-> MountDir(i)]
        BY <2>1, MountEntry
      <4>2. MountFS(i) # NoFS
        BY <2>1, MountFacts
      <4>. QED BY <4>1, <4>2
    <3>2. FirstDir(path) = FirstDir(MountDir(i)) <=> Leads(path, MountDir(i))
      BY <2>1, FirstDirMatches
    <3>. QED BY <2>1, <3>1, <3>2 DEF Matches, Reached
  <2>2. CASE i \notin Mounts
    <3>1. table[i].fs = NoFS
      BY <2>2, MountEntry
    <3>. QED BY <2>2, <3>1 DEF Matches, Reached
  <2>. QED BY <2>1, <2>2
<1>2. Reached(path) \subseteq 1..TableSize
  BY MountEntry DEF Reached
<1>3. Matches(path) \subseteq 1..TableSize
  BY DEF Matches
<1>. QED BY <1>1, <1>2, <1>3

LEMMA FoundMount ==
    ASSUME TableMounted, NEW path \in Strings, Len(path) >= 1, path[1] = Slash
    PROVE  /\ Reached(path) = {} => FindMount(path) = 0
           /\ \A k \in Reached(path) :
                /\ FindMount(path) = k /\ k # 0
                /\ Reached(path) = {k}
                /\ table[k] = [fs |-> MountFS(k), dir |-> MountDir(k)]
<1>1. Matches(path) = Reached(path)
  BY MatchesAreReached
<1>2. CASE Reached(path) = {}
  BY <1>1, <1>2 DEF FindMount
<1>3. ASSUME NEW k \in Reached(path)
      PROVE  /\ FindMount(path) = k /\ k # 0
             /\ Reached(path) = {k}
             /\ table[k] = [fs |-> MountFS(k), dir |-> MountDir(k)]
  <2>1. k \in Mounts /\ k \in Nat /\ k # 0
    BY MountCount DEF Reached, Mounts
  <2>2. \A l \in Reached(path) : l = k
    BY LeadsToOne DEF Reached
  <2>3. Reached(path) = {k}
    BY <2>2
  <2>4. FindMount(path) = CHOOSE i \in {k} : \A j \in {k} : i <= j
    BY <1>1, <2>3 DEF FindMount
  <2>5. (CHOOSE i \in {k} : \A j \in {k} : i <= j) = k
    BY <2>1
  <2>. QED BY <2>1, <2>3, <2>4, <2>5, MountEntry
<1>. QED BY <1>2, <1>3

-----------------------------------------------------------------------------
(* Reading and listing. *)

\* read_file reaches the one file a path names, or nothing.
LEMMA ReadsWhatIsNamed ==
    ASSUME TableMounted, NEW path \in Strings, Len(path) >= 1, path[1] = Slash
    PROVE  {f \in Named(path) : f.name \in Files[f.fs]} =
              IF ReadFile(path) = Nothing THEN {} ELSE {ReadFile(path)}
<1>1. Named(path) = {InMount(path, k) : k \in Reached(path)}
  BY NamedIsReached
<1>2. CASE Reached(path) = {}
  <2>1. ReadFile(path) = Nothing
    BY <1>2, FoundMount DEF ReadFile
  <2>. QED BY <1>1, <1>2, <2>1
<1>3. ASSUME NEW k \in Reached(path)
      PROVE  {f \in Named(path) : f.name \in Files[f.fs]} =
                IF ReadFile(path) = Nothing THEN {} ELSE {ReadFile(path)}
  <2> DEFINE rest == Drop(path, Len(MountDir(k)) + 1)
             f == File(MountFS(k), rest)
  <2>1. /\ FindMount(path) = k /\ k # 0 /\ Reached(path) = {k}
        /\ table[k] = [fs |-> MountFS(k), dir |-> MountDir(k)]
    BY FoundMount
  <2>2. Named(path) = {f}
    BY <1>1, <2>1 DEF InMount
  <2>3. Below(k, path) = rest /\ table[k].fs = MountFS(k)
    BY <2>1 DEF Below
  <2> HIDE DEF rest
  <2>4. ReadFile(path) = IF rest \in Files[MountFS(k)] THEN f ELSE Nothing
    BY <2>1, <2>3 DEF ReadFile
  <2>5. f # Nothing /\ f.fs = MountFS(k) /\ f.name = rest
    <3>1. MountFS(k) # NoFS
      BY MountFacts DEF Reached
    <3>. QED BY <3>1 DEF File, Nothing
  <2> HIDE DEF f
  <2>. QED BY <2>2, <2>4, <2>5
<1>. QED BY <1>2, <1>3

\* get_list_of_files lists the file system a path leads to.
LEMMA ListsWhatIsReached ==
    ASSUME TableMounted, NEW path \in Strings, Len(path) >= 1, path[1] = Slash,
           path # <<Slash>>
    PROVE  {f.fs : f \in Named(path)} =
              IF ListFiles(path) = Nothing THEN {} ELSE {ListFiles(path).fs}
<1>1. Named(path) = {InMount(path, k) : k \in Reached(path)}
  BY NamedIsReached
<1>2. CASE Reached(path) = {}
  <2>1. ListFiles(path) = Nothing
    BY <1>2, FoundMount DEF ListFiles
  <2>. QED BY <1>1, <1>2, <2>1
<1>3. ASSUME NEW k \in Reached(path)
      PROVE  {f.fs : f \in Named(path)} =
                IF ListFiles(path) = Nothing THEN {} ELSE {ListFiles(path).fs}
  <2>1. /\ FindMount(path) = k /\ k # 0 /\ Reached(path) = {k}
        /\ table[k] = [fs |-> MountFS(k), dir |-> MountDir(k)]
    BY FoundMount
  <2>2. Named(path) = {InMount(path, k)}
    BY <1>1, <2>1
  <2>3. InMount(path, k).fs = MountFS(k)
    BY DEF InMount, File
  <2>4. ListFiles(path) = File(MountFS(k), <<>>)
    BY <2>1 DEF ListFiles
  <2>5. ListFiles(path) # Nothing /\ ListFiles(path).fs = MountFS(k)
    <3>1. MountFS(k) # NoFS
      BY MountFacts DEF Reached
    <3>. QED BY <2>4, <3>1 DEF File, Nothing
  <2>. QED BY <2>2, <2>3, <2>5
<1>. QED BY <1>2, <1>3

-----------------------------------------------------------------------------
(* The directory that was asked for, and the invariant of the router. *)

\* What is asked for is an absolute path.
AskedIsAbsolute == asked \in Strings /\ Len(asked) >= 1 /\ asked[1] = Slash

RouterInv ==
    /\ AskedIsAbsolute
    /\ DirectoryAsAsked
    /\ TableMounted
    /\ LeadsWhereNamed

\* The names that are typed.  cd without one stands for the root.
Typed == Args \cup {<<Slash>>}

LEMMA TypedFacts ==
    ASSUME NEW arg \in Typed
    PROVE  arg \in Strings /\ Len(arg) \in Nat /\ 1 <= Len(arg) /\ Len(arg) <= PathSize - 1
<1>1. PathSize \in Nat /\ PathSize >= 2
  BY RouterAssumption
<1>2. CASE arg \in Args
  BY <1>1, <1>2, RouterAssumption DEF Strings
<1>3. CASE arg = <<Slash>>
  <2>1. <<Slash>> \in Seq(Chars \cup {Slash}) /\ Len(<<Slash>>) = 1
    OBVIOUS
  <2>. QED BY <1>1, <1>3, <2>1 DEF Strings
<1>. QED BY <1>2, <1>3 DEF Typed

LEMMA WantedFacts ==
    ASSUME AskedIsAbsolute, NEW arg \in Typed
    PROVE  Wanted(arg) \in Strings /\ Len(Wanted(arg)) >= 1 /\ Wanted(arg)[1] = Slash
<1>1. arg \in Seq(Chars \cup {Slash}) /\ Len(arg) \in Nat /\ 1 <= Len(arg)
  BY TypedFacts DEF Strings
<1>2. asked \in Seq(Chars \cup {Slash}) /\ Len(asked) \in Nat /\ Len(asked) >= 1 /\ asked[1] = Slash
  BY DEF AskedIsAbsolute, Strings
<1>3. CASE arg[1] = Slash
  BY <1>1, <1>3 DEF Wanted, Strings
<1>4. CASE arg[1] # Slash
  <2>1. /\ asked \o arg \in Seq(Chars \cup {Slash})
        /\ Len(asked \o arg) = Len(asked) + Len(arg)
        /\ (asked \o arg)[1] = asked[1]
    BY <1>1, <1>2
  <2>. QED BY <1>1, <1>2, <1>4, <2>1 DEF Wanted, Strings
<1>. QED BY <1>3, <1>4

\* The path that a command builds is what its user means, cut to the buffer.
LEMMA PathIsWantedCut ==
    ASSUME AskedIsAbsolute, DirectoryAsAsked, NEW arg \in Typed
    PROVE  AbsolutePath(arg) = Take(Wanted(arg), PathSize - 1)
<1> DEFINE P == PathSize - 1
<1>1. P \in Nat
  BY RouterAssumption
<1>2. arg \in Seq(Chars \cup {Slash}) /\ Len(arg) <= P
  BY TypedFacts DEF Strings
<1>3. asked \in Seq(Chars \cup {Slash}) /\ current_dir = Take(asked, P)
  BY DEF AskedIsAbsolute, Strings, DirectoryAsAsked
<1>4. \A s, t : Appended(s, t) = Take(s \o t, P)
  BY DEF Appended
<1> HIDE DEF P
<1>5. CASE arg[1] = Slash
  BY <1>1, <1>2, <1>5, TakeFacts DEF AbsolutePath, Wanted, P
<1>6. CASE arg[1] # Slash
  <2>1. current_dir \in Seq(Chars \cup {Slash}) /\ Take(current_dir, P) = current_dir
    <3>1. current_dir \in Seq(Chars \cup {Slash}) /\ Len(current_dir) <= P
      BY <1>1, <1>3, TakeFacts
    <3>. QED BY <1>1, <3>1, TakeFacts
  <2>2. Appended(<<>>, current_dir) = current_dir
    <3>1. <<>> \o current_dir = current_dir
      BY <2>1
    <3>. QED BY <1>4, <2>1, <3>1
  <2>3. Appended(current_dir, arg) = Take(asked \o arg, P)
    BY <1>1, <1>2, <1>3, <1>4, TakeOfAppended
  <2>. QED BY <1>6, <2>2, <2>3 DEF AbsolutePath, Wanted, P
<1>. QED BY <1>5, <1>6

\* cd leaves the directory that was asked for, cut to the buffer, however often
\* it was cut before.
LEMMA ChangeDirStep ==
    ASSUME RouterInv, NEW arg \in Typed, ChangeDir(arg)
    PROVE  RouterInv'
<1> DEFINE P == PathSize - 1
           V == Chars \cup {Slash}
           w == Wanted(arg)
           a == Take(w, P)
           slash == <<Slash>>
<1>1. AskedIsAbsolute /\ DirectoryAsAsked
  BY DEF RouterInv
<1>2. P \in Nat /\ P >= 1
  BY RouterAssumption
<1>3. w \in Seq(V) /\ Len(w) \in Nat /\ Len(w) >= 1 /\ w[1] = Slash
  BY <1>1, WantedFacts DEF Strings
<1>4. AbsolutePath(arg) = a
  BY <1>1, PathIsWantedCut
<1>5. slash \in Seq(V) /\ Len(slash) = 1 /\ slash[1] = Slash
  OBVIOUS
<1>6. /\ asked' = IF Ended(w) THEN w ELSE w \o slash
      /\ current_dir' = IF Ended(a) THEN a ELSE Take(a \o slash, P)
      /\ table' = table /\ result' = result
  BY <1>4 DEF ChangeDir, Appended
<1> HIDE DEF P, w, slash
<1>7. /\ a \in Seq(V) /\ Len(a) = (IF Len(w) < P THEN Len(w) ELSE P)
      /\ (Len(w) <= P => a = w)
      /\ Take(a \o slash, P) = Take(w \o slash, P)
  BY <1>2, <1>3, <1>5, TakeFacts, TakeOfAppended
<1>8. /\ w \o slash \in Seq(V) /\ Len(w \o slash) = Len(w) + 1
      /\ \A j \in 1..Len(w) : (w \o slash)[j] = w[j]
  <2> HIDE DEF V
  <2>1. w \in Seq(V) /\ slash \in Seq(V)
    BY <1>3, <1>5
  <2>2. /\ w \o slash \in Seq(V)
        /\ Len(w \o slash) = Len(w) + Len(slash)
        /\ \A j \in 1..Len(w) : (w \o slash)[j] = w[j]
    BY <2>1, ConcatBeginning
  <2>. QED BY <1>5, <2>2
<1>9. AskedIsAbsolute'
  <2>1. CASE Ended(w)
    BY <1>3, <1>6, <2>1 DEF AskedIsAbsolute, Strings
  <2>2. CASE ~ Ended(w)
    <3>1. 1 \in 1..Len(w)
      BY <1>3
    <3>. QED BY <1>3, <1>6, <1>8, <2>2, <3>1 DEF AskedIsAbsolute, Strings
  <2>. QED BY <2>1, <2>2
<1>10. ASSUME Len(w) > P
       PROVE  Take(a \o slash, P) = a
  <2> DEFINE x == w \o slash
             y == Take(x, P)
  <2>1. x \in Seq(V) /\ Len(x) > P /\ Len(x) \in Nat /\ (\A j \in 1..Len(w) : x[j] = w[j])
    BY <1>2, <1>3, <1>8, <1>10
  <2> HIDE DEF x
  <2>2. /\ y \in Seq(V) /\ Len(y) = (IF Len(x) < P THEN Len(x) ELSE P)
        /\ \A j \in 1..Len(y) : y[j] = x[j]
    BY <1>2, <2>1, TakeFacts
  <2>3. /\ a \in Seq(V) /\ Len(a) = (IF Len(w) < P THEN Len(w) ELSE P)
        /\ \A j \in 1..Len(a) : a[j] = w[j]
    BY <1>2, <1>3, TakeFacts
  <2> HIDE DEF a, y
  <2>4. Len(y) = P /\ Len(a) = P
    BY <1>2, <1>3, <1>10, <2>1, <2>2, <2>3
  <2>5. \A j \in 1..Len(y) : y[j] = a[j]
    BY <1>2, <1>3, <1>10, <2>1, <2>2, <2>3, <2>4
  <2>6. y = a
    BY <2>2, <2>3, <2>4, <2>5, SameElements
  <2>. QED BY <1>7, <2>6 DEF x, y
<1>11. current_dir' = Take(asked', P)
  <2>1. CASE Len(w) <= P
    <3>1. a = w
      BY <1>7, <2>1
    <3>2. CASE Ended(w)
      BY <1>6, <3>1, <3>2
    <3>3. CASE ~ Ended(w)
      BY <1>6, <3>1, <3>3
    <3>. QED BY <3>2, <3>3
  <2>2. CASE ~ (Len(w) <= P)
    <3>1. Take(w \o slash, P) = a
      BY <1>2, <1>3, <1>7, <1>10, <2>2
    <3>2. Take(asked', P) = a
      BY <1>6, <3>1
    <3>3. current_dir' = a
      BY <1>6, <1>7, <3>1
    <3>. QED BY <3>2, <3>3
  <2>. QED BY <2>1, <2>2
<1>12. DirectoryAsAsked'
  BY <1>11 DEF DirectoryAsAsked, P
<1>13. TableMounted' /\ LeadsWhereNamed'
  <2>1. TableMounted /\ LeadsWhereNamed
    BY DEF RouterInv
  <2>. QED BY <1>6, <2>1 DEF TableMounted, LeadsWhereNamed, OpensWhatIsNamed, ListsWhatIsNamed
<1>. QED BY <1>9, <1>12, <1>13 DEF RouterInv

\* The path that a command builds is absolute, and it is what its user means if
\* that fits.
LEMMA PathFacts ==
    ASSUME AskedIsAbsolute, DirectoryAsAsked, NEW arg \in Typed
    PROVE  /\ AbsolutePath(arg) \in Strings
           /\ Len(AbsolutePath(arg)) >= 1
           /\ AbsolutePath(arg)[1] = Slash
           /\ Len(Wanted(arg)) < PathSize => AbsolutePath(arg) = Wanted(arg)
<1> DEFINE P == PathSize - 1
           w == Wanted(arg)
           a == AbsolutePath(arg)
<1>1. P \in Nat /\ P >= 1 /\ PathSize \in Nat
  BY RouterAssumption
<1>2. w \in Seq(Chars \cup {Slash}) /\ Len(w) \in Nat /\ Len(w) >= 1 /\ w[1] = Slash
  BY WantedFacts DEF Strings
<1>3. a = Take(w, P)
  BY PathIsWantedCut
<1> HIDE DEF a, w
<1>4. /\ a \in Seq(Chars \cup {Slash})
      /\ Len(a) = (IF Len(w) < P THEN Len(w) ELSE P)
      /\ \A k \in 1..Len(a) : a[k] = w[k]
      /\ Len(w) <= P => a = w
  BY <1>1, <1>2, <1>3, TakeFacts
<1>5. Len(a) >= 1
  BY <1>1, <1>2, <1>4
<1>6. 1 \in 1..Len(a)
  BY <1>4, <1>5
<1>7. a[1] = Slash
  BY <1>2, <1>4, <1>6
<1>8. Len(w) < PathSize => a = w
  BY <1>1, <1>2, <1>4
<1>. QED BY <1>4, <1>5, <1>7, <1>8 DEF a, w, Strings

\* cat, hexdump and run reach the file that is named.
LEMMA OpenStep ==
    ASSUME RouterInv, NEW arg \in Args, Open(arg)
    PROVE  RouterInv'
<1> DEFINE w == Wanted(arg)
           got == ReadFile(AbsolutePath(arg))
<1>1. /\ AskedIsAbsolute /\ DirectoryAsAsked /\ TableMounted /\ arg \in Typed
  BY DEF RouterInv, Typed
<1>2. /\ result'.command = "open" /\ result'.wanted = w /\ result'.got = got
      /\ table' = table /\ current_dir' = current_dir /\ asked' = asked
  BY DEF Open
<1>3. AskedIsAbsolute' /\ DirectoryAsAsked' /\ TableMounted'
  BY <1>1, <1>2 DEF AskedIsAbsolute, DirectoryAsAsked, TableMounted
<1>4. ASSUME Len(w) < PathSize
      PROVE  {f \in Named(w) : f.name \in Files[f.fs]} = IF got = Nothing THEN {} ELSE {got}
  <2>1. AbsolutePath(arg) = w /\ w \in Strings /\ Len(w) >= 1 /\ w[1] = Slash
    BY <1>1, <1>4, PathFacts, WantedFacts
  <2>2. got = ReadFile(w)
    BY <2>1
  <2> HIDE DEF w, got
  <2>. QED BY <1>1, <2>1, <2>2, ReadsWhatIsNamed
<1> HIDE DEF w, got
<1>5. LeadsWhereNamed'
  BY <1>2, <1>4 DEF LeadsWhereNamed, OpensWhatIsNamed
<1>. QED BY <1>3, <1>5 DEF RouterInv

\* A listing of an absolute path that fits is that of what is named.
LEMMA ListsAsWanted ==
    ASSUME TableMounted, NEW w \in Strings, Len(w) >= 1, w[1] = Slash,
           result' = [command |-> "list", wanted |-> w, got |-> ListFiles(w)]
    PROVE  LeadsWhereNamed'
<1> DEFINE got == ListFiles(w)
<1>1. result'.command = "list" /\ result'.wanted = w /\ result'.got = got
  OBVIOUS
<1>2. ASSUME w = <<Slash>> PROVE got = RootListing
  BY <1>2 DEF ListFiles
<1>3. ASSUME w # <<Slash>>
      PROVE  {f.fs : f \in Named(w)} = IF got = Nothing THEN {} ELSE {got.fs}
  BY <1>3, ListsWhatIsReached
<1> HIDE DEF got
<1>. QED BY <1>1, <1>2, <1>3 DEF LeadsWhereNamed, ListsWhatIsNamed

LEMMA ListStep ==
    ASSUME RouterInv, NEW arg \in Args, List(arg)
    PROVE  RouterInv'
<1> DEFINE w == Wanted(arg)
           got == ListFiles(AbsolutePath(arg))
<1>1. /\ AskedIsAbsolute /\ DirectoryAsAsked /\ TableMounted /\ arg \in Typed
  BY DEF RouterInv, Typed
<1>2. /\ result' = [command |-> "list", wanted |-> w, got |-> got]
      /\ table' = table /\ current_dir' = current_dir /\ asked' = asked
  BY DEF List
<1>3. AskedIsAbsolute' /\ DirectoryAsAsked' /\ TableMounted'
  BY <1>1, <1>2 DEF AskedIsAbsolute, DirectoryAsAsked, TableMounted
<1>4. w \in Strings /\ Len(w) >= 1 /\ w[1] = Slash
  BY <1>1, WantedFacts
<1>5. Len(w) < PathSize => AbsolutePath(arg) = w
  BY <1>1, PathFacts
<1> HIDE DEF w
<1>6. CASE Len(w) < PathSize
  <2>1. LeadsWhereNamed'
    BY <1>1, <1>2, <1>4, <1>5, <1>6, ListsAsWanted
  <2>. QED BY <1>3, <2>1 DEF RouterInv
<1>7. CASE ~ (Len(w) < PathSize)
  <2>1. LeadsWhereNamed'
    BY <1>2, <1>7 DEF LeadsWhereNamed
  <2>. QED BY <1>3, <2>1 DEF RouterInv
<1>. QED BY <1>6, <1>7

LEMMA ListHereStep ==
    ASSUME RouterInv, ListHere
    PROVE  RouterInv'
<1> DEFINE P == PathSize - 1
           here == Appended(<<>>, current_dir)
<1>1. AskedIsAbsolute /\ DirectoryAsAsked /\ TableMounted
  BY DEF RouterInv
<1>2. /\ result' = [command |-> "list", wanted |-> asked, got |-> ListFiles(here)]
      /\ table' = table /\ current_dir' = current_dir /\ asked' = asked
  BY DEF ListHere
<1>3. AskedIsAbsolute' /\ DirectoryAsAsked' /\ TableMounted'
  BY <1>1, <1>2 DEF AskedIsAbsolute, DirectoryAsAsked, TableMounted
<1>4. P \in Nat /\ PathSize \in Nat
  BY RouterAssumption
<1>5. asked \in Seq(Chars \cup {Slash}) /\ Len(asked) \in Nat /\ Len(asked) >= 1 /\ asked[1] = Slash
  BY <1>1 DEF AskedIsAbsolute, Strings
<1>6. ASSUME Len(asked) < PathSize PROVE here = asked
  <2>1. Len(asked) <= P
    BY <1>4, <1>5, <1>6
  <2>2. current_dir = Take(asked, P)
    BY <1>1 DEF DirectoryAsAsked
  <2>3. here = Take(<<>> \o current_dir, P)
    BY DEF Appended
  <2> HIDE DEF P, here
  <2>4. Take(asked, P) = asked
    BY <1>4, <1>5, <2>1, TakeFacts
  <2>5. <<>> \o asked = asked
    BY <1>5
  <2>. QED BY <2>2, <2>3, <2>4, <2>5
<1> HIDE DEF here
<1>7. CASE Len(asked) < PathSize
  <2>1. LeadsWhereNamed'
    BY <1>1, <1>2, <1>5, <1>6, <1>7, ListsAsWanted DEF Strings
  <2>. QED BY <1>3, <2>1 DEF RouterInv
<1>8. CASE ~ (Len(asked) < PathSize)
  <2>1. LeadsWhereNamed'
    BY <1>2, <1>8 DEF LeadsWhereNamed
  <2>. QED BY <1>3, <2>1 DEF RouterInv
<1>. QED BY <1>7, <1>8

\* A step that leaves the router alone.
LEMMA RouterIdle ==
    ASSUME RouterInv, UNCHANGED rvars
    PROVE  RouterInv'
  BY DEF RouterInv, rvars, AskedIsAbsolute, DirectoryAsAsked, TableMounted, LeadsWhereNamed,
         OpensWhatIsNamed, ListsWhatIsNamed

LEMMA RouterInvInit == Init => RouterInv
<1> SUFFICES ASSUME Init PROVE RouterInv
  OBVIOUS
<1> DEFINE slash == <<Slash>>
           P == PathSize - 1
<1>1. /\ table = BootTable /\ current_dir = slash /\ asked = slash /\ result = NoCommand
  BY DEF Init
<1>2. slash \in Seq(Chars \cup {Slash}) /\ Len(slash) = 1 /\ slash[1] = Slash
  OBVIOUS
<1>3. P \in Nat /\ P >= 1
  BY RouterAssumption
<1> HIDE DEF slash, P
<1>4. AskedIsAbsolute
  BY <1>1, <1>2 DEF AskedIsAbsolute, Strings
<1>5. Take(slash, P) = slash
  BY <1>2, <1>3, TakeFacts
<1>6. DirectoryAsAsked
  BY <1>1, <1>5 DEF DirectoryAsAsked, P
<1>7. TableMounted
  BY <1>1, BootTableHasAll DEF TableMounted
<1>8. LeadsWhereNamed
  BY <1>1 DEF LeadsWhereNamed, NoCommand
<1>. QED BY <1>4, <1>6, <1>7, <1>8 DEF RouterInv

LEMMA RouterInvNext ==
    ASSUME RouterInv, Next
    PROVE  RouterInv'
<1>1. CASE ChangeDir(<<Slash>>)
  <2>1. <<Slash>> \in Typed
    BY DEF Typed
  <2>. QED BY <1>1, <2>1, ChangeDirStep
<1>2. ASSUME NEW arg \in Args, ChangeDir(arg) PROVE RouterInv'
  BY <1>2, ChangeDirStep DEF Typed
<1>3. ASSUME NEW arg \in Args, Open(arg) PROVE RouterInv'
  BY <1>3, OpenStep
<1>4. ASSUME NEW arg \in Args, List(arg) PROVE RouterInv'
  BY <1>4, ListStep
<1>5. CASE ListHere
  BY <1>5, ListHereStep
<1>. QED BY <1>1, <1>2, <1>3, <1>4, <1>5 DEF Next

-----------------------------------------------------------------------------
(* Programs: what run leaves in the buffer and in the process table. *)

Process == [used : BOOLEAN, latest : BOOLEAN, named : SUBSET AllFiles]

ProgramsInv ==
    /\ RouterInv
    /\ file_buffer \in [1..RunSize -> Bytes \cup {Zero}]
    /\ processes \in [1..UserSlots -> Process]
    /\ LatestProgramIntact

\* A table over 1..n is a sequence.
LEMMA TableIsSeq ==
    ASSUME NEW n \in Nat, NEW V, NEW f \in [1..n -> V]
    PROVE  f \in Seq(V) /\ Len(f) = n
  OBVIOUS

\* read_file of a path gives a file that exists, and one the path names if the
\* path was not cut.
LEMMA FileRead ==
    ASSUME RouterInv, NEW arg \in Args, ReadFile(AbsolutePath(arg)) # Nothing
    PROVE  /\ ReadFile(AbsolutePath(arg)) \in FilesNamed(Wanted(arg))
           /\ ReadFile(AbsolutePath(arg)).fs \in DOMAIN Files
           /\ ReadFile(AbsolutePath(arg)).name \in Files[ReadFile(AbsolutePath(arg)).fs]
<1> DEFINE path == AbsolutePath(arg)
           g == ReadFile(path)
<1>1. /\ AskedIsAbsolute /\ DirectoryAsAsked /\ TableMounted /\ arg \in Typed
  BY DEF RouterInv, Typed
<1>2. /\ path \in Strings /\ Len(path) >= 1 /\ path[1] = Slash
      /\ Len(Wanted(arg)) < PathSize => path = Wanted(arg)
  BY <1>1, PathFacts
<1> HIDE DEF path
<1>3. {f \in Named(path) : f.name \in Files[f.fs]} = {g}
  BY <1>1, <1>2, ReadsWhatIsNamed DEF path
<1> HIDE DEF g
<1>4. g \in Named(path) /\ g.name \in Files[g.fs]
  BY <1>3
<1>5. PICK k \in Reached(path) : g = InMount(path, k)
  BY <1>2, <1>4, NamedIsReached
<1>6. k \in Mounts /\ g.fs = MountFS(k) /\ g = File(g.fs, g.name)
  BY <1>5 DEF Reached, InMount, File
<1>7. g.fs \in DOMAIN Files
  BY <1>6, MountFacts
<1>8. g \in AllFiles
  BY <1>4, <1>6, <1>7 DEF AllFiles
<1>9. g \in FilesNamed(Wanted(arg))
  BY <1>2, <1>4, <1>8 DEF FilesNamed
<1>. QED BY <1>4, <1>7, <1>9 DEF g, path

\* A program that fits the buffer is read whole.
LEMMA ProgramRead ==
    ASSUME NEW g, g # Nothing, g.fs \in DOMAIN Files, g.name \in Files[g.fs]
    PROVE  /\ Contents[g.fs][g.name] \in Seq(Bytes)
           /\ Read(g) \in Seq(Bytes) /\ Len(Read(g)) <= RunSize
           /\ Len(Contents[g.fs][g.name]) <= RunSize => Read(g) = Contents[g.fs][g.name]
<1> DEFINE program == Contents[g.fs][g.name]
<1>1. RunSize \in Nat
  BY ProgramsAssumption
<1>2. /\ program \in Seq(Bytes)
      /\ g.fs \in Unbounded => Len(program) <= RunSize
  BY ProgramsAssumption
<1>3. Read(g) = IF g.fs \in Unbounded THEN program ELSE Take(program, RunSize)
  BY DEF Read
<1> HIDE DEF program
<1>4. /\ Take(program, RunSize) \in Seq(Bytes)
      /\ Len(Take(program, RunSize)) <= RunSize
      /\ Len(program) <= RunSize => Take(program, RunSize) = program
  BY <1>1, <1>2, TakeFacts
<1>. QED BY <1>2, <1>3, <1>4 DEF program

\* What is copied to the buffer is found at its beginning.
LEMMA BufferAfterRead ==
    ASSUME NEW old \in [1..RunSize -> Bytes \cup {Zero}], NEW bytes \in Seq(Bytes),
           Len(bytes) <= RunSize
    PROVE  /\ Overwritten(old, bytes) \in [1..RunSize -> Bytes \cup {Zero}]
           /\ Take(Overwritten(old, bytes), Len(bytes)) = bytes
<1> DEFINE new == Overwritten(old, bytes)
           V == Bytes \cup {Zero}
<1>1. RunSize \in Nat /\ Len(bytes) \in Nat /\ bytes \in Seq(V)
  BY ProgramsAssumption
<1>2. new = [k \in 1..RunSize |-> IF k <= Len(bytes) THEN bytes[k] ELSE old[k]]
  BY DEF Overwritten
<1>3. ASSUME NEW k \in 1..RunSize
      PROVE  (IF k <= Len(bytes) THEN bytes[k] ELSE old[k]) \in V
  <2>1. CASE k <= Len(bytes)
    <3>1. k \in 1..Len(bytes)
      BY <1>1, <2>1
    <3>. QED BY <2>1, <3>1
  <2>2. CASE ~ (k <= Len(bytes))
    BY <2>2
  <2>. QED BY <2>1, <2>2
<1> HIDE DEF new, V
<1>4. new \in [1..RunSize -> V]
  BY <1>2, <1>3
<1>5. new \in Seq(V) /\ Len(new) = RunSize
  BY <1>1, <1>4, TableIsSeq
<1> DEFINE t == Take(new, Len(bytes))
<1>6. /\ t \in Seq(V)
      /\ Len(t) = (IF Len(new) < Len(bytes) THEN Len(new) ELSE Len(bytes))
      /\ \A k \in 1..Len(t) : t[k] = new[k]
  BY <1>1, <1>5, TakeFacts
<1> HIDE DEF t
<1>7. Len(t) = Len(bytes)
  BY <1>1, <1>5, <1>6
<1>8. ASSUME NEW k \in 1..Len(t) PROVE t[k] = bytes[k]
  <2>1. k \in 1..RunSize /\ k <= Len(bytes)
    BY <1>1, <1>7
  <2>. QED BY <1>2, <1>6, <2>1
<1>9. t = bytes
  BY <1>1, <1>6, <1>7, <1>8, SameElements
<1>. QED BY <1>4, <1>9 DEF new, V, t

\* create_process changes one slot that was free, or nothing.
LEMMA CreatedSlot ==
    ASSUME NEW p, NEW process
    PROVE  \/ Created(p, process) = p
           \/ \E s \in 1..UserSlots : Created(p, process) = [p EXCEPT ![s] = process]
<1> DEFINE free == {s \in 1..UserSlots : p[s] = Unused}
           slot == CHOOSE s \in free : \A t \in free : s <= t
<1>1. CASE free = {}
  BY <1>1 DEF Created
<1>2. CASE free # {}
  <2>1. Created(p, process) = [p EXCEPT ![slot] = process]
    BY <1>2 DEF Created
  <2>2. slot \in 1..UserSlots
    <3>1. free \in SUBSET Nat
      BY ProgramsAssumption
    <3>2. PICK x \in free : \A y \in free : x <= y
      <4> HIDE DEF free
      <4>. QED BY <1>2, <3>1, LeastNatural
    <3>3. slot \in free
      <4> HIDE DEF free
      <4>. QED BY <3>2
    <3>. QED BY <3>3
  <2> HIDE DEF slot
  <2>. QED BY <2>1, <2>2
<1>. QED BY <1>1, <1>2

\* Some file that was named has its whole program in the buffer.
Whole(N, buffer) ==
    \E f \in N :
        LET program == Contents[f.fs][f.name]
        IN  Len(program) <= RunSize => program = Take(buffer, Len(program))

\* One slot at most is that of the program read last, and if there is one the
\* program is whole.
OneLatest(table0, buffer) ==
    /\ \A s, t \in 1..UserSlots : table0[s].latest /\ table0[t].latest => s = t
    /\ \A s \in 1..UserSlots : table0[s].latest => Whole(table0[s].named, buffer)

LEMMA IntactIsOneLatest == LatestProgramIntact <=> OneLatest(processes, file_buffer)
  BY DEF LatestProgramIntact, OneLatest, Whole

\* A slot whose program is not the last one read can be put anywhere.
LEMMA NotLatest ==
    ASSUME NEW p \in [1..UserSlots -> Process], NEW buffer, OneLatest(p, buffer),
           NEW s \in 1..UserSlots, NEW x \in Process, x.latest = FALSE
    PROVE  /\ [p EXCEPT ![s] = x] \in [1..UserSlots -> Process]
           /\ OneLatest([p EXCEPT ![s] = x], buffer)
<1> DEFINE q == [p EXCEPT ![s] = x]
<1>1. q \in [1..UserSlots -> Process]
  OBVIOUS
<1>2. q[s] = x /\ \A t \in 1..UserSlots : t # s => q[t] = p[t]
  OBVIOUS
<1> HIDE DEF q
<1>3. ~ q[s].latest
  BY <1>2
<1>4. ASSUME NEW t \in 1..UserSlots, q[t].latest PROVE t # s /\ q[t] = p[t]
  BY <1>2, <1>3, <1>4
<1>5. OneLatest(q, buffer)
  BY <1>4 DEF OneLatest
<1>. QED BY <1>1, <1>5 DEF q

LEMMA UnusedIsProcess ==
    /\ Unused \in Process /\ Unused.latest = FALSE
    /\ FromTest \in Process /\ FromTest.latest = FALSE
  BY DEF Unused, FromTest, Process

LEMMA RunFileStep ==
    ASSUME ProgramsInv, NEW arg \in ProgramArgs, RunFile(arg)
    PROVE  ProgramsInv'
<1> DEFINE g == ReadFile(AbsolutePath(arg))
           bytes == Read(g)
           N == FilesNamed(Wanted(arg))
           older == [s \in 1..UserSlots |-> Older(processes[s])]
<1>1. /\ RouterInv /\ arg \in Args
      /\ file_buffer \in [1..RunSize -> Bytes \cup {Zero}]
      /\ processes \in [1..UserSlots -> Process]
      /\ OneLatest(processes, file_buffer)
  BY IntactIsOneLatest, ProgramsAssumption DEF ProgramsInv
<1>2. /\ Open(arg)
      /\ file_buffer' = Overwritten(file_buffer, bytes)
      /\ processes' = IF bytes = <<>> THEN processes ELSE Created(older, FromFile(N))
  BY DEF RunFile
<1>3. RouterInv'
  BY <1>1, <1>2, OpenStep
<1>4. g # Nothing => g \in N /\ g.fs \in DOMAIN Files /\ g.name \in Files[g.fs]
  BY <1>1, FileRead
<1>5. bytes \in Seq(Bytes) /\ Len(bytes) <= RunSize
  <2>1. CASE g = Nothing
    <3>1. bytes = <<>>
      BY <2>1 DEF Read
    <3>2. <<>> \in Seq(Bytes) /\ Len(<<>>) = 0
      OBVIOUS
    <3>3. 0 <= RunSize
      BY ProgramsAssumption
    <3>. QED BY <3>1, <3>2, <3>3
  <2>2. CASE g # Nothing
    <3> HIDE DEF g
    <3>. QED BY <1>4, <2>2, ProgramRead
  <2>. QED BY <2>1, <2>2
<1>6. CASE bytes = <<>>
  <2>1. file_buffer' = file_buffer
    <3>1. \A k \in 1..RunSize : ~ (k <= Len(<<>>))
      BY ProgramsAssumption
    <3>2. Overwritten(file_buffer, <<>>) = file_buffer
      BY <1>1, <3>1 DEF Overwritten
    <3>. QED BY <1>2, <1>6, <3>2
  <2>2. processes' = processes
    BY <1>2, <1>6
  <2>. QED BY <1>1, <1>3, <2>1, <2>2 DEF ProgramsInv, OneLatest, Whole, LatestProgramIntact
<1>7. CASE bytes # <<>>
  <2>1. g # Nothing
    BY <1>7 DEF Read
  <2> HIDE DEF g
  <2>2. /\ file_buffer' \in [1..RunSize -> Bytes \cup {Zero}]
        /\ Take(file_buffer', Len(bytes)) = bytes
    <3> HIDE DEF bytes
    <3>. QED BY <1>1, <1>2, <1>5, BufferAfterRead
  <2>3. Whole(N, file_buffer')
    <3>1. /\ Len(Contents[g.fs][g.name]) <= RunSize => bytes = Contents[g.fs][g.name]
          /\ g \in N
      BY <1>4, <2>1, ProgramRead
    <3> HIDE DEF bytes, N
    <3>. QED BY <2>2, <3>1 DEF Whole
  <2>4. N \in SUBSET AllFiles
    BY DEF FilesNamed
  <2> HIDE DEF N
  <2>5. older \in [1..UserSlots -> Process] /\ (\A s \in 1..UserSlots : ~ older[s].latest)
    <3>1. ASSUME NEW s \in 1..UserSlots PROVE Older(processes[s]) \in Process /\ ~ Older(processes[s]).latest
      BY <1>1 DEF Older, Process
    <3>. QED BY <3>1
  <2>6. FromFile(N) \in Process /\ FromFile(N).named = N
    BY <2>4 DEF FromFile, Process
  <2>7. processes' = Created(older, FromFile(N))
    BY <1>2, <1>7
  <2> HIDE DEF older
  <2>8. CASE processes' = older
    <3>1. OneLatest(processes', file_buffer')
      BY <2>5, <2>8 DEF OneLatest
    <3>. QED BY <1>3, <2>2, <2>5, <2>8, <3>1, IntactIsOneLatest
            DEF ProgramsInv, OneLatest, LatestProgramIntact, Whole
  <2>9. ASSUME NEW s \in 1..UserSlots, processes' = [older EXCEPT ![s] = FromFile(N)]
        PROVE  ProgramsInv'
    <3>1. /\ processes' \in [1..UserSlots -> Process]
          /\ processes'[s] = FromFile(N)
          /\ \A t \in 1..UserSlots : t # s => processes'[t] = older[t]
      BY <2>5, <2>6, <2>9
    <3>2. \A t \in 1..UserSlots : processes'[t].latest => t = s
      BY <2>5, <3>1
    <3>3. OneLatest(processes', file_buffer')
      BY <2>3, <2>6, <3>1, <3>2 DEF OneLatest
    <3>. QED BY <1>3, <2>2, <3>1, <3>3 DEF ProgramsInv, OneLatest, LatestProgramIntact, Whole
  <2>. QED BY <2>7, <2>8, <2>9, CreatedSlot
<1>. QED BY <1>6, <1>7

LEMMA RunTestStep ==
    ASSUME ProgramsInv, NEW n \in TestNumbers, RunTest(n)
    PROVE  ProgramsInv'
<1>1. /\ RouterInv /\ UNCHANGED rvars /\ file_buffer' = file_buffer
      /\ file_buffer \in [1..RunSize -> Bytes \cup {Zero}]
      /\ processes \in [1..UserSlots -> Process]
      /\ OneLatest(processes, file_buffer)
  BY IntactIsOneLatest DEF ProgramsInv, RunTest
<1>2. processes' = processes \/ processes' = Created(processes, FromTest)
  BY DEF RunTest
<1>3. /\ processes' \in [1..UserSlots -> Process]
      /\ OneLatest(processes', file_buffer')
  <2>1. CASE processes' = processes
    BY <1>1, <2>1
  <2>2. ASSUME NEW s \in 1..UserSlots, processes' = [processes EXCEPT ![s] = FromTest]
        PROVE  processes' \in [1..UserSlots -> Process] /\ OneLatest(processes', file_buffer')
    <3>1. FromTest \in Process /\ FromTest.latest = FALSE
      BY UnusedIsProcess
    <3>. QED BY <1>1, <2>2, <3>1, NotLatest
  <2>. QED BY <1>2, <2>1, <2>2, CreatedSlot
<1>. QED BY <1>1, <1>3, RouterIdle DEF ProgramsInv, OneLatest, LatestProgramIntact, Whole

LEMMA EndStep ==
    ASSUME ProgramsInv, NEW s \in 1..UserSlots, End(s)
    PROVE  ProgramsInv'
<1>1. /\ RouterInv /\ UNCHANGED rvars /\ file_buffer' = file_buffer
      /\ file_buffer \in [1..RunSize -> Bytes \cup {Zero}]
      /\ processes \in [1..UserSlots -> Process]
      /\ OneLatest(processes, file_buffer)
      /\ processes' = [processes EXCEPT ![s] = Unused]
  BY IntactIsOneLatest DEF ProgramsInv, End
<1>2. processes' \in [1..UserSlots -> Process] /\ OneLatest(processes', file_buffer')
  <2>1. Unused \in Process /\ Unused.latest = FALSE
    BY UnusedIsProcess
  <2>. QED BY <1>1, <2>1, NotLatest
<1>. QED BY <1>1, <1>2, RouterIdle DEF ProgramsInv, OneLatest, LatestProgramIntact, Whole

LEMMA ProgramsInvInit == ProgramsInit => ProgramsInv
<1> SUFFICES ASSUME ProgramsInit PROVE ProgramsInv
  OBVIOUS
<1>1. RouterInv
  BY RouterInvInit DEF ProgramsInit
<1>2. /\ file_buffer \in [1..RunSize -> Bytes \cup {Zero}]
      /\ processes = [s \in 1..UserSlots |-> Unused]
  BY DEF ProgramsInit
<1>3. processes \in [1..UserSlots -> Process] /\ \A s \in 1..UserSlots : ~ processes[s].latest
  <2>1. Unused \in Process /\ ~ Unused.latest
    BY UnusedIsProcess
  <2>. QED BY <1>2, <2>1
<1>4. LatestProgramIntact
  BY <1>3 DEF LatestProgramIntact
<1>. QED BY <1>1, <1>2, <1>3, <1>4 DEF ProgramsInv

LEMMA ProgramsInvNext == ProgramsInv /\ [ProgramsNext]_pvars => ProgramsInv'
<1> SUFFICES ASSUME ProgramsInv, [ProgramsNext]_pvars PROVE ProgramsInv'
  OBVIOUS
<1>1. CASE Next /\ UNCHANGED <<file_buffer, processes>>
  <2>1. RouterInv'
    BY <1>1, RouterInvNext DEF ProgramsInv
  <2>. QED BY <1>1, <2>1 DEF ProgramsInv, LatestProgramIntact
<1>2. ASSUME NEW arg \in ProgramArgs, RunFile(arg) PROVE ProgramsInv'
  BY <1>2, RunFileStep
<1>3. ASSUME NEW n \in TestNumbers, RunTest(n) PROVE ProgramsInv'
  BY <1>3, RunTestStep
<1>4. ASSUME NEW s \in 1..UserSlots, End(s) PROVE ProgramsInv'
  BY <1>4, EndStep
<1>5. CASE UNCHANGED pvars
  <2>1. UNCHANGED rvars /\ file_buffer' = file_buffer /\ processes' = processes
    BY <1>5 DEF pvars
  <2>2. RouterInv'
    BY <2>1, RouterIdle DEF ProgramsInv
  <2>. QED BY <2>1, <2>2 DEF ProgramsInv, LatestProgramIntact
<1>. QED BY <1>1, <1>2, <1>3, <1>4, <1>5 DEF ProgramsNext

LEMMA ProgramsInvAlways == ProgramsSpec => []ProgramsInv
  BY ProgramsInvInit, ProgramsInvNext, PTL DEF ProgramsSpec

-----------------------------------------------------------------------------
(* The theorems. *)

\* The current directory is an absolute path that fits its buffer, and every
\* mount has a directory of its own.
THEOREM RouterTypeCorrect == ProgramsSpec => []TypeOK
<1>1. RouterInv => TypeOK
  <2> SUFFICES ASSUME RouterInv PROVE TypeOK
    OBVIOUS
  <2> DEFINE P == PathSize - 1
  <2>1. /\ asked \in Seq(Chars \cup {Slash}) /\ Len(asked) >= 1 /\ Len(asked) \in Nat
        /\ asked[1] = Slash
        /\ current_dir = Take(asked, P) /\ TableMounted
    BY DEF RouterInv, AskedIsAbsolute, DirectoryAsAsked, Strings
  <2>2. P \in Nat /\ P >= 1
    BY RouterAssumption
  <2> HIDE DEF P
  <2>3. /\ current_dir \in Seq(Chars \cup {Slash})
        /\ Len(current_dir) = (IF Len(asked) < P THEN Len(asked) ELSE P)
        /\ \A k \in 1..Len(current_dir) : current_dir[k] = asked[k]
    BY <2>1, <2>2, TakeFacts
  <2>4. Len(current_dir) \in 1..P
    BY <2>1, <2>2, <2>3
  <2>5. current_dir[1] = Slash
    <3>1. 1 \in 1..Len(current_dir)
      BY <2>2, <2>4
    <3>. QED BY <2>1, <2>3, <3>1
  <2>6. ASSUME NEW i \in 1..TableSize PROVE table[i].fs = NoFS \/ Len(table[i].dir) > 1
    <3>1. CASE i \in Mounts
      <4>1. table[i] = [fs |-> MountFS(i), dir |-> MountDir(i)]
        BY <2>1, <3>1, MountEntry
      <4>2. Len(MountDir(i)) \in Nat /\ 2 <= Len(MountDir(i))
        BY <3>1, MountFacts
      <4>. QED BY <4>1, <4>2
    <3>2. CASE i \notin Mounts
      BY <2>1, <3>2, MountEntry
    <3>. QED BY <3>1, <3>2
  <2>. QED BY <2>3, <2>4, <2>5, <2>6 DEF TypeOK, Strings, P
<1>2. ProgramsInv => TypeOK
  BY <1>1 DEF ProgramsInv
<1>. QED BY <1>2, ProgramsInvAlways, PTL

\* However often cd is typed and cut, the current directory is the beginning of
\* what was asked for.
THEOREM DirectoryIsAsked == ProgramsSpec => []DirectoryAsAsked
<1>1. ProgramsInv => DirectoryAsAsked
  BY DEF ProgramsInv, RouterInv
<1>. QED BY <1>1, ProgramsInvAlways, PTL

\* A path that fits reaches the file it names, from every current directory, and
\* a listing is that of the file system it leads to.
THEOREM AlwaysLeadsWhereNamed == ProgramsSpec => []LeadsWhereNamed
<1>1. ProgramsInv => LeadsWhereNamed
  BY DEF ProgramsInv, RouterInv
<1>. QED BY <1>1, ProgramsInvAlways, PTL

\* Until another program is read, the process of the last one finds it whole in
\* the buffer that all of them share.
THEOREM LatestStaysIntact == ProgramsSpec => []LatestProgramIntact
<1>1. ProgramsInv => LatestProgramIntact
  BY DEF ProgramsInv
<1>. QED BY <1>1, ProgramsInvAlways, PTL
=============================================================================
