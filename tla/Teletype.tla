------------------------------ MODULE Teletype ------------------------------
(***************************************************************************)
(* What a terminal window shows, without ring buffer and screen: the last  *)
(* Height lines of what was printed.  Only the last line changes; when     *)
(* there is one too many the oldest disappears.  Text printed before the   *)
(* first line break is never shown.  A backspace blanks the character      *)
(* before it on its line; after a full line it only starts another one, as *)
(* every character does.                                                   *)
(***************************************************************************)
EXTENDS Integers, Sequences

CONSTANTS
    Height,      \* lines shown
    Width,       \* characters of a line
    NewLine, Backspace, Blank, Nul,
    Chars,       \* the other characters
    Strings      \* what callers print in one call

VARIABLES
    lines,       \* the lines shown, oldest first; a line maps columns to characters
    column       \* where the next character goes

vars == <<lines, column>>

EmptyLine == [x \in 0..(Width - 1) |-> Nul]

LastLines(s, n) == IF Len(s) <= n THEN s ELSE SubSeq(s, Len(s) - n + 1, Len(s))

Scrolled(p) == [p EXCEPT !.lines = LastLines(Append(@, EmptyLine), Height)]

\* c at column x of the last line, if there is one.
Overwritten(s, x, c) == [k \in 1..Len(s) |-> IF k = Len(s) THEN [s[k] EXCEPT ![x] = c] ELSE s[k]]

Typed(p, c) ==
    CASE c = NewLine      -> [Scrolled(p) EXCEPT !.column = 0]
      [] c = Backspace    -> IF p.column = Width THEN Scrolled(p)
                             ELSE IF p.column = 0 THEN p
                             ELSE [lines |-> Overwritten(p.lines, p.column - 1, Blank),
                                   column |-> p.column - 1]
      [] OTHER -> LET q == IF p.column = Width THEN [Scrolled(p) EXCEPT !.column = 0] ELSE p
                  IN  [lines |-> Overwritten(q.lines, q.column, c), column |-> q.column + 1]

Printed(p, string) ==
    LET after[k \in 0..Len(string)] == IF k = 0 THEN p ELSE Typed(after[k - 1], string[k])
    IN  after[Len(string)]

Init == lines = <<>> /\ column = 0

Emit(string) ==
    LET p == Printed([lines |-> lines, column |-> column], string)
    IN  lines' = p.lines /\ column' = p.column

Next ==
    \/ \E c \in Chars \cup {NewLine, Backspace, Blank} : Emit(<<c>>)
    \/ \E string \in Strings : Emit(string) \/ Emit(Append(string, NewLine))

Spec == Init /\ [][Next]_vars
=============================================================================
