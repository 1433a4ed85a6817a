------------------------------ MODULE Terminal ------------------------------
(***************************************************************************)
(* shell/terminal.c: a window of the VGA display over a ring of lines.      *)
(* There are two such windows; they share nothing but the display, on rows *)
(* of their own.  KernelStdio prints on them.                              *)
(***************************************************************************)
EXTENDS Integers, Sequences

CONSTANTS
    MaxX, MaxY,        \* TERMINAL_MAX_X, TERMINAL_MAX_Y: the ring's size
    WindowPosition,    \* window_position_y
    WindowSize,        \* window_size_y
    InputLength,       \* cells of the input line drawn below the text; 0 if disabled
    NewLine,           \* \n and \r
    Backspace,         \* 8 and 0x7f
    Blank, Nul,        \* space, and the zero of a fresh line
    Chars,             \* the other characters
    Strings            \* bound of the model: what is printed in one call

ASSUME TerminalAssumption ==
    /\ MaxX \in Nat \ {0}
    /\ MaxY \in Nat
    /\ WindowPosition \in Nat
    /\ WindowSize \in 1..(MaxY - 2)    \* 17 and 5, of 25
    /\ InputLength \in 0..MaxX
    /\ NewLine # Backspace
    /\ Strings \subseteq Seq(Chars \cup {NewLine, Backspace, Blank})

VARIABLES
    buffer,    \* the ring of lines
    first,     \* current_first_line
    end,       \* current_end_line: one past the last line shown
    endX,      \* current_end_x
    screen     \* the characters on the display

tvars == <<buffer, first, end, endX, screen>>

Columns == 0..(MaxX - 1)
Lines   == 0..(MaxY - 1)
Rows    == 0..(WindowPosition + WindowSize + 1)

Printable == Chars \cup {NewLine, Backspace, Blank}
Content   == [Columns -> Chars \cup {Blank, Nul}]
NulLine   == [x \in Columns |-> Nul]
BlankLine == [x \in Columns |-> Blank]

\* Mutant: wraps around one line late.
NextLineLate(l) == IF l + 1 > MaxY THEN 0 ELSE l + 1

\* terminal_get_next_line_buffer
NextLine(l) == IF l + 1 >= MaxY THEN 0 ELSE l + 1

\* terminal_get_current_line_count
LineCount(t) == IF t.end >= t.first THEN t.end - t.first ELSE MaxY - t.first + t.end

\* Mutant: the line keeps what it held a ring ago.
LineOpenedStale(t) ==
    LET u == [t EXCEPT !.end = NextLine(@)]
    IN  IF LineCount(u) > WindowSize THEN [u EXCEPT !.first = NextLine(@)] ELSE u

\* terminal_get_next_free_line_buffer
LineOpened(t) ==
    LET u == [t EXCEPT !.buffer[t.end] = NulLine, !.end = NextLine(@)]
    IN  IF LineCount(u) > WindowSize THEN [u EXCEPT !.first = NextLine(@)] ELSE u

\* The line before the end, also when none is shown yet.
LastLine(t) == IF t.end = 0 THEN MaxY - 1 ELSE t.end - 1

\* Mutant: the window starts at the first line of the buffer.
RenderedFromZero(t) ==
    [t EXCEPT !.screen =
        [r \in Rows |-> IF r - WindowPosition \in 0..(LineCount(t) - 1)
                        THEN t.buffer[r - WindowPosition] ELSE @[r]]]

\* terminal_render_to_VGA: the lines from first to end, then the input line,
\* which is never written and holds zeros.
Rendered(t) ==
    [t EXCEPT !.screen =
        [r \in Rows |->
            LET k == r - WindowPosition
            IN  IF k \in 0..(LineCount(t) - 1) THEN t.buffer[(t.first + k) % MaxY]
                ELSE IF k = LineCount(t)
                THEN [x \in Columns |-> IF x < InputLength THEN Nul ELSE @[r][x]]
                ELSE @[r]]]

\* terminal_putchar.  A line break draws before it opens the line; a full line
\* makes any other character open one, a backspace too.
Put(t, c) ==
    LET u   == IF t.endX >= MaxX THEN LineOpened(t) ELSE t
        col == t.endX % MaxX
    IN  CASE c = NewLine -> [LineOpened(Rendered(t)) EXCEPT !.endX = 0]
          [] c = Backspace /\ col > 0 ->
                 [u EXCEPT !.buffer[LastLine(u)][col - 1] = Blank, !.endX = @ - 1]
          [] c = Backspace /\ col = 0 -> u
          [] OTHER -> [u EXCEPT !.buffer[LastLine(u)][col] = c, !.endX = col + 1]

\* terminal_print
Printed(t, string) ==
    LET after[k \in 0..Len(string)] == IF k = 0 THEN t ELSE Put(after[k - 1], string[k])
    IN  Rendered(after[Len(string)])

-----------------------------------------------------------------------------

Terminal == [buffer |-> buffer, first |-> first, end |-> end, endX |-> endX, screen |-> screen]

Become(t) ==
    /\ buffer' = t.buffer
    /\ first' = t.first
    /\ end' = t.end
    /\ endX' = t.endX
    /\ screen' = t.screen

\* terminal_init, once at boot
Init ==
    /\ buffer = [l \in Lines |-> BlankLine]
    /\ first = 0
    /\ end = 0
    /\ endX = 0
    /\ screen = [r \in Rows |->
                    IF r = WindowPosition
                    THEN [x \in Columns |-> IF x < InputLength THEN Nul ELSE Blank]
                    ELSE BlankLine]

\* kernel_putchar: a character and a redraw
KernelPutchar(c) == Become(Rendered(Put(Terminal, c)))

\* kernel_print, by terminal_print
KernelPrint(string) == Become(Printed(Terminal, string))

\* terminal_printline
PrintLine(string) == Become(Rendered(Put(Printed(Terminal, string), NewLine)))

-----------------------------------------------------------------------------
(* Properties *)

\* Every variable has its type, and the lines shown fit the window.
TypeOK ==
    /\ buffer \in [Lines -> Content]
    /\ first \in Lines /\ end \in Lines
    /\ endX \in 0..MaxX
    /\ screen \in [Rows -> Content]
    /\ LineCount(Terminal) <= WindowSize

Shown == [k \in 1..LineCount(Terminal) |-> buffer[(first + k - 1) % MaxY]]

\* After every call the window on the display is the text of the ring: no
\* character, line break or scroll is left undrawn, no row is stale, and nothing
\* is drawn outside the window, but for the input line, which is one row below it
\* once the window is full.
ScreenShows ==
    /\ \A k \in 1..Len(Shown) : screen[WindowPosition + k - 1] = Shown[k]
    /\ \A r \in Rows :
          r \notin WindowPosition..(WindowPosition + WindowSize) => screen[r] = BlankLine

Paper ==
    INSTANCE Teletype WITH
        Height <- WindowSize, Width <- MaxX, lines <- Shown, column <- endX

\* The ring implements a teletype with a sheet of the window's height: lines
\* move up one at a time, in order, and only the last one is written, however
\* often the ring has wrapped around.
ImplementsTeletype == Paper!Spec
=============================================================================
