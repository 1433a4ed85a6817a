----------------------------- MODULE KernelStdio -----------------------------
(***************************************************************************)
(* kernel_stdio.c, and the dump of cmd_hexdump.c: formatted text, log      *)
(* lines and rows of memory printed on a terminal.  Both windows are       *)
(* instances of Terminal; the calls of either print on this one.           *)
(***************************************************************************)
EXTENDS Terminal

CONSTANTS
    WordRange, BufferSize, NumberSize, LongDigits, LogSize, LongMessage,
    RowBytes, Glyphs,
    DumpRows,      \* 8: the rows of a dump
    Memory,        \* what the addresses hold
    Addresses,     \* bound of the model: where dumps start
    Formats,       \* bound of the model: what kernel_printf is called with
    Stamps,        \* bound of the model: the timestamps read
    Messages,      \* bound of the model: what kernel_println and LOG are called with
    Characters     \* bound of the model: the characters printed on their own

INSTANCE Formatting

\* The number buffer holds the digits of every word, and the text buffer a number
\* and its sign.
ASSUME FormattingAssumption ==
    /\ WordRange \in Nat \ {0} /\ WordRange % 2 = 0
    /\ NumberSize \in Nat \ {0, 1} /\ LongDigits \in 1..NumberSize
    /\ Rest(WordRange - 1, 10)[NumberSize] = 0
    /\ Rest(WordRange - 1, 16)[LongDigits] = 0
    /\ BufferSize \in Nat /\ BufferSize > NumberSize + 1
    /\ LogSize \in Nat /\ LogSize > LongDigits + 2
    /\ LongMessage \in Nat
    /\ RowBytes \in Nat \ {0} /\ RowBytes % 2 = 0
    /\ DOMAIN Glyphs = 32..127

\* What is a character is not the zero that ends a string.
ASSUME CharactersAssumption ==
    Nul \notin Printable \cup Range(Glyphs) \cup Range(Lower) \cup Range(Upper)
                  \cup {"-", ":", ".", "|"}

\* Row r of the dump of what lies at an address.
DumpedRow(offset, r) ==
    LET address(k) == (offset + (r - 1) * RowBytes + (k - 1)) % WordRange
    IN  DumpRow(address(1), [k \in 1..RowBytes |-> Memory[address(k)]])

\* The rows of a dump as one string.
DumpText(offset) ==
    LET text[r \in 0..DumpRows] ==
            IF r = 0 THEN <<>> ELSE text[r - 1] \o Append(DumpedRow(offset, r), NewLine)
    IN  text[DumpRows]

ASSUME KernelStdioAssumption ==
    /\ DumpRows \in Nat \ {0}
    /\ Memory \in [Words -> 0..255]
    /\ Addresses \subseteq Words

\* %s takes a string, the numbers a word.
ASSUME FormatsAssumption ==
    \A format \in Formats :
        /\ format \in Seq(Range(format))
        /\ \A item \in Range(format) :
              /\ item.zero \in BOOLEAN /\ item.width \in Nat
              /\ item.conv = "s" => item.arg \in Seq(Printable)
              /\ item.conv \in {"d", "x", "X"} => item.arg \in Words

\* Strings holds what these calls print.
ASSUME StringsAssumption ==
    /\ Characters \subseteq Printable
    /\ Messages \subseteq Strings
    /\ \A format \in Formats : Formatted(format) \in Strings
    /\ \A stamp \in Stamps, message \in Messages : LogLine(stamp, message) \in Strings
    /\ \A address \in Addresses :
          /\ DumpText(address) \in Strings
          /\ \A r \in 1..DumpRows : DumpedRow(address, r) \in Seq(Printable)

\* kernel_printf
KernelPrintf(format) == KernelPrint(Formatted(format))

\* kernel_println: the line break in a call of its own
KernelPrintln(message) == Become(Printed(Printed(Terminal, message), <<NewLine>>))

\* LOG
Log(stamp, message) == PrintLine(LogLine(stamp, message))

\* execute__dump_data from an address on: the rows, each by kernel_println, and an
\* empty line.  Where a dump starts if no address is typed is not modelled.
Dump(offset) ==
    LET shown[r \in 0..DumpRows] ==
            IF r = 0 THEN Terminal
            ELSE Printed(Printed(shown[r - 1], DumpedRow(offset, r)), <<NewLine>>)
    IN  Become(Printed(shown[DumpRows], <<NewLine>>))

StdioNext ==
    \/ \E c \in Characters : KernelPutchar(c)
    \/ \E format \in Formats : KernelPrintf(format)
    \/ \E message \in Messages : KernelPrintln(message)
    \/ \E stamp \in Stamps, message \in Messages : Log(stamp, message)
    \/ \E address \in Addresses : Dump(address)

StdioSpec == Init /\ [][StdioNext]_tvars

-----------------------------------------------------------------------------
(* Properties *)

IsNumeral(s, digits) == s # <<>> /\ \A k \in 1..Len(s) : \E d \in 1..Len(digits) : s[k] = digits[d]

\* s is v as asked for: no digit too many, unless padded to the width.
Stands(s, v, base, digits, item) ==
    /\ IsNumeral(s, digits)
    /\ Value(s, base) = v
    /\ Len(s) >= (IF item.zero THEN item.width ELSE 0)
    /\ (s[1] = "0" /\ Len(s) > 1) => (item.zero /\ Len(s) = item.width)

Number(conv, zero, width, w) == <<[conv |-> conv, zero |-> zero, width |-> width, arg |-> w]>>

\* Widths up to the buffer, less the sign: zeros fill a number up to its width only
\* where the format has the flag and the number is not negative.  Of the least
\* integer no numeral is made.
NumbersReadBack ==
    \A w \in Words, zero \in BOOLEAN, width \in 0..(BufferSize - 2) :
        LET d == Number("d", zero, width, w)
            x == Number("x", zero, width, w)
            X == Number("X", zero, width, w)
            v == Signed(w)
        IN  /\ v >= 0 => Stands(Formatted(d), v, 10, Cut(Lower, 10), d[1])
            /\ v < 0 /\ v # IntMin =>
                  /\ Head(Formatted(d)) = "-"
                  /\ Stands(Tail(Formatted(d)), -v, 10, Cut(Lower, 10), Number("d", FALSE, 0, w)[1])
            /\ v = IntMin => ~IsNumeral(Tail(Formatted(d)), Cut(Lower, 10))
            /\ Stands(Formatted(x), w, 16, Lower, x[1])
            /\ Stands(Formatted(X), w, 16, Upper, X[1])

Zeros(n) == [i \in 1..n |-> "0"]

\* A message longer than LongMessage is cut to one character.  Of a negative time at
\* most some zeros are left; how a long message goes on behind them is not said.
LogReadsBack ==
    \A w \in Words, message \in Messages :
        LET l     == LogLine(w, message)
            stamp == Cut(l, LongDigits)
            shown == IF Len(message) > LongMessage THEN Cut(message, 1) ELSE message
        IN  IF Signed(w) >= 0
            THEN /\ Stands(stamp, w, 16, Upper, Number("X", TRUE, LongDigits, w)[1])
                 /\ l = Cut(stamp \o <<":", Blank>> \o shown, LogSize - 1)
            ELSE \/ Len(message) > LongMessage
                 \/ \E n \in 0..(LongDigits - 1) : l = Cut(Zeros(n) \o message, LogSize - 1)

\* The row of a negative address is some zeros.
DumpReadsBack ==
    \A w \in Words :
        LET bytes  == [k \in 1..RowBytes |-> (w + 37 * (k - 1)) % 256]
            row    == DumpRow(w, bytes)
            at(k)  == LongDigits + 3 * k + (IF 2 * k > RowBytes THEN 1 ELSE 0)
            two(b) == Number("X", TRUE, 2, b)[1]
        IN  IF Signed(w) >= 0
            THEN /\ Stands(Cut(row, LongDigits), w, 16, Upper, Number("X", TRUE, LongDigits, w)[1])
                 /\ \A k \in 1..RowBytes :
                       Stands(SubSeq(row, at(k), at(k) + 1), bytes[k], 16, Upper, two(bytes[k]))
            ELSE \E n \in 0..(LongDigits - 1) : row = Zeros(n)

EndsString(item) == \E k \in 1..Len(Converted(item)) : Converted(item)[k] = Nul

FitsTogether ==
    \A f, g \in Formats :
        /\ Len(Formatted(f \o g)) < BufferSize
        /\ Formatted(f \o g) = IF \E k \in 1..Len(f) : EndsString(f[k]) THEN Formatted(f)
                               ELSE Cut(Formatted(f) \o Formatted(g), BufferSize - 1)

\* What a call prints is made of the right parts.  kernel_printf: every number but the
\* least integer reads back as the number that was passed, with the sign of a negative
\* one; %0 with a width fills up numbers that are not negative, and no other number
\* has a digit too many, as a width without the zero is ignored.  The conversions of a format
\* follow each other unchanged, up to a zero byte that one of them writes, and are
\* cut only at the end of the buffer.  LOG: the time and then the message, of a long
\* message its first character; a negative time is lost.  dump: the address and then
\* the bytes; of a negative address nothing but zeros.
FormatsAsAsked ==
    [][/\ (NumbersReadBack /\ FitsTogether) \/ ~\E format \in Formats : KernelPrintf(format)
       /\ LogReadsBack \/ ~\E stamp \in Stamps, message \in Messages : Log(stamp, message)
       /\ DumpReadsBack \/ ~\E address \in Addresses : Dump(address)]_tvars
=============================================================================
