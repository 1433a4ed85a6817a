----------------------------- MODULE Formatting -----------------------------
(***************************************************************************)
(* The text that kernel_printf and LOG of kernel_stdio.c make, and the     *)
(* rows of a memory dump: numbers are written digit by digit into buffers  *)
(* of fixed size.  A format is the sequence of its conversions, each with  *)
(* its argument; a character of the format is the conversion "literal".    *)
(* Arguments are words.                                                    *)
(***************************************************************************)
EXTENDS Digits, SequencesExt

CONSTANTS
    WordRange,     \* 2^32: how many values an int or a long has
    BufferSize,    \* sizeof buffer of kernel_printf
    NumberSize,    \* sizeof numbuf
    LongDigits,    \* 8: the digits of a timestamp and of an address
    LogSize,       \* TERMINAL_MAX_X: sizeof str_with_timestamp
    LongMessage,   \* 100: strlen_unsafe_logless takes a longer message for empty
    RowBytes,      \* 16: the bytes of a row of a memory dump
    Glyphs,        \* the characters of the bytes 32 to 127
    Blank, Nul

IntMin == -(WordRange \div 2)
Words  == 0..(WordRange - 1)

Signed(w)  == IF w >= -IntMin THEN w + 2 * IntMin ELSE w
\* -val; as the build has it, the least integer is its own opposite.
Negated(v) == IF v = IntMin THEN v ELSE -v

\* Division and remainder of C round towards zero.
Quotient(v, base)  == IF v < 0 THEN -((-v) \div base) ELSE v \div base
Remainder(v, base) == v - base * Quotient(v, base)

\* '0' + d, 'a' + d - 10 and 'A' + d - 10; below '0' the code has these.
BelowNil == <<"/", ".", "-", ",", "+", "*", ")", "(", "'">>

DigitChar(digits, d) == IF d < 0 THEN BelowNil[-d] ELSE digits[d + 1]

\* What is left of v after k digits are split off its end.
Rest(v, base) ==
    LET rest[k \in 0..NumberSize] == IF k = 0 THEN v ELSE Quotient(rest[k - 1], base)
    IN  rest

\* Mutant: the loop ends before the first digit is written.
DigitCountNoLess(v, base) ==
    CHOOSE n \in 0..NumberSize :
        /\ n = NumberSize \/ Rest(v, base)[n] = 0
        /\ \A k \in 0..(n - 1) : Rest(v, base)[k] # 0

\* The digits written: until nothing is left, at least one.
DigitCount(v, base) ==
    CHOOSE n \in 1..NumberSize :
        /\ n = NumberSize \/ Rest(v, base)[n] = 0
        /\ \A k \in 1..(n - 1) : Rest(v, base)[k] # 0

Numeral(v, base, digits) ==
    LET n == DigitCount(v, base)
    IN  [i \in 1..n |-> DigitChar(digits, Remainder(Rest(v, base)[n - i], base))]

Padded(numeral, item) ==
    IF item.zero /\ item.width > Len(numeral)
    THEN [i \in 1..(item.width - Len(numeral)) |-> "0"] \o numeral ELSE numeral

\* print_decimal: a negative number is not padded.
Decimal(item) ==
    LET v == Signed(item.arg)
    IN  IF v < 0 THEN <<"-">> \o Numeral(Negated(v), 10, Lower)
        ELSE Padded(Numeral(v, 10, Lower), item)

\* print_hex
Hex(item, digits) == Padded(Numeral(item.arg, 16, digits), item)

\* An unknown conversion, also %%, is written as it stands, without its width.
Converted(item) ==
    CASE item.conv = "s" -> item.arg
      [] item.conv = "d" -> Decimal(item)
      [] item.conv = "x" -> Hex(item, Lower)
      [] item.conv = "X" -> Hex(item, Upper)
      [] item.conv \in {"c", "literal"} -> <<item.arg>>
      [] OTHER -> <<"%", item.conv>>

Cut(s, n) == SubSeq(s, 1, IF Len(s) < n THEN Len(s) ELSE n)

\* Up to the zero that ends a string.
CString(s) ==
    LET zeros == {i \in 1..Len(s) : s[i] = Nul}
    IN  IF zeros = {} THEN s ELSE SubSeq(s, 1, Min(zeros) - 1)

\* Mutant: the buffer is not bounded.
FormattedUncut(format) == CString(FlattenSeq([k \in 1..Len(format) |-> Converted(format[k])]))

\* kernel_printf: the text it prints.
Formatted(format) ==
    CString(Cut(FlattenSeq([k \in 1..Len(format) |-> Converted(format[k])]), BufferSize - 1))

\* long_to_hex with byte_to_hexchar: the last n digits, not ended.  The remainder
\* of a negative number is no digit, and becomes a zero byte.
LongToHex(v, n) ==
    [i \in 1..n |->
        LET remainder == Remainder(Rest(v, 16)[n - i], 16)
        IN  IF remainder < 0 THEN Nul ELSE DigitChar(Upper, remainder)]

\* LOG: the timestamp is an int.  append_string copies the message over the
\* first zero byte; of a message taken for empty, its first character.
LogLine(stamp, message) ==
    LET header == LongToHex(Signed(stamp), LongDigits) \o <<":", Blank>>
        kept   == CString(header)
        copied == IF Len(message) > LongMessage THEN Cut(message, 1) ELSE Append(message, Nul)
        behind == SubSeq(header, Len(kept) + Len(copied) + 1, Len(header))
    IN  CString(Cut(kept \o copied \o behind, LogSize - 1))

\* char is signed: bytes from 128 on are below 32 as well.
Glyph(byte) == IF byte \in 32..127 THEN Glyphs[byte] ELSE "."

\* A row of execute__dump_data: the address, the digits of the bytes with a gap
\* after the first half, and their characters.
DumpRow(address, bytes) ==
    LET column(k) == LongToHex(bytes[k], 2)
                        \o IF k = RowBytes \div 2 THEN <<Blank, Blank>> ELSE <<Blank>>
    IN  CString(LongToHex(Signed(address), LongDigits) \o <<":", Blank>>
                    \o FlattenSeq([k \in 1..RowBytes |-> column(k)]) \o <<Blank, Blank, "|">>
                    \o [k \in 1..RowBytes |-> Glyph(bytes[k])] \o <<"|">>)
=============================================================================
