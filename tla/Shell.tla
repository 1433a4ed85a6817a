------------------------------- MODULE Shell -------------------------------
(***************************************************************************)
(* shell/shell.c with its two sources of keys, the keyboard driver and the *)
(* serial line: editing the input line, splitting it into arguments in     *)
(* place, and choosing the command.  What the commands do is Scheduler's   *)
(* and TinyFS's subject.  The main loop polls; a key and the command it    *)
(* completes are handled before anything else runs.                        *)
(***************************************************************************)
EXTENDS Integers, Sequences, FiniteSets, Digits

CONSTANTS
    LineSize,    \* sizeof input_line
    LengthAt,    \* how far behind its start input_len lies: 52 where the array has 50
    MaxArgs,     \* arguments that fit a heap block
    LongRange,   \* 2^32: how many values an int or a long has
    Letters,     \* characters other than the space
    Space, Nul,
    Enter,       \* \n and \r
    Delete,      \* 8 and 0x7f
    Released     \* bound of the model: the keys whose release is seen

\* The characters that shell_execute_command compares with.
CommandLetters == {"c", "d", "h", "k", "l", "p", "r", "x"}

ASSUME ShellAssumption ==
    /\ LineSize \in Nat \ {0, 1, 2}
    /\ LengthAt \in (LineSize + 1)..255
    /\ MaxArgs \in Nat \ {0}
    /\ LongRange \in Nat \ {0}
    /\ {Space, Nul, Enter, Delete} \cap Letters = {}
    /\ Space # Nul
    /\ {Space, Nul} \cap CommandLetters = {}
    /\ Released \subseteq Letters \cup {Space, Enter, Delete}

VARIABLES
    line,        \* input_line
    len,         \* input_len
    previous,    \* previous_scan_code
    text,        \* history: the text typed on the line, nothing once it is overrun
    overrun,     \* history: a character was typed on a full line since the last Enter
    command      \* history: the command the last key completed

svars == <<line, len, previous, text, overrun, command>>

Keys  == Letters \cup {Space, Enter, Delete}

\* A received byte loses its top bit, so that 0 and 0x80 are a key as well.
Bytes == Keys \cup {Nul}

\* The array and what lies between it and input_len, as the Makefile's compiler
\* lays them out: two cells, of which shell_on_input clears the first with every
\* character.
LineCells == 0..(LengthAt - 1)

\* A scan code is a key going down or up; other codes of the controller are
\* acknowledgements.
Down(k)     == <<"down", k>>
Up(k)       == <<"up", k>>
Acknowledge == <<"acknowledge", Nul>>

-----------------------------------------------------------------------------
(* Strings in the line: m is its content, i a pointer into it. *)

\* What lies behind the cells is read, to no effect.
At(m, i) == IF i \in LineCells THEN m[i] ELSE Nul

FirstFrom(i, P(_)) == CHOOSE j \in i..LengthAt : P(j) /\ \A k \in i..(j - 1) : ~P(k)

EndOfString(m, i) == LET IsEnd(j) == At(m, j) = Nul IN FirstFrom(i, IsEnd)
EndOfWord(m, i)   == LET IsEnd(j) == At(m, j) \in {Space, Nul} IN FirstFrom(i, IsEnd)

\* Mutant: one space is skipped only.
SpaceSkipped(m, i) == IF At(m, i) = Space THEN i + 1 ELSE i
SpacesSkipped(m, i) == LET IsOther(j) == At(m, j) # Space IN FirstFrom(i, IsOther)

\* What the string functions see of a text: it ends where a zero was typed.
Seen(t) ==
    SubSeq(t, 1, CHOOSE n \in 0..Len(t) :
                     (n = Len(t) \/ t[n + 1] = Nul) /\ \A i \in 1..n : t[i] # Nul)

String(m, i) == [k \in 1..(EndOfString(m, i) - i) |-> m[i + k - 1]]

\* trim_string: trailing spaces become zeros; the start is past the leading ones.
Trimmed(m) ==
    LET start == SpacesSkipped(m, 0)
        stop  == EndOfString(m, start)
    IN  [line  |-> [i \in LineCells |->
                       IF i \in start..(stop - 1) /\ \A k \in i..(stop - 1) : m[k] = Space
                       THEN Nul ELSE m[i]],
         start |-> start]

\* The arguments are counted by the runs of spaces between them.
ArgCount(t) ==
    1 + Cardinality({i \in t.start..(EndOfString(t.line, t.start) - 1) :
                        t.line[i] = Space /\ t.line[i - 1] # Space})

\* parse_arguments: every word is ended in place, argv points to the words.
\* No heap block takes more than MaxArgs pointers.
Parsed(m) ==
    LET t    == Trimmed(m)
        argc == ArgCount(t)
        split[k \in 0..argc] ==
            IF k = 0 THEN [line |-> t.line, at |-> t.start, argv |-> <<>>]
            ELSE LET s     == split[k - 1]
                     stop  == EndOfWord(s.line, s.at)
                     ended == [i \in LineCells |-> IF i = stop THEN Nul ELSE s.line[i]]
                 IN  [line |-> ended,
                      at   |-> SpacesSkipped(ended, stop + 1),
                      argv |-> Append(s.argv, s.at)]
    IN  IF argc > MaxArgs THEN [line |-> t.line, ok |-> FALSE, argv |-> <<>>]
        ELSE [line |-> split[argc].line, ok |-> TRUE, argv |-> split[argc].argv]

\* shell_execute_command looks at the line, not at argv, for the command.
Chosen(first, second, third) ==
    CASE first = Nul -> "nothing"
      [] first = "c" -> IF second = "d" THEN "cd" ELSE "cat"
      [] first = "d" -> "dump"
      [] first = "h" -> IF third = "x" THEN "hexdump" ELSE "help"
      [] first = "k" -> "kill"
      [] first = "l" -> "ls"
      [] first = "p" -> "ps"
      [] first = "r" -> "run"
      [] OTHER -> "unknown"

\* Mutant: the multiplier grows with every character.
ReadNumberByPlace(s, base) ==
    LET read[k \in 0..Len(s)] ==
            IF k = 0 THEN 0
            ELSE LET c == s[Len(s) + 1 - k]
                 IN  (read[k - 1] + IF IsDigit(c, base) THEN DigitValue(c) * base^(k - 1) ELSE 0)
                         % LongRange
    IN  read[Len(s)]

\* atoi and hex_to_long: from the last character on; what is no digit is skipped.
ReadNumber(s, base) ==
    LET read[k \in 0..Len(s)] ==
            IF k = 0 THEN [result |-> 0, multiplier |-> 1]
            ELSE LET r == read[k - 1]
                     c == s[Len(s) + 1 - k]
                 IN  IF ~IsDigit(c, base) THEN r
                     ELSE [result     |-> (r.result + DigitValue(c) * r.multiplier) % LongRange,
                           multiplier |-> (r.multiplier * base) % LongRange]
    IN  read[Len(s)].result

NoNumber == -1

\* The process that kill is asked for, the address that dump is asked for.
NumberFor(ran, args) ==
    CASE ran = "kill" /\ Len(args) > 1 -> ReadNumber(args[2], 10)
      [] ran = "dump" /\ Len(args) > 1 -> ReadNumber(args[2], 16)
      [] OTHER -> NoNumber

NoCommand ==
    [ran |-> "nothing", args |-> <<>>, typed |-> <<>>, overrun |-> FALSE, number |-> NoNumber]

Executed(p) ==
    LET ran  == IF p.ok THEN Chosen(p.line[0], p.line[1], p.line[2]) ELSE "refused"
        args == [k \in 1..Len(p.argv) |-> String(p.line, p.argv[k])]
    IN  [ran |-> ran, args |-> args, typed |-> Seen(text), overrun |-> overrun,
         number |-> NumberFor(ran, args)]

-----------------------------------------------------------------------------
(* shell_on_input *)

Init ==
    /\ line = [i \in LineCells |-> Nul]
    /\ len = 0
    /\ previous = Acknowledge
    /\ text = <<>>
    /\ overrun = FALSE
    /\ command = NoCommand

NewLine == len' = 0 /\ text' = <<>> /\ overrun' = FALSE

\* Mutant: the line is not cleared after a command.
EnterKeepsLine ==
    /\ line' = Parsed(line).line
    /\ command' = Executed(Parsed(line))
    /\ NewLine

OnEnter ==
    /\ line' = [Parsed(line).line EXCEPT ![0] = Nul]
    /\ command' = Executed(Parsed(line))
    /\ NewLine

\* Mutant: the length goes below zero.
DeleteUnchecked ==
    /\ len' = len - 1
    /\ line' = [line EXCEPT ![len - 1] = Nul]
    /\ text' = IF overrun \/ text = <<>> THEN text ELSE SubSeq(text, 1, Len(text) - 1)
    /\ UNCHANGED overrun
    /\ command' = NoCommand

OnDelete ==
    /\ IF len > 0
       THEN /\ len' = len - 1
            /\ line' = [line EXCEPT ![len - 1] = Nul]
            /\ text' = IF overrun THEN text ELSE SubSeq(text, 1, Len(text) - 1)
       ELSE UNCHANGED <<len, line, text>>
    /\ UNCHANGED overrun
    /\ command' = NoCommand

\* The text grows until the line is overrun.
CharOnText(k) ==
    /\ overrun' = (overrun \/ len >= LineSize)
    /\ text' = IF overrun' THEN <<>> ELSE Append(text, k)

\* Mutant: the line is not ended behind the new character.
CharUnended(k) ==
    /\ line' = [line EXCEPT ![len] = k, ![LineSize] = Nul]
    /\ len' = (len + 1) % LengthAt
    /\ CharOnText(k)
    /\ command' = NoCommand

\* Nothing checks the length.  On a full line the zero for input_line[sizeof
\* input_line] wipes the character out again; the next one lands behind it, and the
\* zero that should end the line hits the low byte of input_len: typing goes on at
\* the start of the line.
OnChar(k) ==
    /\ line' = [i \in LineCells |->
                   IF i \in {len + 1, LineSize} THEN Nul ELSE IF i = len THEN k ELSE line[i]]
    /\ len' = IF len + 1 = LengthAt THEN 0 ELSE len + 1
    /\ CharOnText(k)
    /\ command' = NoCommand

OnInput(k) ==
    \/ k = Enter /\ OnEnter
    \/ k = Delete /\ OnDelete
    \/ k \notin {Enter, Delete} /\ OnChar(k)

\* keyboard_driver_poll: an acknowledgement is not even remembered; a key
\* counts when it goes down and the code is not the one read before.
KeyboardPoll(code) ==
    \/ /\ code = Acknowledge
       /\ UNCHANGED svars
    \/ /\ code # Acknowledge
       /\ previous' = code
       /\ IF code # previous /\ code[1] = "down"
          THEN OnInput(code[2])
          ELSE UNCHANGED <<line, len, text, overrun, command>>

\* tty_input_poll, when a byte was received
TtyPoll(k) ==
    /\ OnInput(k)
    /\ UNCHANGED previous

Next ==
    \/ \E k \in Keys : KeyboardPoll(Down(k))
    \/ \E k \in Bytes : TtyPoll(k)
    \/ \E k \in Released : KeyboardPoll(Up(k))
    \/ KeyboardPoll(Acknowledge)

Spec == Init /\ [][Next]_svars

-----------------------------------------------------------------------------
(* Properties *)

\* Every variable has its type, however much is typed: a character too many ends
\* between the line and input_len, and sets the latter to zero at worst.
TypeOK ==
    /\ line \in [LineCells -> Letters \cup {Space, Nul}]
    /\ len \in 0..(LengthAt - 1)
    /\ previous \in {Acknowledge} \cup {Down(k) : k \in Keys} \cup {Up(k) : k \in Keys}
    /\ text \in Seq(Letters \cup {Space, Nul})
    /\ overrun \in BOOLEAN

\* Unless a character was typed on a full line since the last Enter, the line holds
\* the text typed, zeros from the serial line included, and ends behind it: whatever
\* deleting, splitting and overrunning left there before, characters of an earlier
\* line never come back.
LineIsText == ~overrun => String(line, 0) = Seen(text) /\ len = Len(text)

\* The words of a text: the longest runs without a space.
Words(t) ==
    LET starts == {i \in 1..Len(t) : t[i] # Space /\ (i = 1 \/ t[i - 1] = Space)}
        ends   == {i \in 1..Len(t) : t[i] # Space /\ (i = Len(t) \/ t[i + 1] = Space)}
        nth(S, n) == CHOOSE i \in S : Cardinality({j \in S : j < i}) = n - 1
    IN  [n \in 1..Cardinality(starts) |-> SubSeq(t, nth(starts, n), nth(ends, n))]

\* The command did run, and its line was not overrun while it was typed.
RanWhole == command.args # <<>> /\ ~command.overrun

\* Splitting in place yields the words of the text up to the first zero in it,
\* however many spaces surround them, and one empty argument for an empty line, of
\* every line that was not overrun and is not refused.
ArgsAreWords ==
    RanWhole =>
        command.args = IF Words(command.typed) = <<>> THEN << <<>> >> ELSE Words(command.typed)

CharAt(t, n) == IF n <= Len(t) THEN t[n] ELSE Nul

\* The number in a word: the one its digits, from the first on, stand for, and
\* what of it a long holds.
NumberIn(word, base) ==
    LET number[k \in 0..Len(word)] ==
            IF k = 0 THEN 0
            ELSE IF IsDigit(word[k], base) THEN base * number[k - 1] + DigitValue(word[k])
            ELSE number[k - 1]
    IN  number[Len(word)] % LongRange

\* The command of a line that was neither overrun nor refused is chosen by the text
\* typed, up to the first zero in it, and by nothing else: no earlier line and no
\* character behind the text.  There is one exception: a lone `h' runs help or
\* hexdump, whichever the third cell, where no character was typed, happens to name.
RanAsTyped ==
    RanWhole =>
        LET t == command.typed
        IN  IF t = <<"h">> THEN command.ran \in {"help", "hexdump"}
            ELSE command.ran = Chosen(CharAt(t, 1), CharAt(t, 2), CharAt(t, 3))

\* The number that kill and dump work with is the one typed behind them, if the line
\* was neither overrun nor refused.
NumberAsTyped ==
    RanWhole =>
        LET words == Words(command.typed)
        IN  command.number =
                IF Len(words) > 1 /\ command.ran = "kill" THEN NumberIn(words[2], 10)
                ELSE IF Len(words) > 1 /\ command.ran = "dump" THEN NumberIn(words[2], 16)
                ELSE NoNumber
=============================================================================
