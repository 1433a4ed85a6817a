---------------------------- MODULE MCKernelStdio ----------------------------
(* Instance of KernelStdio for TLC. *)
EXTENDS KernelStdio

MCMaxX           == 2
MCMaxY           == 4
MCWindowPosition == 1
MCWindowSize     == 2
MCInputLength    == 1
MCChars          == {"0", "1", ":", "|", "."}
MCWordRange      == 256
MCBufferSize     == 6
MCNumberSize     == 3
MCLongDigits     == 2
MCLogSize        == 6
MCRowBytes       == 2
MCGlyphs         == [b \in 32..127 |-> IF b = 127 THEN Backspace ELSE "0"]
MCDumpRows       == 1
MCMemory         == [a \in 0..255 |-> a]
MCAddresses      == {16}
MCLongMessage    == 2
MCCharacters     == {"0", NewLine, Backspace}
MCStamps         == {1, 128}
MCMessages       == {<<"1">>, <<"0", "0", "0">>}

Literal(c) == [conv |-> "literal", zero |-> FALSE, width |-> 0, arg |-> c]

\* "1%03x\n" of 1, "%s\n%d" of "10" and 1, "%d%x" of 110 and 17, "1%c0" of a zero byte
MCFormats == {
    <<Literal("1"), [conv |-> "x", zero |-> TRUE, width |-> 3, arg |-> 1], Literal(NewLine)>>,
    <<[conv |-> "s", zero |-> FALSE, width |-> 0, arg |-> <<"1", "0">>], Literal(NewLine),
      [conv |-> "d", zero |-> FALSE, width |-> 0, arg |-> 1]>>,
    <<[conv |-> "d", zero |-> FALSE, width |-> 2, arg |-> 110],
      [conv |-> "x", zero |-> FALSE, width |-> 0, arg |-> 17]>>,
    <<Literal("1"), [conv |-> "c", zero |-> FALSE, width |-> 0, arg |-> Nul], Literal("0")>>}

\* What these print, the messages, the log lines and the dump.
MCStrings == {
    <<"1", "0", "0", "1", NewLine>>, <<"1", "0", NewLine, "1">>, <<"1", "1", "0", "1", "1">>,
    <<"0", "1", ":", "blank", "1">>, <<"0", "1", ":", "blank", "0">>,
    <<"1">>, <<"0", "0", "0">>, <<"0", "0", ":", "blank">>,
    <<"1", "0", ":", "blank", "1", "0", "blank", "blank", "1", "1", "blank", "blank", "blank",
      "|", ".", ".", "|", NewLine>>}
=============================================================================
