-------------------------------- MODULE Digits --------------------------------
(***************************************************************************)
(* The characters of numbers, and what a numeral stands for.               *)
(***************************************************************************)
EXTENDS Integers, Sequences

Lower == <<"0", "1", "2", "3", "4", "5", "6", "7", "8", "9", "a", "b", "c", "d", "e", "f">>
Upper == <<"0", "1", "2", "3", "4", "5", "6", "7", "8", "9", "A", "B", "C", "D", "E", "F">>

IsDigit(c, base) == \E d \in 1..base : c \in {Lower[d], Upper[d]}
DigitValue(c)    == CHOOSE d \in 0..15 : c \in {Lower[d + 1], Upper[d + 1]}

\* Horner's scheme, from the first digit on.
Value(s, base) ==
    LET value[k \in 0..Len(s)] == IF k = 0 THEN 0 ELSE base * value[k - 1] + DigitValue(s[k])
    IN  value[Len(s)]
=============================================================================
