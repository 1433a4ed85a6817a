------------------------------ MODULE MCShell ------------------------------
(* Instance of Shell for TLC. *)
EXTENDS Shell

MCLineSize == 5
MCLengthAt == 7
MCMaxArgs  == 2
MCLongRange == 8
MCLetters  == {"h", "x", "d", "1"}
MCReleased == {"d"}
=============================================================================
