------------------------------ MODULE MCRouter ------------------------------
(* Instance of Programs, and of Router in it, for TLC. *)
EXTENDS Programs, TLC

MCPathSize    == 6
MCDirNameSize == 2
MCTableSize   == 3
MCBootMounts  == << <<"tinyfs", <<"/", "m">>>>, <<"test", <<"/", "t">>>> >>
MCFiles       == [tinyfs |-> {<<"t">>, <<"m", "m">>}, test |-> {<<"t">>}]
MCChars       == {"m", "t"}
MCArgs        == {<<"m">>, <<"t">>, <<"m", "m">>, <<"/", "t", "/", "t">>,
                  <<"/", "/", "m">>, <<"t", "/">>}
MCMaxAsked    == 6

MCRunSize     == 2
MCBytes       == 0..6
MCContents    == [tinyfs |-> <<"t">> :> <<1, 2>> @@ <<"m", "m">> :> <<3>>,
                  test   |-> <<"t">> :> <<4, 5, 6>>]
MCUserSlots   == 2
MCProgramArgs == {<<"t">>, <<"m", "m">>}
MCTestNumbers == {0, 1}
=============================================================================
