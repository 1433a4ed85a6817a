---------------------------- MODULE MCFuseDriver ----------------------------
(* Instance of FuseDriver for TLC. *)
EXTENDS FuseDriver

MCClusterCount == 7
MCClusterSize  == 4
MCNames        == {1, 2}
MCChunks       == {<<8, 8, 8>>}
MCWriteOffsets == {1, 6}
MCSizeRange    == 8
=============================================================================
