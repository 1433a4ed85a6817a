------------------------------ MODULE MCTinyFS ------------------------------
(* Instance of TinyFS for TLC. *)
EXTENDS TinyFS

MCClusterCount == 7
MCClusterSize  == 4
MCNames        == {1, 2}
MCChunks       == {<<8, 9, 10, 8, 9, 10, 8>>}
MCMoreClusters == 8
=============================================================================
