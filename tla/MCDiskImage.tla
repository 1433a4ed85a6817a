---------------------------- MODULE MCDiskImage ----------------------------
(* Instance of DiskImage for TLC. *)
EXTENDS DiskImage

MCDefaultSize == 4
MCRamdisk     == <<0, 0, 0>>
MCFiles       == {<<Used, Used, 7, 0>>, <<Used, 0>>}
MCGarbage     == {<<0, 0, 0, 7>>, <<7, 7, 7, 7>>}
MCValues      == {7}
MCChanges     == {<<1, 0>>, <<3, 0>>, <<4, 7>>, <<3, 7>>}
=============================================================================
