--------------------------------- MODULE MCVfs ---------------------------------
(***************************************************************************)
(* Path names for TLC: texts of two lengths.                    *)
(***************************************************************************)
EXTENDS Vfs

MCTexts == {<<1>>, <<2, 2>>}
=============================================================================
