------------------------- MODULE MCWriteCompletion -------------------------
(* Small instances of WriteCompletion.                                     *)
EXTENDS WriteCompletion, TLC
=============================================================================
