--------------------------- MODULE MCLayeredObject ---------------------------
(* Small instances of LayeredObject.                                       *)
EXTENDS LayeredObject, TLC
=============================================================================
