------------------------- MODULE MCImageLifecycle -------------------------
(* Small instances of ImageLifecycle.                                      *)
EXTENDS ImageLifecycle, TLC
=============================================================================
