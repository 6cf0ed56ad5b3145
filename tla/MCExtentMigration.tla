------------------------- MODULE MCExtentMigration -------------------------
(* Small instances of ExtentMigration.                                     *)
EXTENDS ExtentMigration, TLC
=============================================================================
