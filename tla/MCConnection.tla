---------------------------- MODULE MCConnection ----------------------------
(* Connection for TLC: the constants are numbers, given in the .cfg.       *)
EXTENDS Connection, TLC
=============================================================================
