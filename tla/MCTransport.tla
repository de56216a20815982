---------------------------- MODULE MCTransport ----------------------------
(* Model values for Transport.                                             *)
EXTENDS Transport, TLC
=============================================================================
