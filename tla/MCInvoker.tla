----------------------------- MODULE MCInvoker -----------------------------
(* Model values for Invoker.                                               *)
EXTENDS Invoker, TLC
=============================================================================
