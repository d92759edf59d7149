----------------------------- MODULE MCSignals -----------------------------
(* A small instance of Signals. *)
EXTENDS Signals

CONSTANT s1
=============================================================================
