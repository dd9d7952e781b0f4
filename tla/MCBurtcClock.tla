---------------------------- MODULE MCBurtcClock ----------------------------
(* BurtcClock with a counter of a few ticks and registers of two bits. *)
EXTENDS BurtcClock
=============================================================================
