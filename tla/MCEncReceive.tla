---------------------------- MODULE MCEncReceive ----------------------------
(* EncReceive on a ring of two to three frames, with register bytes of base 8. *)
EXTENDS EncReceive
=============================================================================
