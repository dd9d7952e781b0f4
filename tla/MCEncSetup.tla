----------------------------- MODULE MCEncSetup -----------------------------
(* Instances of EncSetup for TLC. *)
EXTENDS EncSetup

(* A chip in order, and one with its highest address line stuck. *)
TwoDecoders == { [b \in Block |-> b], [b \in Block |-> b % 2] }
=============================================================================
