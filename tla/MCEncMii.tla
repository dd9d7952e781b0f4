------------------------------ MODULE MCEncMii ------------------------------
(* Instance of EncMii for TLC. *)
EXTENDS EncMii

(* PHLCON as after a reset, 0x3422. *)
AfterReset ==
  [r \in {PHCON1, PHLCON} |->
    [i \in 0 .. 3 |-> CASE r = PHCON1 -> 0 [] i < 2 -> 2 [] OTHER -> 6 - i]]

(* 0x00, and 0x05: BUSY of MISTAT and LLSTAT of PHSTAT1. *)
TwoBytes == { [i \in 0 .. 1 |-> IF i = 0 THEN n ELSE 0] : n \in {0, 5} }
=============================================================================
