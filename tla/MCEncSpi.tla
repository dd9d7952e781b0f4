------------------------------ MODULE MCEncSpi ------------------------------
(* Instance of EncSpi for TLC. *)
EXTENDS EncSpi

(* ERDPT and EWRPT, EPKTCNT, MIRD, MACON1, MISTAT, MAADR5, ECON2 and ECON1:  *)
(* every bank, and addresses that mean another register in another bank.     *)
SomeRegisters ==
  R(0, 0 .. 3) \cup R(1, {25}) \cup R(2, {0, 24, 25}) \cup R(3, {0, 10})
  \cup R(All, {30, 31})
=============================================================================
