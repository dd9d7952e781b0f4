----------------------------- MODULE AtomicCell -----------------------------
(***************************************************************************)
(* What burtc-regs.h promises: a value that survives the loss of the main  *)
(* power.  "After returning from backup power domain operation during a    *)
(* write access, [either] the original value is read, or the new one"; and *)
(* once the write access has returned, the new one.                        *)
(*                                                                         *)
(* BurtcRegs is shown to implement this module for values of one word.     *)
(***************************************************************************)
CONSTANTS
  Value,     \* what can be stored
  NoValue,   \* read where nothing valid is stored
  Idle       \* no write access is under way

VARIABLES
  value,     \* what a read returns
  pending,   \* what is being written, or Idle
  on         \* the main power is there

cellVars == <<value, pending, on>>

Init == value \in Value \cup {NoValue} /\ pending = Idle /\ on = FALSE

PowerUp == ~on /\ on' = TRUE /\ UNCHANGED <<value, pending>>

Begin == on /\ pending = Idle /\ pending' \in Value /\ UNCHANGED <<value, on>>

Commit == pending # Idle /\ value' = pending /\ UNCHANGED <<pending, on>>

Return == value = pending /\ pending' = Idle /\ UNCHANGED <<value, on>>

PowerLoss == on /\ on' = FALSE /\ pending' = Idle /\ UNCHANGED value

Next == PowerUp \/ Begin \/ Commit \/ Return \/ PowerLoss

Spec == Init /\ [][Next]_cellVars
=============================================================================
