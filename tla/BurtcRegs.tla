----------------------------- MODULE BurtcRegs -----------------------------
(***************************************************************************)
(* efm32/enchw/burtc-regs.c: N words kept in the retention registers of    *)
(* the BURTC, twice, each copy followed by its checksum.  The registers    *)
(* survive the loss of the main power, which may come between any two      *)
(* register writes of burtc_regs_store.  One register write is atomic.     *)
(***************************************************************************)
EXTENDS Integers

CONSTANTS
  N,             \* words of a value
  Word,          \* values of a register
  NoValue,       \* what burtc_regs_retrieve finds when it returns false
  Idle,          \* no store is under way
  Checksum(_),   \* regs_checksum
  Incr(_)        \* one added to a register

Value == [1 .. N -> Word]

ASSUME RegsAssumption ==
  /\ N \in Nat \ {0}
  /\ NoValue \notin Value /\ Idle \notin Value
  /\ \A v \in Value : Checksum(v) \in Word
  /\ \A c \in Word : Incr(c) \in Word /\ Incr(c) # c

VARIABLES
  reg,      \* BURTC->RET[index + i].REG, for i from 0 on
  on,       \* the main power is there
  pc,       \* where burtc_regs_store is
  base,     \* its writecursor, when it starts writing
  done,     \* the words it has written
  new,      \* *value
  before    \* history: what was stored when it was called

storeVars == <<pc, base, done, new, before>>
regsVars  == <<reg, on, storeVars>>

First  == 0
Second == N + 1

Data(b)  == [k \in 1 .. N |-> reg[b + k - 1]]
Valid(b) == Checksum(Data(b)) = reg[b + N]

(* burtc_regs_retrieve. *)
Stored ==
  IF Valid(First) THEN Data(First)
  ELSE IF Valid(Second) THEN Data(Second)
  ELSE NoValue

(* "At powerup, memory is typically invalid (unless ...)": it is anything. *)
Init ==
  /\ reg \in [0 .. 2 * N + 1 -> Word]
  /\ on = FALSE
  /\ pc = "idle" /\ base = First /\ done = 0 /\ new = Idle /\ before = NoValue

-----------------------------------------------------------------------------
(* burtc_regs_store: it spares the copy that burtc_regs_retrieve returns. *)

SparesNone == First  \* fault: writes to the first copy even when it is valid
SparesFirst == Second  \* fault: writes to the second copy even when only it is valid
Target == IF Valid(First) THEN Second ELSE First

StoreBegin(v) ==
  /\ on /\ pc = "idle"
  /\ pc' = "write" /\ base' = Target /\ done' = 0
  /\ new' = v /\ before' = Stored
  /\ UNCHANGED <<reg, on>>

StoreWord ==
  /\ pc = "write" /\ done < N
  /\ reg' = [reg EXCEPT ![base + done] = new[done + 1]]
  /\ done' = done + 1
  /\ UNCHANGED <<on, pc, base, new, before>>

(* destroyme is NULL when it has written to the first copy. *)
StoreChecksum ==
  /\ pc = "write" /\ done = N
  /\ reg' = [reg EXCEPT ![base + N] = Checksum(new)]
  /\ pc' = IF base = Second THEN "destroy" ELSE "return"
  /\ UNCHANGED <<on, base, done, new, before>>

NotDestroyed(c) == c  \* fault: leaves the first copy valid
WiderThanWord(c) == c + 1  \* fault: a register does not wrap
Destroyed(c) == Incr(c)

StoreDestroy ==
  /\ pc = "destroy"
  /\ reg' = [reg EXCEPT ![First + N] = Destroyed(@)]
  /\ pc' = "return"
  /\ UNCHANGED <<on, base, done, new, before>>

StoreOn == StoreWord \/ StoreChecksum \/ StoreDestroy

NoStore == pc' = "idle" /\ base' = First /\ done' = 0 /\ new' = Idle /\ before' = NoValue

StoreReturn ==
  /\ pc = "return"
  /\ NoStore
  /\ UNCHANGED <<reg, on>>

(* The domain goes over to backup power, the processor stops where it is. *)
PowerLoss ==
  /\ on /\ on' = FALSE
  /\ NoStore
  /\ UNCHANGED reg

PowerUp ==
  /\ ~on /\ on' = TRUE
  /\ UNCHANGED <<reg, storeVars>>

Next ==
  \/ \E v \in Value : StoreBegin(v)
  \/ StoreOn
  \/ StoreReturn
  \/ PowerLoss
  \/ PowerUp

Spec == Init /\ [][Next]_regsVars

-----------------------------------------------------------------------------
TypeOK ==
  /\ reg \in [0 .. 2 * N + 1 -> Word]
  /\ on \in BOOLEAN
  /\ pc \in {"idle", "write", "destroy", "return"}
  /\ base \in {First, Second}
  /\ done \in 0 .. N
  /\ new \in IF pc = "idle" THEN {Idle} ELSE Value
  /\ before \in Value \cup {NoValue}

(* After burtc_regs_store has written everything, burtc_regs_retrieve finds *)
(* the new value, whichever copy it went to and whatever the registers held *)
(* before, a half written or destroyed copy included.                       *)
Durable == pc = "return" => Stored = new

(* Between any two register writes of burtc_regs_store, a power loss leaves *)
(* the value from before the call or the new one to be read, never a mixture *)
(* of both, an outdated one or none.                                        *)
OldOrNew == pc # "idle" => Stored \in {before, new}

(* "Eithe the original value is read, or the new one", of values that do     *)
(* overwrite one (burtc-regs.h): what a power loss finds is no mixture.      *)
NeverTorn == before # NoValue => OldOrNew

(* The double buffer is the atomic cell that burtc-regs.h describes. *)
Cell == INSTANCE AtomicCell WITH value <- Stored, pending <- new
ImplementsCell == Cell!Spec
=============================================================================
