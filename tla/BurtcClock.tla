----------------------------- MODULE BurtcClock -----------------------------
(***************************************************************************)
(* The tick counter of efm32/enchw/rtc-efm32burtc.c: the counter, its      *)
(* overflow flag and the retention registers live in the backup domain and *)
(* outlast the main power; the interrupt handler counts the wraps in       *)
(* high64 and stores it with burtc_regs_store; rtc_setup resumes from what *)
(* it finds, or starts anew.                                               *)
(*                                                                         *)
(* The main power may go between any two steps.  A tick count is the pair  *)
(* of its high part (the wraps) and its low part (the counter).  BurtcRegs *)
(* models the registers, here with values of one word.                     *)
(***************************************************************************)
EXTENDS Integers

CONSTANTS
  M,           \* values of the hardware counter (2^32)
  W,           \* values of a register and of high64 (2^32)
  NoValue, Idle,
  Latency,     \* ticks within which the handler has cleared the flag
  Duration,    \* ticks that one rtc_get64 takes at most
  MaxWraps     \* bound: wraps of the counter, so that high64 does not overflow

ASSUME BurtcAssumption ==
  /\ M \in Nat /\ W \in Nat /\ W > 1
  /\ NoValue \notin [1 .. 1 -> 0 .. W - 1] /\ Idle \notin [1 .. 1 -> 0 .. W - 1]
  /\ Latency \in Nat /\ Duration \in Nat /\ MaxWraps \in Nat
  /\ Latency + Duration < M
  /\ MaxWraps < W

VARIABLES
  reg, on, pc, base, done, new, before,  \* as in BurtcRegs
  ready,     \* BURTC->CTRL.RSTEN is cleared: the BURTC is set up and runs
  counter,   \* BURTC->CNT
  of,        \* the overflow flag of BURTC->IF
  high64,
  masked,    \* interrupts are disabled (CPSID)
  at,        \* where the processor is, the readings apart
  erased,    \* the i of the loop that zeroes the registers
  rd,        \* for each reading context, where its rtc_get64 is and its locals
  wraps,     \* history: wraps of the counter since it was last declared new
  lost       \* history: of these, the ones that a power loss has swallowed

storeVars   == <<pc, base, done, new, before>>
backupVars  == <<reg, ready, counter, of>>
historyVars == <<wraps, lost>>
vars == <<backupVars, on, storeVars, high64, masked, at, erased, rd, historyVars>>

Word == 0 .. W - 1
Incr(c) == (c + 1) % W
Checksum(v) == W - 1 - v[1]
Regs == INSTANCE BurtcRegs WITH N <- 1

Readers == {"main", "irq"}
NoRead == [pc |-> "idle", first |-> 0, high |-> 0, overflew |-> FALSE, age |-> 0]
Timed(r) == rd[r].pc \in {"high", "flag", "unmask", "second"}

Init ==
  /\ Regs!Init /\ Regs!Stored = NoValue
  /\ ready = FALSE /\ counter = 0 /\ of = FALSE
  /\ high64 = 0 /\ masked = FALSE
  /\ at = "off" /\ erased = 0
  /\ rd = [r \in Readers |-> NoRead]
  /\ wraps = 0 /\ lost = 0

-----------------------------------------------------------------------------
(* The backup domain and the power supply. *)

InHandler == at \in {"mask", "clear", "increment", "store", "storing", "unmask"}

(* From when it has looked at the flag and gone on, the program must see to *)
(* each overflow in time.                                                    *)
Serving == at \in {"retrieve", "enable", "main"} \/ InHandler

Tick ==
  /\ ready
  /\ of /\ Serving => counter < Latency
  /\ \A r \in Readers : Timed(r) => rd[r].age < Duration
  /\ counter = M - 1 => wraps < MaxWraps
  /\ counter' = IF counter = M - 1 THEN 0 ELSE counter + 1
  /\ wraps' = IF counter = M - 1 THEN wraps + 1 ELSE wraps
  /\ of' = (of \/ counter = M - 1)
  /\ rd' = [r \in Readers |-> IF Timed(r) THEN [rd[r] EXCEPT !.age = @ + 1] ELSE rd[r]]
  /\ UNCHANGED <<reg, ready, on, storeVars, high64, masked, at, erased, lost>>

PowerUp ==
  /\ at = "off" /\ Regs!PowerUp
  /\ at' = "setup"
  /\ UNCHANGED <<ready, counter, of, high64, masked, erased, rd, historyVars>>

(* The handler has cleared the flag, but what it counted is not stored yet. *)
Uncommitted ==
  at \in {"increment", "store"} \/ (at = "storing" /\ Regs!Stored # new)

PowerLoss ==
  /\ Regs!PowerLoss
  /\ at' = "off"
  /\ high64' = 0 /\ masked' = FALSE /\ erased' = 0
  /\ rd' = [r \in Readers |-> NoRead]
  /\ lost' = IF Uncommitted THEN lost + 1 ELSE lost
  /\ UNCHANGED <<ready, counter, of, wraps>>

(* The backup capacitor runs empty.  "At powerup, memory is typically       *)
(* invalid": the chance match of the checksum is left out here.              *)
BackupLoss ==
  /\ at = "off" /\ ready
  /\ ready' = FALSE /\ counter' = 0 /\ of' = FALSE
  /\ reg' \in [0 .. 3 -> Word] /\ Regs!Stored' = NoValue
  /\ wraps' = 0 /\ lost' = 0
  /\ UNCHANGED <<on, storeVars, high64, masked, at, erased, rd>>

-----------------------------------------------------------------------------
(* rtc_setup, before any interrupt is enabled. *)

goTo(step) ==
  /\ at' = step
  /\ UNCHANGED <<on, masked, rd>>

SetupTest ==
  /\ at = "setup"
  /\ goTo(IF ready THEN "overflow" ELSE "init")
  /\ UNCHANGED <<backupVars, storeVars, high64, erased, historyVars>>

(* BURTC_Init, which clears RSTEN last. *)
SetupInit ==
  /\ at = "init"
  /\ ready' = TRUE /\ counter' = 0 /\ of' = FALSE
  /\ wraps' = 0 /\ lost' = 0
  /\ goTo("erase")
  /\ UNCHANGED <<reg, storeVars, high64, erased>>

IgnoresOverflow == "retrieve"  \* fault: does not look at the flag
AfterOverflow == IF of THEN "erase" ELSE "retrieve"

SetupOverflow ==
  /\ at = "overflow"
  /\ goTo(AfterOverflow)
  /\ UNCHANGED <<backupVars, storeVars, high64, erased, historyVars>>

SetupRetrieve ==
  /\ at = "retrieve"
  /\ high64' = IF Regs!Stored = NoValue THEN high64 ELSE Regs!Stored[1]
  /\ goTo(IF Regs!Stored = NoValue THEN "erase" ELSE "enable")
  /\ UNCHANGED <<backupVars, storeVars, erased, historyVars>>

(* The loop over RET, of which only the registers of the count are modelled. *)
ErasesPastEnd == 5  \* fault: <= for <
EraseEnd == 4

SetupErase ==
  /\ at = "erase"
  /\ reg' = [reg EXCEPT ![erased] = 0]
  /\ erased' = IF erased + 1 < EraseEnd THEN erased + 1 ELSE 0
  /\ goTo(IF erased + 1 < EraseEnd THEN "erase" ELSE "reset")
  /\ UNCHANGED <<ready, counter, of, storeVars, high64, historyVars>>

SetupReset ==
  /\ at = "reset"
  /\ high64' = 0
  /\ Regs!StoreBegin(<<0>>)
  /\ at' = "resetting"
  /\ UNCHANGED <<ready, counter, of, masked, erased, rd, historyVars>>

(* The steps of burtc_regs_store, called from here or from the handler. *)
StoreOn ==
  /\ Regs!StoreOn
  /\ UNCHANGED <<ready, counter, of, high64, masked, at, erased, rd, historyVars>>

SetupStored ==
  /\ at = "resetting" /\ Regs!StoreReturn
  /\ at' = "forget"
  /\ UNCHANGED <<ready, counter, of, high64, masked, erased, rd, historyVars>>

(* From here on the clock counts anew. *)
SetupForget ==
  /\ at = "forget"
  /\ of' = FALSE
  /\ wraps' = 0 /\ lost' = 0
  /\ goTo("enable")
  /\ UNCHANGED <<reg, ready, counter, storeVars, high64, erased>>

SetupEnable ==
  /\ at = "enable"
  /\ goTo("main")
  /\ UNCHANGED <<backupVars, storeVars, high64, erased, historyVars>>

Setup ==
  \/ SetupTest \/ SetupInit \/ SetupOverflow \/ SetupRetrieve \/ SetupErase
  \/ SetupReset \/ SetupStored \/ SetupForget \/ SetupEnable

-----------------------------------------------------------------------------
(* BURTC_IRQHandler, which another interrupt may preempt but not main. *)

IsrRuns == rd["irq"].pc = "idle"

IsrEnter ==
  /\ at = "main" /\ IsrRuns /\ of /\ ~masked
  /\ goTo("mask")
  /\ UNCHANGED <<backupVars, storeVars, high64, erased, historyVars>>

IsrNoMask == UNCHANGED masked  \* fault: the CPSID is missing
IsrMasks == masked' = TRUE

IsrMask ==
  /\ at = "mask" /\ IsrRuns
  /\ IsrMasks
  /\ at' = "clear"
  /\ UNCHANGED <<backupVars, on, storeVars, high64, erased, rd, historyVars>>

IsrClear ==
  /\ at = "clear" /\ IsrRuns
  /\ of' = FALSE
  /\ goTo("increment")
  /\ UNCHANGED <<reg, ready, counter, storeVars, high64, erased, historyVars>>

IsrIncrement ==
  /\ at = "increment" /\ IsrRuns
  /\ high64' = Incr(high64)
  /\ goTo("store")
  /\ UNCHANGED <<backupVars, storeVars, erased, historyVars>>

IsrStore ==
  /\ at = "store" /\ IsrRuns
  /\ Regs!StoreBegin(<<high64>>)
  /\ at' = "storing"
  /\ UNCHANGED <<ready, counter, of, high64, masked, erased, rd, historyVars>>

IsrStored ==
  /\ at = "storing" /\ Regs!StoreReturn
  /\ at' = "unmask"
  /\ UNCHANGED <<ready, counter, of, high64, masked, erased, rd, historyVars>>

IsrStaysMasked ==  \* fault: returns without CPSIE
  /\ at = "unmask" /\ IsrRuns
  /\ at' = "main"
  /\ UNCHANGED <<backupVars, on, storeVars, high64, masked, erased, rd, historyVars>>

IsrUnmask ==
  /\ at = "unmask" /\ IsrRuns
  /\ masked' = FALSE
  /\ at' = "main"
  /\ UNCHANGED <<backupVars, on, storeVars, high64, erased, rd, historyVars>>

Isr == IsrMask \/ IsrClear \/ IsrIncrement \/ IsrStore \/ IsrStored \/ IsrUnmask

-----------------------------------------------------------------------------
(* rtc_get64, in the main loop and in other interrupts. *)

Runs(r) == r = "main" => at = "main" /\ IsrRuns

getOnly == UNCHANGED <<backupVars, on, storeVars, high64, at, erased, historyVars>>

GetMask(r) ==
  /\ at = "main" \/ InHandler
  /\ rd[r].pc = "idle" /\ Runs(r) /\ ~masked
  /\ masked' = TRUE
  /\ rd' = [rd EXCEPT ![r].pc = "first"]
  /\ getOnly

GetFirst(r) ==
  /\ rd[r].pc = "first"
  /\ rd' = [rd EXCEPT ![r] = [@ EXCEPT !.pc = "high", !.first = counter]]
  /\ getOnly /\ UNCHANGED masked

GetHigh(r) ==
  /\ rd[r].pc = "high"
  /\ rd' = [rd EXCEPT ![r] = [@ EXCEPT !.pc = "flag", !.high = high64]]
  /\ getOnly /\ UNCHANGED masked

GetFlag(r) ==
  /\ rd[r].pc = "flag"
  /\ rd' = [rd EXCEPT ![r] = [@ EXCEPT !.pc = "unmask", !.overflew = of]]
  /\ getOnly /\ UNCHANGED masked

GetUnmask(r) ==
  /\ rd[r].pc = "unmask"
  /\ masked' = FALSE
  /\ rd' = [rd EXCEPT ![r].pc = "second"]
  /\ getOnly

(* The high part of the result; the counter's present value is the low part. *)
High(v) == v.high + (IF v.overflew \/ counter < v.first THEN 1 ELSE 0)

GetSecond(r) ==
  /\ rd[r].pc = "second" /\ Runs(r)
  /\ rd' = [rd EXCEPT ![r] = NoRead]
  /\ getOnly /\ UNCHANGED masked

GetOn(r) == GetFirst(r) \/ GetHigh(r) \/ GetFlag(r) \/ GetUnmask(r) \/ GetSecond(r)

-----------------------------------------------------------------------------
Next ==
  \/ Tick \/ PowerUp \/ PowerLoss \/ BackupLoss
  \/ Setup \/ StoreOn \/ IsrEnter \/ Isr
  \/ \E r \in Readers : GetMask(r) \/ GetOn(r)

(* The processor goes on with what it has begun while it has power, and no  *)
(* context is kept out for ever by the others.                               *)
Fairness ==
  /\ WF_vars(Setup) /\ WF_vars(StoreOn)
  /\ SF_vars(IsrEnter) /\ SF_vars(Isr)
  /\ \A r \in Readers : SF_vars(GetOn(r))

Spec == Init /\ [][Next]_vars /\ Fairness

-----------------------------------------------------------------------------
TypeOK ==
  /\ Regs!TypeOK
  /\ counter \in 0 .. M - 1 /\ {ready, of, masked} \subseteq BOOLEAN
  /\ high64 \in Word
  /\ at \in {"off", "setup", "init", "overflow", "retrieve", "erase", "reset", "resetting",
             "forget", "enable", "main", "mask", "clear", "increment", "store", "storing",
             "unmask"}
  /\ erased \in 0 .. 3
  /\ rd \in [Readers -> [pc : {"idle", "first", "high", "flag", "unmask", "second"},
                         first : 0 .. M - 1, high : Word, overflew : BOOLEAN,
                         age : 0 .. Duration]]
  /\ wraps \in Nat /\ lost \in Nat

Flag == IF of THEN 1 ELSE 0

(* However often the power fails, in the handler or in rtc_setup, the clock  *)
(* resumes with every wrap accounted for, or starts anew; the only wraps it  *)
(* does not know of are those that a power loss found uncommitted.           *)
Accounted ==
  at \in {"enable", "main", "mask", "clear", "unmask"} => high64 + Flag = wraps - lost

(* rtc_get64 returns the tick count of its second reading, whatever comes    *)
(* between its readings, but for the wraps that a power loss has swallowed.  *)
ReadExact ==
  \A r \in Readers : rd[r].pc = "second" => High(rd[r]) = wraps - lost

(* An overflow is seen to for as long as the power is there. *)
OverflowServed == of ~> (~of \/ ~on)

(* "Persists the tick count over poweroff situations [...] and detects       *)
(* overflows" (rtc-efm32burtc.c): the running clock knows of every wrap.     *)
PersistsTicks == at = "main" => high64 + Flag = wraps
=============================================================================
