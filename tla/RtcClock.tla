------------------------------ MODULE RtcClock ------------------------------
(***************************************************************************)
(* The tick counter of efm32/enchw/rtc-efm32rtc.c: a 24 bit hardware       *)
(* counter that sets an overflow flag when it wraps, the interrupt handler *)
(* that counts the wraps in high32 and high64, and rtc_get32 / rtc_get64,  *)
(* which put the parts together while the counter runs on.                 *)
(*                                                                         *)
(* Three contexts share the processor: the main loop, the RTC interrupt    *)
(* handler, and another interrupt that may preempt both ("All functions    *)
(* are safe to be called from interrupts too", rtc.h).  CPSID keeps the    *)
(* interrupts out, never the hardware counter.  A tick count is the pair   *)
(* of its high part (the wraps) and its low part (the counter).            *)
(***************************************************************************)
EXTENDS Integers

CONSTANTS
  M,         \* values of the hardware counter (2^24)
  H,         \* values of high32 (2^8)
  Latency,   \* ticks within which the handler has cleared the flag
  Duration,  \* ticks that one rtc_get takes at most, preemption included
  MaxWraps   \* bound: wraps of the counter

(* "We rely on the flag to always be cleared in time", says the code. *)
ASSUME ClockAssumption ==
  /\ M \in Nat \ {0} /\ H \in Nat \ {0}
  /\ Latency \in Nat /\ Duration \in Nat /\ MaxWraps \in Nat
  /\ Latency + Duration < M

VARIABLES
  counter,   \* RTC->CNT
  of,        \* the overflow flag of RTC->IF
  high32,
  high64,
  masked,    \* interrupts are disabled (CPSID)
  isr,       \* where RTC_IRQHandler is
  rd,        \* for each reading context, where its rtc_get is and its locals
  wraps      \* history: wraps of the counter since rtc_setup

vars == <<counter, of, high32, high64, masked, isr, rd, wraps>>

Readers == {"main", "irq"}

(* age and wraps are history: ticks since the first reading, and wraps then. *)
NoRead == [pc |-> "idle", first |-> 0, h32 |-> 0, h64 |-> 0, overflew |-> FALSE,
           age |-> 0, wraps |-> 0]

(* The readings that lie between the two looks at the counter. *)
Timed(r) == rd[r].pc \in {"high", "flag", "unmask", "second"}

(* rtc_setup. *)
Init ==
  /\ counter = 0 /\ of = FALSE /\ high32 = 0 /\ high64 = 0
  /\ masked = FALSE
  /\ isr = "none"
  /\ rd = [r \in Readers |-> NoRead]
  /\ wraps = 0

-----------------------------------------------------------------------------
(* The counter runs on its own.  The guards are the assumptions on time. *)
Tick ==
  /\ of => counter < Latency
  /\ \A r \in Readers : Timed(r) => rd[r].age < Duration
  /\ counter = M - 1 => wraps < MaxWraps
  /\ counter' = IF counter = M - 1 THEN 0 ELSE counter + 1
  /\ wraps' = IF counter = M - 1 THEN wraps + 1 ELSE wraps
  /\ of' = (of \/ counter = M - 1)
  /\ rd' = [r \in Readers |-> IF Timed(r) THEN [rd[r] EXCEPT !.age = @ + 1] ELSE rd[r]]
  /\ UNCHANGED <<high32, high64, masked, isr>>

-----------------------------------------------------------------------------
(* RTC_IRQHandler, which the other interrupt may preempt but not main. *)

IsrRuns == rd["irq"].pc = "idle"

IsrEnter ==
  /\ isr = "none" /\ IsrRuns
  /\ of /\ ~masked
  /\ isr' = "mask"
  /\ UNCHANGED <<counter, of, high32, high64, masked, rd, wraps>>

IsrMask ==
  /\ isr = "mask" /\ IsrRuns
  /\ masked' = TRUE
  /\ isr' = "carry"
  /\ UNCHANGED <<counter, of, high32, high64, rd, wraps>>

CarriesLate(h) == h = 0  \* fault: tests high32 as if it had been incremented
Carries(h) == h = H - 1

IsrCarry ==
  /\ isr = "carry"
  /\ high64' = IF Carries(high32) THEN high64 + 1 ELSE high64
  /\ isr' = "increment"
  /\ UNCHANGED <<counter, of, high32, masked, rd, wraps>>

WiderThanByte(h) == h + 1  \* fault: high32 is not a uint8_t
Incremented(h) == IF h = H - 1 THEN 0 ELSE h + 1

IsrIncrement ==
  /\ isr = "increment"
  /\ high32' = Incremented(high32)
  /\ isr' = "clear"
  /\ UNCHANGED <<counter, of, high64, masked, rd, wraps>>

IsrClear ==
  /\ isr = "clear"
  /\ of' = FALSE
  /\ isr' = "unmask"
  /\ UNCHANGED <<counter, high32, high64, masked, rd, wraps>>

IsrStaysMasked ==  \* fault: returns without CPSIE
  /\ isr = "unmask"
  /\ isr' = "none"
  /\ UNCHANGED <<counter, of, high32, high64, masked, rd, wraps>>

IsrUnmask ==
  /\ isr = "unmask"
  /\ masked' = FALSE
  /\ isr' = "none"
  /\ UNCHANGED <<counter, of, high32, high64, rd, wraps>>

Isr == IsrMask \/ IsrCarry \/ IsrIncrement \/ IsrClear \/ IsrUnmask

-----------------------------------------------------------------------------
(* rtc_get32 and rtc_get64: the same readings, put together in two widths. *)

Runs(r) == r = "main" => isr = "none" /\ rd["irq"].pc = "idle"

(* CPSID.  The other interrupt comes in at any time when none is masked. *)
GetMask(r) ==
  /\ rd[r].pc = "idle" /\ Runs(r) /\ ~masked
  /\ masked' = TRUE
  /\ rd' = [rd EXCEPT ![r].pc = "first"]
  /\ UNCHANGED <<counter, of, high32, high64, isr, wraps>>

GetFirst(r) ==
  /\ rd[r].pc = "first"
  /\ rd' = [rd EXCEPT ![r] = [@ EXCEPT !.pc = "high", !.first = counter,
                                       !.age = 0, !.wraps = wraps]]
  /\ UNCHANGED <<counter, of, high32, high64, masked, isr, wraps>>

GetHigh(r) ==
  /\ rd[r].pc = "high"
  /\ rd' = [rd EXCEPT ![r] = [@ EXCEPT !.pc = "flag", !.h32 = high32, !.h64 = high64]]
  /\ UNCHANGED <<counter, of, high32, high64, masked, isr, wraps>>

GetFlag(r) ==
  /\ rd[r].pc = "flag"
  /\ rd' = [rd EXCEPT ![r] = [@ EXCEPT !.pc = "unmask", !.overflew = of]]
  /\ UNCHANGED <<counter, of, high32, high64, masked, isr, wraps>>

GetUnmask(r) ==
  /\ rd[r].pc = "unmask"
  /\ masked' = FALSE
  /\ rd' = [rd EXCEPT ![r].pc = "second"]
  /\ UNCHANGED <<counter, of, high32, high64, isr, wraps>>

(* overflew || (second < first), second being the counter's present value. *)
FlagOnly(v) == IF v.overflew THEN 1 ELSE 0  \* fault
Unaccounted(v) == IF v.overflew \/ counter < v.first THEN 1 ELSE 0

(* The high part of what the functions return; the counter is the low part. *)
High32(v) == (v.h32 + Unaccounted(v)) % H
High64(v) == (v.h64 * H) + v.h32 + Unaccounted(v)

GetSecond(r) ==
  /\ rd[r].pc = "second" /\ Runs(r)
  /\ rd' = [rd EXCEPT ![r] = NoRead]
  /\ UNCHANGED <<counter, of, high32, high64, masked, isr, wraps>>

GetOn(r) == GetFirst(r) \/ GetHigh(r) \/ GetFlag(r) \/ GetUnmask(r) \/ GetSecond(r)

-----------------------------------------------------------------------------
Next == Tick \/ IsrEnter \/ Isr \/ \E r \in Readers : GetMask(r) \/ GetOn(r)

(* The processor goes on with what it has begun, and no context is kept out *)
(* for ever by the others: a pending interrupt is taken as soon as it is    *)
(* let in.  The counter need not go on.                                     *)
Fairness ==
  /\ SF_vars(IsrEnter)
  /\ SF_vars(Isr)
  /\ \A r \in Readers : SF_vars(GetOn(r))

Spec == Init /\ [][Next]_vars /\ Fairness

-----------------------------------------------------------------------------
Low == 0 .. M - 1

ReadState ==
  [pc : {"idle", "first", "high", "flag", "unmask", "second"},
   first : Low, h32 : 0 .. H - 1, h64 : Nat, overflew : BOOLEAN, age : Nat, wraps : Nat]

TypeOK ==
  /\ counter \in Low /\ of \in BOOLEAN
  /\ high32 \in 0 .. H - 1 /\ high64 \in Nat
  /\ masked \in BOOLEAN
  /\ isr \in {"none", "mask", "carry", "increment", "clear", "unmask"}
  /\ rd \in [Readers -> ReadState]
  /\ wraps \in Nat

Counted == (high64 * H) + high32

(* Every wrap of the counter is accounted for exactly once, in high32 and    *)
(* high64 or in the flag, wherever the handler is interrupted or kept out;   *)
(* only within its masked section are the three in disagreement.             *)
Accounted ==
  isr \notin {"increment", "clear"} => Counted + (IF of THEN 1 ELSE 0) = wraps

(* Whatever happens between the readings (the counter wraps, the flag is     *)
(* set, the handler or another interrupt that reads the clock too comes in), *)
(* rtc_get64 and rtc_get32 return the tick count of the moment they look at  *)
(* the counter for the second time.                                          *)
ReadExact ==
  \A r \in Readers : rd[r].pc = "second" =>
    /\ High64(rd[r]) = wraps
    /\ High32(rd[r]) = wraps % H

(* No wrap stays in the flag, where the next one would be lost. *)
FlagCleared == of ~> ~of
=============================================================================
