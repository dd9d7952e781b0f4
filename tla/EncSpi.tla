------------------------------- MODULE EncSpi -------------------------------
(***************************************************************************)
(* The SPI commands of the driver (enc_RCR .. enc_SRC), the switching of   *)
(* register banks, and the lock of the ASF backend on a bus that other     *)
(* slaves share.  Each call is a series of commands; a command is          *)
(* enchw_select, its bytes and enchw_unselect.  The driver calls them in   *)
(* any order; chip and other users of the bus are external.                *)
(***************************************************************************)
EXTENDS EncRegisters

CONSTANTS
  TXRTS,  \* bit of ECON1 that the chip clears when it has sent
  Others  \* other slaves on the bus

ASSUME SpiAssumption == TXRTS \in Own /\ "enc" \notin Others

VARIABLES
  econ1,     \* chip: ECON1 as the set of its bits; BSEL is bits 0 and 1
  locked,    \* the lock of the SPI master
  sel,       \* slaves whose select line is low
  at,        \* where the driver is
  call,      \* the call at work
  todo,      \* what it still has to act on
  cur,       \* what it acts on next
  cmd,       \* the command for it: BFS or BFC on ECON1, or the call's own
  done,      \* history: what the chip has acted on for the call
  released   \* history: the driver has released a lock that was another's

busVars == <<locked, sel, released>>
vars == <<econ1, busVars, at, call, todo, cur, cmd, done>>

BSEL == {0, 1}

Init ==
  /\ econ1 \in SUBSET (Own \cup BSEL)  \* a restart finds the chip as it was
  /\ locked = FALSE /\ sel = {} /\ released = FALSE
  /\ at = "off"
  /\ call = NoCall /\ todo = {} /\ cur = Burst /\ cmd = "data" /\ done = {}

(* enchw_setup: wait for the lock, enable the master, unlock. *)
EnchwSetup ==
  /\ at = "off"
  /\ ~locked
  /\ at' = "idle"
  /\ UNCHANGED <<econ1, busVars, call, todo, cur, cmd, done>>

-----------------------------------------------------------------------------
(* Which commands it takes to reach a register. *)

LastUsed == 128  \* ENC_BANK_INDETERMINATE, which nothing replaces

BankZeroIsSet(r) ==  \* fault: takes bank 0 to be selected since the reset
  r = Burst \/ Banks(Value(r)) \in {192, 32}

Accessible(r) ==
  \/ r = Burst
  \/ Banks(Value(r)) = 192
  \/ Banks(Value(r)) = LastUsed

Bits(page) == {i \in BSEL : IF i = 0 THEN page % 2 = 1 ELSE page \div 2 = 1}
SetBits(r) == Bits(Page(Value(r)))
ClearBits(r) == BSEL \ SetBits(r)

FirstCmd(r) ==
  CASE Accessible(r) -> "data"
    [] ~Accessible(r) /\ SetBits(r) # {} -> "set"
    [] ~Accessible(r) /\ SetBits(r) = {} -> "clear"

NextCmd(r) == IF cmd = "set" /\ ClearBits(r) # {} THEN "clear" ELSE "data"

(* The chip's side of it: addresses 0x1a to 0x1f do not depend on BSEL. *)
Bank == (IF 0 \in econ1 THEN 1 ELSE 0) + (IF 1 \in econ1 THEN 2 ELSE 0)
Reached(a) == [bank |-> IF a >= 26 THEN All ELSE Bank, at |-> a]

-----------------------------------------------------------------------------
(* The driver. *)

Begin(c) ==
  /\ at = "idle"
  /\ call' = c
  /\ todo' = Targets(c)
  /\ at' = IF c.fn = "SRC" THEN "reset" ELSE "next"
  /\ UNCHANGED <<econ1, busVars, cur, cmd, done>>

(* enc_WCR16 writes the low byte first; in enc_RCR16 the compiler chooses. *)
HighFirst(r) == r = Burst => todo = {Burst}  \* fault: no order of the bytes
First(r) ==
  \/ call.fn = "RCR16"
  \/ IF r = Burst THEN todo = {Burst} ELSE r = High(r) => Low(r) \notin todo

NextAccess ==
  /\ at = "next"
  /\ \E r \in todo :
       /\ First(r)
       /\ cur' = r
       /\ cmd' = FirstCmd(r)
  /\ at' = "select"
  /\ UNCHANGED <<econ1, busVars, call, todo, done>>

(* enchw_select: while(spi_lock(dev->pmaster) != STATUS_OK); *)
SelectSpins ==
  /\ at = "select"
  /\ locked
  /\ UNCHANGED vars

Select ==
  /\ at = "select"
  /\ ~locked
  /\ locked' = TRUE
  /\ sel' = sel \cup {"enc"}
  /\ at' = "bytes"
  /\ UNCHANGED <<econ1, released, call, todo, cur, cmd, done>>

SwitchBankByWrite ==  \* fault: WCR in place of BFS and BFC
  /\ at = "bytes" /\ cmd # "data"
  /\ econ1' = SetBits(cur)
  /\ at' = "unselect"
  /\ UNCHANGED <<busVars, call, todo, cur, cmd, done>>

(* select_page, through enc_BFS and enc_BFC on ECON1. *)
SwitchBank ==
  /\ at = "bytes" /\ cmd # "data"
  /\ econ1' = IF cmd = "set" THEN econ1 \cup SetBits(cur) ELSE econ1 \ ClearBits(cur)
  /\ at' = "unselect"
  /\ UNCHANGED <<busVars, call, todo, cur, cmd, done>>

(* The command of the call itself. *)
Command ==
  /\ at = "bytes" /\ cmd = "data"
  /\ LET r == Reached(Address(Value(cur)))
     IN /\ done' = done \cup {r}
        /\ econ1' = CASE r = ECON1 /\ call.fn = "BFS" -> econ1 \cup call.data
                      [] r = ECON1 /\ call.fn = "BFC" -> econ1 \ call.data
                      [] OTHER -> econ1
  /\ todo' = todo \ {cur}
  /\ at' = "unselect"
  /\ UNCHANGED <<busVars, call, cur, cmd>>

(* Back in the caller: the locals of the call are gone. *)
Return ==
  /\ at' = "idle"
  /\ call' = NoCall /\ cur' = Burst /\ cmd' = "data" /\ done' = {}

KeepLock == UNCHANGED locked  \* fault: enchw_unselect without spi_unlock
Unlock == locked' = FALSE

(* enchw_unselect, and the way on. *)
Deselect ==
  /\ at = "unselect"
  /\ sel' = sel \ {"enc"}
  /\ Unlock
  /\ UNCHANGED <<econ1, released, todo>>

PageSelected ==
  /\ Deselect
  /\ cmd # "data"
  /\ cmd' = NextCmd(cur)
  /\ at' = "select"
  /\ UNCHANGED <<call, cur, done>>

MoreToDo ==
  /\ Deselect
  /\ cmd = "data" /\ (todo # {} \/ call.fn = "WBM")
  /\ at' = IF todo # {} THEN "next" ELSE "again"
  /\ UNCHANGED <<call, cur, cmd, done>>

CallDone ==
  /\ Deselect
  /\ cmd = "data" /\ todo = {} /\ call.fn # "WBM"
  /\ Return

(* WBM_raw unselects once more, "just triggering another pause"; here that *)
(* releases a lock that is another's by now, if it is held.                *)
UnselectAgain ==
  /\ at = "again"
  /\ sel' = sel \ {"enc"}
  /\ locked' = FALSE
  /\ released' = (released \/ locked)
  /\ Return
  /\ UNCHANGED <<econ1, todo>>

(* enc_SRC sends its byte without a lock and without selecting the chip. *)
SoftReset ==
  /\ at = "reset"
  /\ Return
  /\ UNCHANGED <<econ1, busVars, todo>>

-----------------------------------------------------------------------------
(* The others. *)

ChipSent ==
  /\ TXRTS \in econ1
  /\ econ1' = econ1 \ {TXRTS}
  /\ UNCHANGED <<busVars, at, call, todo, cur, cmd, done>>

OtherSelects(o) ==
  /\ ~locked
  /\ locked' = TRUE
  /\ sel' = sel \cup {o}
  /\ UNCHANGED <<econ1, released, at, call, todo, cur, cmd, done>>

OtherDone(o) ==
  /\ o \in sel
  /\ sel' = sel \ {o}
  /\ locked' = FALSE
  /\ UNCHANGED <<econ1, released, at, call, todo, cur, cmd, done>>

Driver ==
  \/ NextAccess \/ SwitchBank \/ Command
  \/ PageSelected \/ MoreToDo \/ CallDone \/ UnselectAgain \/ SoftReset

Next ==
  \/ EnchwSetup \/ (\E c \in Calls : Begin(c)) \/ SelectSpins \/ Select
  \/ Driver
  \/ ChipSent
  \/ \E o \in Others : OtherSelects(o) \/ OtherDone(o)

(* The others give the bus back, and leave it free at some of the moments *)
(* when the driver, spinning, looks.                                      *)
Fairness ==
  /\ WF_vars(Driver)
  /\ SF_vars(EnchwSetup) /\ SF_vars(Select)
  /\ \A o \in Others : WF_vars(OtherDone(o))

Spec == Init /\ [][Next]_vars /\ Fairness

-----------------------------------------------------------------------------
TypeOK ==
  /\ econ1 \subseteq Own \cup BSEL
  /\ locked \in BOOLEAN /\ released \in BOOLEAN
  /\ sel \subseteq Others \cup {"enc"}
  /\ at \in {"off", "idle", "next", "select", "bytes", "unselect", "again", "reset"}
  /\ call \in Calls \cup {NoCall}
  /\ todo \subseteq Registers \cup {Burst}
  /\ cur \in Registers \cup {Burst}
  /\ cmd \in {"set", "clear", "data"}
  /\ done \subseteq [bank : 0 .. All, at : 0 .. 31]

(* "dev->pmaster in enchw_exchangebyte is locked": while a command of the   *)
(* driver's is on the bus, the lock is held and no other slave is selected,  *)
(* however the other users come and go between two commands.                 *)
Exclusive == at = "bytes" => locked /\ sel = {"enc"}

(* Bank switching is invisible: whatever bank a restart left selected, each  *)
(* call acts on the registers it names, in the order they require, and no    *)
(* bit of ECON1 is lost or brought back on the way, TXRTS included, which    *)
(* the chip clears at any time.                                              *)
File == INSTANCE RegisterFile WITH own <- econ1 \ BSEL
ImplementsFile == File!Spec

(* No call waits for ever: neither for others nor for a lock of its own. *)
CallEnds == at # "idle" ~> at = "idle"
=============================================================================
