---------------------------- MODULE EncSpiProofs ----------------------------
(***************************************************************************)
(* Proofs about EncSpi: for every set of registers called for, every set   *)
(* of bits of ECON1 that callers use, and any number of other slaves.      *)
(***************************************************************************)
EXTENDS EncSpi, FiniteSetTheorems, TLAPS

(* What the place of the driver says about its call. *)
Course ==
  /\ at \in {"off", "idle"} <=> call = NoCall
  /\ at \in {"off", "idle"} => todo = {}
  /\ todo \subseteq Targets(call)
  /\ done = Targets(call) \ todo
  /\ at \in {"select", "bytes"} => cur \in todo /\ First(cur)
  /\ at = "unselect" /\ cmd # "data" => cur \in todo /\ First(cur)
  /\ at \in {"again", "reset"} => todo = {}

(* How far the switch to the register's bank has come. *)
Switched ==
  /\ at \in {"select", "bytes"} /\ cmd = "clear" => SetBits(cur) \subseteq econ1
  /\ at \in {"select", "bytes"} /\ cmd = "data" =>
       Accessible(cur) \/ econ1 \cap BSEL = SetBits(cur)
  /\ at = "unselect" /\ cmd = "set" => SetBits(cur) \subseteq econ1
  /\ at = "unselect" /\ cmd = "clear" => econ1 \cap BSEL = SetBits(cur)

(* Who has the bus. *)
Bus ==
  /\ "enc" \in sel <=> at \in {"bytes", "unselect"}
  /\ ~released => (locked <=> sel # {}) /\ \A s, t \in sel : s = t

IInv == TypeOK /\ Course /\ Switched /\ Bus

-----------------------------------------------------------------------------
(* Registers and their encoding. *)

(* The bits of a bank number, and back. *)
LEMMA BitsOfBanks ==
  /\ Bits(0) = {} /\ Bits(1) = {0} /\ Bits(2) = {1} /\ Bits(3) = {0, 1}
BY DEF Bits, BSEL

(* Banks and addresses of registers. *)
LEMMA RegisterRange ==
  ASSUME NEW r \in Registers \cup {Burst}
  PROVE  /\ r \in [bank : 0 .. All, at : 0 .. 31]
         /\ r = [bank |-> r.bank, at |-> r.at]
         /\ r.bank = All <=> r.at >= 26
BY DEF Registers, Wide, R, Burst, All

(* The enum's value holds the address. *)
LEMMA AddressOfValue ==
  ASSUME NEW r \in Registers \cup {Burst}
  PROVE  Address(Value(r)) = r.at
<1>1. r.bank \in 0 .. 4 /\ r.at \in 0 .. 31
  BY RegisterRange DEF All
<1>2. CASE r.bank = 4
  BY <1>1, <1>2 DEF Address, Value, BankBits, All
<1>3. CASE r.bank \in 0 .. 3
  BY <1>1, <1>3 DEF Address, Value, BankBits, All
<1> QED
  BY <1>1, <1>2, <1>3

(* It holds the bank, and only a register of every bank looks like one. *)
LEMMA BankOfValue ==
  ASSUME NEW r \in Registers \cup {Burst}
  PROVE  /\ Accessible(r) => r.bank = All
         /\ r.bank # All => SetBits(r) = Bits(r.bank)
<1>1. r.bank \in 0 .. 4 /\ r.at \in 0 .. 31
  BY RegisterRange DEF All
<1>2. r = Burst => r.bank = All
  BY DEF Burst
<1>3. CASE r.bank = 4
  BY <1>3 DEF All
<1>4. CASE r.bank \in 0 .. 3
  <2>1. Banks(Value(r)) = 64 * r.bank + 32
    BY <1>1, <1>4 DEF Banks, Value, BankBits, All
  <2>2. Page(Value(r)) = r.bank
    BY <1>1, <1>4 DEF Page, Value, BankBits, All
  <2> QED
    BY <1>2, <1>4, <2>1, <2>2 DEF Accessible, LastUsed, SetBits, All
<1> QED
  BY <1>1, <1>3, <1>4

(* With the bank selected the chip finds the register that is meant. *)
LEMMA ReachesRegister ==
  ASSUME NEW r \in Registers \cup {Burst},
         Accessible(r) \/ econ1 \cap BSEL = SetBits(r)
  PROVE  Reached(Address(Value(r))) = r
<1>1. Address(Value(r)) = r.at /\ r = [bank |-> r.bank, at |-> r.at]
  BY AddressOfValue, RegisterRange
<1>2. CASE r.bank = All
  BY <1>1, <1>2, RegisterRange DEF Reached
<1>3. CASE r.bank # All
  <2>1. econ1 \cap BSEL = Bits(r.bank)
    BY <1>3, BankOfValue
  <2>2. r.bank \in 0 .. 3 /\ ~(r.at >= 26)
    BY <1>3, RegisterRange DEF All
  <2>3. Bank = r.bank
    <3>1. CASE r.bank = 0
      BY <2>1, <3>1, BitsOfBanks DEF Bank, BSEL
    <3>2. CASE r.bank = 1
      BY <2>1, <3>2, BitsOfBanks DEF Bank, BSEL
    <3>3. CASE r.bank = 2
      BY <2>1, <3>3, BitsOfBanks DEF Bank, BSEL
    <3>4. CASE r.bank = 3
      BY <2>1, <3>4, BitsOfBanks DEF Bank, BSEL
    <3> QED
      BY <2>2, <3>1, <3>2, <3>3, <3>4
  <2> QED
    BY <1>1, <2>2, <2>3 DEF Reached
<1> QED
  BY <1>2, <1>3

(* The two bytes of a 16-bit register. *)
LEMMA Halves ==
  ASSUME NEW r \in Wide
  PROVE  /\ Low(r) \in Wide /\ High(r) \in Wide
         /\ High(Low(r)) = High(r) /\ Low(High(r)) = Low(r)
         /\ High(High(r)) = High(r)
         /\ Low(r).at < High(r).at
         /\ Low(r) # Burst /\ High(r) # Burst
<1>1. PICK b \in {0, 2, 3}, a \in 0 .. 31 : r = [bank |-> b, at |-> a]
  BY DEF Wide, R
<1>2. Low(r) = [bank |-> b, at |-> a - (a % 2)] /\ High(r) = [bank |-> b, at |-> a - (a % 2) + 1]
  BY <1>1 DEF Low, High
<1>3. CASE b = 0
  <2>1. a \in (0 .. 13) \cup (16 .. 19) \cup {22, 23}
    BY <1>1, <1>3 DEF Wide, R
  <2>2. a - (a % 2) \in (0 .. 13) \cup (16 .. 19) \cup {22, 23}
    BY <2>1
  <2>3. a - (a % 2) + 1 \in (0 .. 13) \cup (16 .. 19) \cup {22, 23}
    BY <2>1
  <2> QED
    BY <1>2, <1>3, <2>1, <2>2, <2>3 DEF Wide, R, Low, High, Burst, All
<1>4. CASE b = 2
  <2>1. a \in {6, 7, 22, 23, 24, 25}
    BY <1>1, <1>4 DEF Wide, R
  <2> QED
    BY <1>2, <1>4, <2>1 DEF Wide, R, Low, High, Burst, All
<1>5. CASE b = 3
  <2>1. a \in {8, 9}
    BY <1>1, <1>5 DEF Wide, R
  <2> QED
    BY <1>2, <1>5, <2>1 DEF Wide, R, Low, High, Burst, All
<1> QED
  BY <1>3, <1>4, <1>5

(* What calls are given, and what they act on. *)
LEMMA CallShape ==
  ASSUME NEW c \in Calls \cup {NoCall}
  PROVE  /\ c.reg \in Registers \cup {Burst}
         /\ c.data \subseteq Own
         /\ c.fn \in {"RCR", "WCR", "BFS", "BFC", "RCR16", "WCR16", "RBM", "WBM", "SRC", "none"}
         /\ c.fn \in {"RCR16", "WCR16"} => c.reg \in Wide
         /\ c.fn \in {"RBM", "WBM"} /\ c.reg # Burst => c.reg \in Wide
         /\ c.fn = "WBM" => c.reg # Burst
         /\ c.fn = "none" <=> c = NoCall
         /\ c.fn = "SRC" => c # NoCall
<1>1. Called \subseteq Registers /\ ECON1 \in Registers /\ Wide \subseteq Registers
  BY CallAssumption DEF Registers, ECON1, R, All
<1>2. ERDPTL \in Wide /\ EWRPTL \in Wide /\ ERDPTL # Burst /\ EWRPTL # Burst
  BY DEF Wide, R, ERDPTL, EWRPTL, Burst, All
<1>3. CASE c \in Call({"RCR"}, Called, {{}})
  BY <1>1, <1>3 DEF Call, NoCall
<1>4. CASE c \in Call({"WCR", "BFS", "BFC"}, Called \ {ECON1}, {{}})
  BY <1>1, <1>4 DEF Call, NoCall
<1>5. CASE c \in Call({"BFS", "BFC"}, {ECON1}, SUBSET Own)
  BY <1>1, <1>5 DEF Call, NoCall
<1>6. CASE c \in Call({"RCR16", "WCR16"}, Called \cap Wide, {{}})
  BY <1>1, <1>6 DEF Call, NoCall
<1>7. CASE c \in Call({"RBM"}, {ERDPTL, Burst}, {{}})
  BY <1>1, <1>2, <1>7 DEF Call, NoCall
<1>8. CASE c \in Call({"WBM"}, {EWRPTL}, {{}})
  BY <1>1, <1>2, <1>8 DEF Call, NoCall
<1>9. CASE c \in Call({"SRC"}, {Burst}, {{}})
  BY <1>9 DEF Call, NoCall
<1>10. CASE c = NoCall
  BY <1>10 DEF NoCall
<1> QED
  BY <1>3, <1>4, <1>5, <1>6, <1>7, <1>8, <1>9, <1>10 DEF Calls

(* A call of one register, of one pointer, or of a pointer and the memory. *)
LEMMA TargetShape ==
  ASSUME NEW c \in Calls \cup {NoCall}
  PROVE  \/ c.fn \notin {"RCR16", "WCR16", "RBM", "WBM"} /\ Targets(c) \subseteq {c.reg}
         \/ Targets(c) = {Burst}
         \/ c.reg \in Wide /\ Targets(c) \subseteq {Low(c.reg), High(c.reg), Burst}
<1> QED
  BY CallShape, Zenon DEF Targets

LEMMA TargetsType ==
  ASSUME NEW c \in Calls \cup {NoCall}
  PROVE  Targets(c) \subseteq Registers \cup {Burst}
<1>1. Wide \subseteq Registers
  BY DEF Registers
<1>2. c.reg \in Registers \cup {Burst}
  BY CallShape
<1>3. CASE Targets(c) \subseteq {c.reg} \/ Targets(c) = {Burst}
  BY <1>2, <1>3
<1>4. CASE c.reg \in Wide /\ Targets(c) \subseteq {Low(c.reg), High(c.reg), Burst}
  <2>1. Low(c.reg) \in Wide /\ High(c.reg) \in Wide
    BY <1>4, Halves
  <2> QED
    BY <1>1, <1>4, <2>1
<1> QED
  BY <1>3, <1>4, TargetShape

LEMMA NothingToDo == Targets(NoCall) = {}
BY DEF Targets, NoCall

LEMMA ResetTargets ==
  ASSUME NEW c, c.fn = "SRC"
  PROVE  Targets(c) = {}
BY DEF Targets

-----------------------------------------------------------------------------
(* The invariant. *)

LEMMA InitIInv == Init => IInv
<1> SUFFICES ASSUME Init PROVE IInv
  OBVIOUS
<1> USE DEF Init
<1>1. TypeOK
  BY Zenon DEF TypeOK
<1>2. Course
  BY NothingToDo DEF Course
<1>3. Switched /\ Bus
  BY DEF Switched, Bus
<1> QED
  BY <1>1, <1>2, <1>3 DEF IInv

LEMMA SetupStep == IInv /\ EnchwSetup => IInv'
<1> SUFFICES ASSUME IInv, EnchwSetup PROVE IInv'
  OBVIOUS
<1> USE DEF IInv, EnchwSetup, busVars
<1>1. TypeOK'
  BY DEF TypeOK
<1>2. Course'
  BY DEF Course, First
<1>3. Switched' /\ Bus'
  BY DEF Switched, Bus
<1> QED
  BY <1>1, <1>2, <1>3

LEMMA BeginStep == ASSUME IInv, NEW c \in Calls, Begin(c) PROVE IInv'
<1> USE DEF IInv, Begin, busVars
<1>1. c # NoCall /\ (c.fn = "SRC" => Targets(c) = {})
  <2>1. c.fn # "none"
    BY DEF Calls, Call
  <2> QED
    BY <2>1, ResetTargets DEF NoCall
<1>2. Targets(c) \subseteq Registers \cup {Burst}
  BY TargetsType
<1>3. TypeOK'
  BY <1>2 DEF TypeOK
<1>4. Course'
  <2>1. done = {}
    BY NothingToDo DEF Course
  <2> QED
    BY <1>1, <2>1 DEF Course
<1>5. Switched' /\ Bus'
  BY DEF Switched, Bus
<1> QED
  BY <1>3, <1>4, <1>5

LEMMA NextAccessStep == IInv /\ NextAccess => IInv'
<1> SUFFICES ASSUME IInv, NextAccess PROVE IInv'
  OBVIOUS
<1> USE DEF IInv, NextAccess, busVars
<1>1. PICK r \in todo : First(r) /\ cur' = r /\ cmd' = FirstCmd(r)
  OBVIOUS
<1>2. r \in Registers \cup {Burst}
  BY DEF TypeOK
<1>3. /\ cmd' \in {"set", "clear", "data"}
      /\ cmd' = "data" => Accessible(r)
      /\ cmd' = "clear" => SetBits(r) = {}
  BY <1>1, Zenon DEF FirstCmd
<1>4. TypeOK'
  BY <1>1, <1>2, <1>3 DEF TypeOK
<1>5. Course'
  BY <1>1 DEF Course, First
<1>6. Switched'
  BY <1>1, <1>3 DEF Switched, Accessible, SetBits
<1>7. Bus'
  BY DEF Bus
<1> QED
  BY <1>4, <1>5, <1>6, <1>7

LEMMA SelectStep == IInv /\ Select => IInv'
<1> SUFFICES ASSUME IInv, Select PROVE IInv'
  OBVIOUS
<1> USE DEF IInv, Select
<1>1. TypeOK'
  BY DEF TypeOK
<1>2. Course'
  BY DEF Course, First
<1>3. Switched'
  BY DEF Switched, Accessible, SetBits
<1>4. Bus'
  BY DEF Bus
<1> QED
  BY <1>1, <1>2, <1>3, <1>4

LEMMA SwitchBankStep == IInv /\ SwitchBank => IInv'
<1> SUFFICES ASSUME IInv, SwitchBank PROVE IInv'
  OBVIOUS
<1> USE DEF IInv, SwitchBank, busVars
<1>1. SetBits(cur) \subseteq BSEL /\ ClearBits(cur) = BSEL \ SetBits(cur)
  BY DEF SetBits, Bits, ClearBits
<1>2. TypeOK'
  BY <1>1 DEF TypeOK
<1>3. Course'
  BY DEF Course, First
<1>4. Switched'
  <2>1. cmd = "set" => econ1' = econ1 \cup SetBits(cur)
    OBVIOUS
  <2>2. cmd = "clear" => econ1' = econ1 \ ClearBits(cur) /\ SetBits(cur) \subseteq econ1
    BY DEF Switched
  <2>3. cmd' = "set" => SetBits(cur)' \subseteq econ1'
    BY <2>1 DEF SetBits
  <2>4. cmd' = "clear" => (econ1 \cap BSEL = SetBits(cur))'
    BY <1>1, <2>2 DEF SetBits
  <2> QED
    BY <2>3, <2>4 DEF Switched
<1>5. Bus'
  BY DEF Bus
<1> QED
  BY <1>2, <1>3, <1>4, <1>5

(* The call's own command reaches the register that the call means. *)
LEMMA CommandReaches ==
  ASSUME IInv, Command
  PROVE  /\ cur \in todo
         /\ cur \in Registers \cup {Burst}
         /\ First(cur)
         /\ Reached(Address(Value(cur))) = cur
<1>1. cur \in todo /\ First(cur) /\ cur \in Registers \cup {Burst}
  BY DEF IInv, Command, Course, TypeOK
<1>2. Accessible(cur) \/ econ1 \cap BSEL = SetBits(cur)
  BY DEF IInv, Command, Switched
<1> QED
  BY <1>1, <1>2, ReachesRegister

(* ECON1 changes as the call says, and only in the callers' bits. *)
LEMMA CommandEffect ==
  ASSUME IInv, Command
  PROVE  /\ done' = done \cup {cur}
         /\ econ1' = CASE cur = ECON1 /\ call.fn = "BFS" -> econ1 \cup call.data
                       [] cur = ECON1 /\ call.fn = "BFC" -> econ1 \ call.data
                       [] OTHER -> econ1
         /\ call.data \subseteq Own
         /\ econ1' \in {econ1 \cup call.data, econ1 \ call.data, econ1}
<1>1. Reached(Address(Value(cur))) = cur
  BY CommandReaches
<1>2. call.data \subseteq Own
  BY CallShape DEF IInv, TypeOK
<1>3. /\ done' = done \cup {cur}
      /\ econ1' = CASE cur = ECON1 /\ call.fn = "BFS" -> econ1 \cup call.data
                    [] cur = ECON1 /\ call.fn = "BFC" -> econ1 \ call.data
                    [] OTHER -> econ1
  BY <1>1, Zenon DEF Command
<1>4. econ1' \in {econ1 \cup call.data, econ1 \ call.data, econ1}
  BY <1>3
<1> QED
  BY <1>2, <1>3, <1>4

LEMMA CommandStep == IInv /\ Command => IInv'
<1> SUFFICES ASSUME IInv, Command PROVE IInv'
  OBVIOUS
<1>1. /\ at = "bytes" /\ cmd = "data" /\ at' = "unselect"
      /\ todo' = todo \ {cur} /\ call' = call /\ cur' = cur /\ cmd' = cmd
      /\ locked' = locked /\ sel' = sel /\ released' = released
  BY DEF Command, busVars
<1>2. done' = done \cup {cur} /\ econ1' \subseteq econ1 \cup Own /\ cur \in todo
  BY CommandEffect, CommandReaches
<1>3. TypeOK'
  <2>1. cur \in [bank : 0 .. All, at : 0 .. 31]
    BY CommandReaches, RegisterRange
  <2> QED
    BY <1>1, <1>2, <2>1 DEF IInv, TypeOK
<1>4. Course'
  BY <1>1, <1>2 DEF IInv, Course
<1>5. Switched'
  BY <1>1 DEF Switched
<1>6. Bus'
  BY <1>1 DEF IInv, Bus
<1> QED
  BY <1>3, <1>4, <1>5, <1>6 DEF IInv

LEMMA PageSelectedStep == IInv /\ PageSelected => IInv'
<1> SUFFICES ASSUME IInv, PageSelected PROVE IInv'
  OBVIOUS
<1> USE DEF IInv, PageSelected, Deselect, Unlock
<1>1. cmd' \in {"clear", "data"}
  BY DEF NextCmd
<1>2. TypeOK'
  BY <1>1 DEF TypeOK
<1>3. Course'
  BY DEF Course, First
<1>4. Switched'
  <2>1. SetBits(cur) \subseteq BSEL /\ ClearBits(cur) = BSEL \ SetBits(cur)
    BY DEF SetBits, Bits, ClearBits
  <2>2. cmd' = "clear" => SetBits(cur) \subseteq econ1
    BY DEF NextCmd, Switched
  <2>3. cmd' = "data" => econ1 \cap BSEL = SetBits(cur)
    BY <2>1 DEF NextCmd, Switched, TypeOK
  <2> QED
    BY <1>1, <2>2, <2>3 DEF Switched, SetBits
<1>5. Bus'
  BY SpiAssumption DEF Bus
<1> QED
  BY <1>2, <1>3, <1>4, <1>5

LEMMA MoreToDoStep == IInv /\ MoreToDo => IInv'
<1> SUFFICES ASSUME IInv, MoreToDo PROVE IInv'
  OBVIOUS
<1> USE DEF IInv, MoreToDo, Deselect, Unlock
<1>1. TypeOK'
  BY DEF TypeOK
<1>2. Course'
  BY DEF Course
<1>3. Switched'
  BY DEF Switched
<1>4. Bus'
  BY DEF Bus
<1> QED
  BY <1>1, <1>2, <1>3, <1>4

(* The return leaves nothing of the call behind. *)
LEMMA ReturnIdle ==
  ASSUME IInv, Return, todo = {}, UNCHANGED todo
  PROVE  Course' /\ Switched'
BY NothingToDo DEF Return, Course, Switched

LEMMA CallDoneStep == IInv /\ CallDone => IInv'
<1> SUFFICES ASSUME IInv, CallDone PROVE IInv'
  OBVIOUS
<1> USE DEF IInv, CallDone, Deselect, Unlock
<1>1. TypeOK'
  BY DEF TypeOK, Return
<1>2. Course' /\ Switched'
  BY ReturnIdle
<1>3. Bus'
  BY DEF Bus, Return
<1> QED
  BY <1>1, <1>2, <1>3

LEMMA UnselectAgainStep == IInv /\ UnselectAgain => IInv'
<1> SUFFICES ASSUME IInv, UnselectAgain PROVE IInv'
  OBVIOUS
<1> USE DEF IInv, UnselectAgain
<1>0. released' \in BOOLEAN /\ (~released' => ~released /\ ~locked)
  BY Zenon DEF TypeOK
<1>1. TypeOK'
  BY <1>0 DEF TypeOK, Return
<1>2. Course' /\ Switched'
  BY ReturnIdle DEF Course
<1>3. Bus'
  BY <1>0 DEF Bus, Return
<1> QED
  BY <1>1, <1>2, <1>3

LEMMA SoftResetStep == IInv /\ SoftReset => IInv'
<1> SUFFICES ASSUME IInv, SoftReset PROVE IInv'
  OBVIOUS
<1> USE DEF IInv, SoftReset, busVars
<1>1. TypeOK'
  BY DEF TypeOK, Return
<1>2. Course' /\ Switched'
  BY ReturnIdle DEF Course
<1>3. Bus'
  BY DEF Bus, Return
<1> QED
  BY <1>1, <1>2, <1>3

LEMMA ChipSentStep == IInv /\ ChipSent => IInv'
<1> SUFFICES ASSUME IInv, ChipSent PROVE IInv'
  OBVIOUS
<1> USE DEF IInv, ChipSent, busVars
<1>1. TXRTS \notin BSEL
  BY SpiAssumption, CallAssumption DEF BSEL
<1>2. TypeOK'
  BY DEF TypeOK
<1>3. Course'
  BY DEF Course, First
<1>4. Switched'
  <2>1. SetBits(cur) \subseteq BSEL
    BY DEF SetBits, Bits
  <2>2. econ1' \cap BSEL = econ1 \cap BSEL
    BY <1>1
  <2>3. SetBits(cur) \subseteq econ1 => SetBits(cur) \subseteq econ1'
    BY <2>1, <2>2
  <2> QED
    BY <2>2, <2>3 DEF Switched, SetBits, Accessible
<1>5. Bus'
  BY DEF Bus
<1> QED
  BY <1>2, <1>3, <1>4, <1>5

LEMMA OtherStep ==
  ASSUME IInv, NEW o \in Others, OtherSelects(o) \/ OtherDone(o)
  PROVE  IInv'
<1> USE DEF IInv, OtherSelects, OtherDone
<1>1. o # "enc"
  BY SpiAssumption
<1>2. TypeOK'
  BY DEF TypeOK
<1>3. Course'
  BY DEF Course, First
<1>4. Switched'
  BY DEF Switched, SetBits, Accessible
<1>5. Bus'
  BY <1>1 DEF Bus
<1> QED
  BY <1>2, <1>3, <1>4, <1>5

LEMMA StutterStep == IInv /\ UNCHANGED vars => IInv'
<1> SUFFICES ASSUME IInv, UNCHANGED vars PROVE IInv'
  OBVIOUS
<1> USE DEF IInv, vars, busVars
<1>1. TypeOK'
  BY DEF TypeOK
<1>2. Course'
  BY DEF Course, First
<1>3. Switched'
  BY DEF Switched, SetBits, Accessible
<1>4. Bus'
  BY DEF Bus
<1> QED
  BY <1>1, <1>2, <1>3, <1>4

LEMMA StepIInv == IInv /\ [Next]_vars => IInv'
<1> SUFFICES ASSUME IInv, [Next]_vars PROVE IInv'
  OBVIOUS
<1>1. CASE SelectSpins \/ UNCHANGED vars
  BY <1>1, StutterStep DEF SelectSpins
<1>2. CASE \E c \in Calls : Begin(c)
  BY <1>2, BeginStep
<1>3. CASE \E o \in Others : OtherSelects(o) \/ OtherDone(o)
  BY <1>3, OtherStep
<1>4. CASE Driver
  BY <1>4, NextAccessStep, SwitchBankStep, CommandStep, PageSelectedStep, MoreToDoStep,
     CallDoneStep, UnselectAgainStep, SoftResetStep DEF Driver
<1> QED
  BY <1>1, <1>2, <1>3, <1>4, SetupStep, SelectStep, ChipSentStep DEF Next

LEMMA AlwaysIInv == Spec => []IInv
<1> QED
  BY InitIInv, StepIInv, PTL DEF Spec

(* Registers, bus and locals of the SPI layer keep to their types, for every *)
(* set of registers and of slaves.                                           *)
THEOREM TypeCorrect == Spec => []TypeOK
<1>1. IInv => TypeOK
  BY DEF IInv
<1> QED
  BY <1>1, AlwaysIInv, PTL

(* The driver releases a lock that is another's. *)
BreaksIn == ~released /\ released' =>
  UnselectAgain /\ locked /\ \E o \in Others : o \in sel

LEMMA StepBreaksIn == IInv /\ [Next]_vars => BreaksIn
<1> SUFFICES ASSUME IInv, [Next]_vars, ~released, released'
             PROVE  UnselectAgain /\ locked /\ \E o \in Others : o \in sel
  BY DEF BreaksIn
<1>1. UnselectAgain
  BY DEF Next, Driver, EnchwSetup, Begin, SelectSpins, Select, NextAccess, SwitchBank, Command,
     PageSelected, MoreToDo, CallDone, Deselect, SoftReset, ChipSent, OtherSelects, OtherDone,
     vars, busVars
<1>2. locked /\ at = "again"
  BY <1>1 DEF UnselectAgain
<1>3. sel # {} /\ "enc" \notin sel /\ sel \subseteq Others \cup {"enc"}
  BY <1>2 DEF IInv, Bus, TypeOK
<1> QED
  BY <1>1, <1>2, <1>3

(* Nothing the driver does can break into another's use of the bus, or let   *)
(* another into its own, but the second enchw_unselect of WBM_raw, and this   *)
(* only when another slave has been selected since the first: it is in a step *)
(* of this kind that the lock is lost, and until one has been taken the       *)
(* comment of the ASF backend (asf/enchw/enchw.c) holds.                      *)
THEOREM OnlyUnselectAgainReleases ==
  Spec => [](~Exclusive => released) /\ [][BreaksIn]_vars
<1>1. IInv => (~Exclusive => released)
  BY DEF IInv, Bus, Exclusive
<1>2. IInv /\ [Next]_vars => [BreaksIn]_vars
  BY StepBreaksIn
<1> QED
  BY <1>1, <1>2, AlwaysIInv, PTL DEF Spec

-----------------------------------------------------------------------------
(* The file of registers. *)

(* Both modules read the same calls. *)
LEMMA SameTargets ==
  ASSUME NEW c
  PROVE  File!Targets(c) = Targets(c)
BY DEF File!Targets, Targets, File!Low, Low, File!High, High, File!Burst, Burst,
       File!All, All

(* The order of the driver is the one that the file asks for. *)
LEMMA OrderKept ==
  ASSUME NEW c \in Calls \cup {NoCall}, NEW S \in SUBSET Targets(c), NEW r \in S,
         c.fn # "RCR16",
         IF r = Burst THEN S = {Burst} ELSE r = High(r) => Low(r) \notin S
  PROVE  \A other \in S \ {r} : other = Burst \/ (r # Burst /\ r.at < other.at)
<1>1. CASE Targets(c) \subseteq {c.reg} \/ Targets(c) = {Burst}
  BY <1>1
<1>2. CASE c.reg \in Wide /\ Targets(c) \subseteq {Low(c.reg), High(c.reg), Burst}
  <2>1. CASE r = Burst
    BY <2>1
  <2>2. CASE r = Low(c.reg)
    BY <1>2, <2>2, Halves
  <2>3. CASE r = High(c.reg) /\ r # Burst
    BY <1>2, <2>3, Halves
  <2> QED
    BY <1>2, <2>1, <2>2, <2>3
<1> QED
  BY <1>1, <1>2, TargetShape

LEMMA FileInit == Init => File!Init
<1> SUFFICES ASSUME Init PROVE File!Init
  OBVIOUS
<1>1. econ1 \ BSEL \in SUBSET Own
  BY DEF Init
<1> QED
  BY <1>1 DEF Init, File!Init, File!NoCall, NoCall, File!Burst, Burst, File!All, All

LEMMA FileReturn ==
  ASSUME IInv, Return, todo = {}, econ1' = econ1
  PROVE  File!Return
<1>1. Targets(call) \ done = {}
  BY DEF IInv, Course
<1> QED
  BY <1>1, SameTargets DEF File!Return, File!Todo, Return, File!NoCall, NoCall, File!Burst,
     Burst, File!All, All

LEMMA FileStep == IInv /\ [Next]_vars => [File!Next]_(File!vars)
<1> SUFFICES ASSUME IInv, [Next]_vars PROVE [File!Next]_(File!vars)
  OBVIOUS
<1>1. ASSUME UNCHANGED <<call, done, econ1>> PROVE UNCHANGED File!vars
  BY <1>1 DEF File!vars
<1>2. CASE UNCHANGED vars \/ SelectSpins \/ EnchwSetup \/ Select
  BY <1>1, <1>2 DEF vars, busVars, SelectSpins, EnchwSetup, Select
<1>3. ASSUME NEW c \in Calls, Begin(c) PROVE File!Next
  <2>1. c \in File!Calls
    BY DEF Calls, File!Calls, Call, File!Call, ERDPTL, File!ERDPTL, EWRPTL, File!EWRPTL, Burst,
       File!Burst, ECON1, File!ECON1, Wide, File!Wide, R, File!R, All, File!All
  <2>2. call = NoCall
    BY <1>3 DEF IInv, Course, Begin
  <2> QED
    BY <1>3, <2>1, <2>2 DEF File!Next, File!Begin, Begin, File!NoCall, NoCall, File!Burst, Burst,
       File!All, All
<1>4. CASE NextAccess \/ PageSelected \/ MoreToDo
  BY <1>1, <1>4 DEF NextAccess, PageSelected, MoreToDo, Deselect, busVars
<1>5. CASE SwitchBank
  <2>1. SetBits(cur) \subseteq BSEL /\ ClearBits(cur) \subseteq BSEL
    BY DEF SetBits, Bits, ClearBits
  <2>2. econ1' \ BSEL = econ1 \ BSEL /\ call' = call /\ done' = done
    BY <1>5, <2>1 DEF SwitchBank
  <2> QED
    BY <2>2 DEF File!vars
<1>6. CASE Command
  <2>1. /\ cur \in todo /\ First(cur)
        /\ todo = Targets(call) \ done /\ todo \subseteq Targets(call)
        /\ call \in Calls \cup {NoCall}
    BY <1>6, CommandReaches DEF IInv, Course, TypeOK
  <2>2. File!Todo = todo
    BY <2>1, SameTargets DEF File!Todo
  <2>3. File!InOrder(cur)
    <3>1. CASE call.fn = "RCR16"
      BY <3>1 DEF File!InOrder
    <3>2. CASE call.fn # "RCR16"
      <4>1. \A other \in todo \ {cur} : other = Burst \/ (cur # Burst /\ cur.at < other.at)
        BY <2>1, <3>2, OrderKept DEF First
      <4> QED
        BY <2>2, <4>1 DEF File!InOrder, File!Burst, Burst, File!All, All
    <3> QED
      BY <3>1, <3>2
  <2>4. Own \cap BSEL = {}
    BY CallAssumption DEF BSEL
  <2>5. econ1' \ BSEL = CASE cur = ECON1 /\ call.fn = "BFS" -> (econ1 \ BSEL) \cup call.data
                          [] cur = ECON1 /\ call.fn = "BFC" -> (econ1 \ BSEL) \ call.data
                          [] OTHER -> econ1 \ BSEL
    BY <1>6, <2>4, CommandEffect
  <2>6. done' = done \cup {cur} /\ call' = call
    BY <1>6, CommandEffect DEF Command
  <2>7. File!Act(cur)
    BY <2>3, <2>5, <2>6 DEF File!Act, File!ECON1, ECON1, File!All, All
  <2> QED
    BY <2>1, <2>2, <2>7 DEF File!Next
<1>7. CASE CallDone
  BY <1>7, FileReturn DEF CallDone, Deselect, File!Next
<1>8. CASE UnselectAgain
  BY <1>8, FileReturn DEF UnselectAgain, IInv, Course, File!Next
<1>9. CASE SoftReset
  BY <1>9, FileReturn DEF SoftReset, IInv, Course, File!Next
<1>10. CASE ChipSent
  <2>1. TXRTS \notin BSEL
    BY SpiAssumption, CallAssumption DEF BSEL
  <2>2. TXRTS \in econ1 \ BSEL /\ econ1' \ BSEL = (econ1 \ BSEL) \ {TXRTS}
    BY <1>10, <2>1 DEF ChipSent
  <2> QED
    BY <1>10, <2>2 DEF ChipSent, File!Next, File!Sent
<1>11. CASE \E o \in Others : OtherSelects(o) \/ OtherDone(o)
  BY <1>1, <1>11 DEF OtherSelects, OtherDone
<1> QED
  BY <1>2, <1>3, <1>4, <1>5, <1>6, <1>7, <1>8, <1>9, <1>10, <1>11 DEF Next, Driver

(* Banks are invisible: for every set of calls the SPI layer is a file of    *)
(* registers, whatever bank was selected before and whatever the chip and    *)
(* the other users of the bus do between the commands.                       *)
THEOREM RefinesFile == Spec => ImplementsFile
<1> QED
  BY FileInit, FileStep, AlwaysIInv, PTL DEF Spec, ImplementsFile, File!Spec

-----------------------------------------------------------------------------
(* How long a call takes. *)

Left == Cardinality(todo)

(* Commands for the present register: up to two for its bank, and its own. *)
Cmds == CASE cmd = "set" -> 3 [] cmd = "clear" -> 2 [] cmd = "data" -> 1

StepsLeft ==
  CASE at \in {"off", "idle"}                -> 0
    [] at \in {"again", "reset"}             -> 1
    [] at = "next"                           -> (10 * Left) + 1
    [] at = "select"                         -> (10 * (Left - 1)) + (3 * Cmds) + 1
    [] at = "bytes"                          -> (10 * (Left - 1)) + (3 * Cmds)
    [] at = "unselect" /\ cmd = "data"       -> (10 * Left) + 2
    [] at = "unselect" /\ cmd # "data"       -> (10 * (Left - 1)) + (3 * Cmds) - 1

Bounded ==
  /\ StepsLeft \in 0 .. 32
  /\ StepsLeft = 0 <=> at \in {"off", "idle"}

(* The driver's own steps, those of a lock that is free included, bring the  *)
(* end of the call nearer; nothing else takes it away.                       *)
DriverAdvances ==
  IF Driver \/ Select THEN StepsLeft' < StepsLeft
                      ELSE at \notin {"off", "idle"} => StepsLeft' = StepsLeft

(* A lock that the driver waits for is that of another slave's driver. *)
HeldBySelected == locked => sel # {}
WaitsForOthers == at \in {"off", "select"} /\ locked => \E o \in Others : o \in sel

LEMMA TargetsCount ==
  ASSUME NEW c \in Calls \cup {NoCall}
  PROVE  IsFiniteSet(Targets(c)) /\ Cardinality(Targets(c)) <= 3
<1> DEFINE T == {Low(c.reg), High(c.reg), Burst, c.reg}
           U(x, y, z) == (({} \cup {x}) \cup {y}) \cup {z}
<1>1. ASSUME NEW x, NEW y, NEW z
      PROVE  IsFiniteSet(U(x, y, z)) /\ Cardinality(U(x, y, z)) \in 0 .. 3
  <2>1. IsFiniteSet({}) /\ Cardinality({}) = 0
    BY FS_EmptySet
  <2>2. IsFiniteSet({} \cup {x}) /\ Cardinality({} \cup {x}) \in 0 .. 1
    BY <2>1, FS_AddElement
  <2>3. /\ IsFiniteSet(({} \cup {x}) \cup {y})
        /\ Cardinality(({} \cup {x}) \cup {y}) \in 0 .. 2
    <3> DEFINE V == {} \cup {x}
    <3> HIDE DEF V
    <3>1. IsFiniteSet(V) /\ Cardinality(V) \in 0 .. 1
      BY <2>2 DEF V
    <3>2. IsFiniteSet(V \cup {y}) /\ Cardinality(V \cup {y}) \in 0 .. 2
      BY <3>1, FS_AddElement
    <3> QED
      BY <3>2 DEF V
  <2> DEFINE W == ({} \cup {x}) \cup {y}
  <2> HIDE DEF W
  <2>4. IsFiniteSet(W) /\ Cardinality(W) \in 0 .. 2
    BY <2>3 DEF W
  <2>5. IsFiniteSet(W \cup {z}) /\ Cardinality(W \cup {z}) \in 0 .. 3
    BY <2>4, FS_AddElement
  <2> QED
    BY <2>5 DEF W
<1>2. \E x, y, z : Targets(c) \subseteq U(x, y, z)
  <2>1. \/ Targets(c) \subseteq U(c.reg, c.reg, c.reg)
        \/ Targets(c) \subseteq U(Burst, Burst, Burst)
        \/ Targets(c) \subseteq U(Low(c.reg), High(c.reg), Burst)
    BY TargetShape
  <2> QED
    BY <2>1
<1>3. PICK x, y, z : Targets(c) \subseteq U(x, y, z)
  BY <1>2
<1> HIDE DEF U
<1>4. IsFiniteSet(U(x, y, z)) /\ Cardinality(U(x, y, z)) \in 0 .. 3
  BY <1>1
<1>5. IsFiniteSet(Targets(c)) /\ Cardinality(Targets(c)) <= Cardinality(U(x, y, z))
  BY <1>3, <1>4, FS_Subset
<1>6. Cardinality(Targets(c)) \in Nat
  BY <1>5, FS_CardinalityType
<1> QED
  BY <1>4, <1>5, <1>6

LEMMA Numbers ==
  ASSUME IInv
  PROVE  /\ IsFiniteSet(todo) /\ Left \in 0 .. 3
         /\ at \in {"select", "bytes"} \/ (at = "unselect" /\ cmd # "data")
              => Left \in 1 .. 3 /\ cur \in todo
         /\ Cmds \in 1 .. 3
         /\ cmd = "set" => Cmds = 3
         /\ cmd = "clear" => Cmds = 2
         /\ cmd = "data" => Cmds = 1
<1>1. call \in Calls \cup {NoCall} /\ todo \subseteq Targets(call)
  BY DEF IInv, TypeOK, Course
<1>2. IsFiniteSet(Targets(call)) /\ Cardinality(Targets(call)) <= 3
  BY <1>1, TargetsCount
<1>3. IsFiniteSet(todo) /\ Left <= Cardinality(Targets(call))
  BY <1>1, <1>2, FS_Subset DEF Left
<1>4. Left \in Nat /\ Cardinality(Targets(call)) \in Nat
  BY <1>2, <1>3, FS_CardinalityType DEF Left
<1>5. Left \in 0 .. 3
  BY <1>2, <1>3, <1>4
<1>6. todo # {} => Left # 0
  BY <1>3, FS_EmptySet DEF Left
<1>7. at \in {"select", "bytes"} \/ (at = "unselect" /\ cmd # "data")
        => Left \in 1 .. 3 /\ cur \in todo
  BY <1>5, <1>6 DEF IInv, Course
<1>8. cmd \in {"set", "clear", "data"}
  BY DEF IInv, TypeOK
<1> QED
  BY <1>3, <1>5, <1>7, <1>8 DEF Cmds

Few == Left \in 0 .. 3 /\ Cmds \in 1 .. 3

LEMMA NumbersPrime == IInv' => Few'
<1>1. IInv => Few
  BY Numbers DEF Few
<1> QED
  BY <1>1, PTL

LEMMA BoundedSteps == IInv => Bounded
<1> SUFFICES ASSUME IInv PROVE Bounded
  OBVIOUS
<1>1. /\ at \in {"off", "idle", "next", "select", "bytes", "unselect", "again", "reset"}
      /\ Left \in 0 .. 3 /\ Cmds \in 1 .. 3
  BY Numbers DEF IInv, TypeOK
<1>2. CASE at \in {"off", "idle", "again", "reset"}
  BY <1>2 DEF Bounded, StepsLeft
<1>3. CASE at = "next"
  <2>1. StepsLeft = (10 * Left) + 1
    BY <1>3 DEF StepsLeft
  <2> QED
    BY <1>1, <1>3, <2>1 DEF Bounded
<1>4. CASE at \in {"select", "bytes"} \/ (at = "unselect" /\ cmd # "data")
  <2>1. Left \in 1 .. 3
    BY <1>4, Numbers
  <2>2. StepsLeft \in {(10 * (Left - 1)) + (3 * Cmds) + 1, (10 * (Left - 1)) + (3 * Cmds),
                       (10 * (Left - 1)) + (3 * Cmds) - 1}
    BY <1>4 DEF StepsLeft
  <2> QED
    BY <1>1, <1>4, <2>1, <2>2 DEF Bounded
<1>5. CASE at = "unselect" /\ cmd = "data"
  <2>1. StepsLeft = (10 * Left) + 2
    BY <1>5 DEF StepsLeft
  <2> QED
    BY <1>1, <1>5, <2>1 DEF Bounded
<1> QED
  BY <1>1, <1>2, <1>3, <1>4, <1>5

LEMMA DriverStepsDown == IInv /\ IInv' /\ (Driver \/ Select) => StepsLeft' < StepsLeft
<1> SUFFICES ASSUME IInv, IInv', Driver \/ Select PROVE StepsLeft' < StepsLeft
  OBVIOUS
<1>1. /\ Left \in 0 .. 3 /\ Left' \in 0 .. 3 /\ Cmds \in 1 .. 3 /\ Cmds' \in 1 .. 3
      /\ cmd = "set" => Cmds = 3
      /\ cmd = "clear" => Cmds = 2
      /\ cmd = "data" => Cmds = 1
      /\ cmd' = "clear" => Cmds' = 2
      /\ cmd' = "data" => Cmds' = 1
      /\ cmd \in {"set", "clear", "data"}
  <2>1. Left' \in 0 .. 3 /\ Cmds' \in 1 .. 3
    BY NumbersPrime DEF Few
  <2>2. (cmd' = "clear" => Cmds' = 2) /\ (cmd' = "data" => Cmds' = 1)
    BY DEF Cmds
  <2> QED
    BY <2>1, <2>2, Numbers DEF IInv, TypeOK
<1>2. UNCHANGED todo => Left' = Left
  BY DEF Left
<1>3. CASE NextAccess
  <2>1. at = "next" /\ at' = "select" /\ UNCHANGED todo
    BY <1>3 DEF NextAccess
  <2>2. StepsLeft = (10 * Left) + 1 /\ StepsLeft' = (10 * (Left' - 1)) + (3 * Cmds') + 1
    BY <2>1 DEF StepsLeft
  <2>3. \A n \in 0 .. 3, k \in 1 .. 3 : (10 * (n - 1)) + (3 * k) + 1 < (10 * n) + 1
    OBVIOUS
  <2>4. (10 * (Left - 1)) + (3 * Cmds') + 1 < (10 * Left) + 1
    BY <1>1, <2>3
  <2> QED
    BY <1>2, <2>1, <2>2, <2>4
<1>4. CASE Select \/ SwitchBank
  <2>1. /\ UNCHANGED <<todo, cmd>>
        /\ \/ at = "select" /\ at' = "bytes"
           \/ at = "bytes" /\ at' = "unselect" /\ cmd # "data"
    BY <1>4 DEF Select, SwitchBank
  <2>2. Cmds' = Cmds
    BY <2>1 DEF Cmds
  <2>3. \/ /\ StepsLeft = (10 * (Left - 1)) + (3 * Cmds) + 1
           /\ StepsLeft' = (10 * (Left' - 1)) + (3 * Cmds')
        \/ /\ StepsLeft = (10 * (Left - 1)) + (3 * Cmds)
           /\ StepsLeft' = (10 * (Left' - 1)) + (3 * Cmds') - 1
    BY <2>1 DEF StepsLeft
  <2> QED
    BY <1>1, <1>2, <2>1, <2>2, <2>3
<1>5. CASE Command
  <2>1. /\ at = "bytes" /\ cmd = "data" /\ at' = "unselect" /\ cmd' = cmd
        /\ todo' = todo \ {cur}
    BY <1>5 DEF Command
  <2>2. cur \in todo /\ IsFiniteSet(todo)
    BY <2>1, Numbers
  <2>3. Left' = Left - 1
    BY <2>1, <2>2, FS_RemoveElement DEF Left
  <2>4. StepsLeft = (10 * (Left - 1)) + (3 * Cmds) /\ StepsLeft' = (10 * Left') + 2
    BY <2>1 DEF StepsLeft
  <2> QED
    BY <1>1, <2>1, <2>3, <2>4
<1>6. CASE PageSelected
  <2>1. /\ at = "unselect" /\ cmd # "data" /\ at' = "select" /\ UNCHANGED todo
        /\ cmd' = NextCmd(cur)
    BY <1>6 DEF PageSelected, Deselect
  <2>2. cmd' = "data" \/ (cmd = "set" /\ cmd' = "clear")
    BY <2>1 DEF NextCmd
  <2>3. /\ StepsLeft = (10 * (Left - 1)) + (3 * Cmds) - 1
        /\ StepsLeft' = (10 * (Left' - 1)) + (3 * Cmds') + 1
    BY <2>1 DEF StepsLeft
  <2>4. (Cmds = 3 /\ Cmds' \in {1, 2}) \/ (Cmds = 2 /\ Cmds' = 1)
    <3>1. CASE cmd = "set"
      BY <2>2, <3>1 DEF Cmds
    <3>2. CASE cmd = "clear"
      BY <2>2, <3>2 DEF Cmds
    <3> QED
      BY <1>1, <2>1, <3>1, <3>2
  <2>5. \A n \in 0 .. 3 : /\ (10 * (n - 1)) + (3 * 1) + 1 < (10 * (n - 1)) + (3 * 2) - 1
                          /\ (10 * (n - 1)) + (3 * 1) + 1 < (10 * (n - 1)) + (3 * 3) - 1
                          /\ (10 * (n - 1)) + (3 * 2) + 1 < (10 * (n - 1)) + (3 * 3) - 1
    OBVIOUS
  <2>6. (10 * (Left - 1)) + (3 * Cmds') + 1 < (10 * (Left - 1)) + (3 * Cmds) - 1
    BY <1>1, <2>4, <2>5
  <2> QED
    BY <1>2, <2>1, <2>3, <2>6
<1>7. CASE MoreToDo
  <2>1. /\ at = "unselect" /\ cmd = "data" /\ at' \in {"next", "again"} /\ UNCHANGED todo
    BY <1>7 DEF MoreToDo, Deselect
  <2>2. StepsLeft = (10 * Left) + 2 /\ StepsLeft' \in {1, (10 * Left') + 1}
    BY <2>1 DEF StepsLeft
  <2> QED
    BY <1>1, <1>2, <2>1, <2>2
<1>8. CASE CallDone \/ UnselectAgain \/ SoftReset
  <2>1. /\ at' = "idle" /\ \/ at = "unselect" /\ cmd = "data"
                           \/ at \in {"again", "reset"}
    BY <1>8 DEF CallDone, Deselect, UnselectAgain, SoftReset, Return
  <2>2. StepsLeft' = 0 /\ StepsLeft \in {1, (10 * Left) + 2}
    BY <2>1 DEF StepsLeft
  <2> QED
    BY <1>1, <2>2
<1> QED
  BY <1>3, <1>4, <1>5, <1>6, <1>7, <1>8 DEF Driver

LEMMA StepAdvances == IInv /\ IInv' /\ [Next]_vars => DriverAdvances
<1> SUFFICES ASSUME IInv, IInv', [Next]_vars, ~Driver, ~Select, at \notin {"off", "idle"}
    PROVE  StepsLeft' = StepsLeft
  BY DriverStepsDown DEF DriverAdvances
<1>1. UNCHANGED <<at, todo, cmd>>
  BY DEF Next, EnchwSetup, Begin, SelectSpins, ChipSent, OtherSelects, OtherDone, vars
<1>2. Left' = Left /\ Cmds' = Cmds
  BY <1>1 DEF Left, Cmds
<1> QED
  BY <1>1, <1>2 DEF StepsLeft

LEMMA StepHeld == HeldBySelected /\ [Next]_vars => HeldBySelected'
<1> SUFFICES ASSUME HeldBySelected, [Next]_vars, locked' PROVE sel' # {}
  BY DEF HeldBySelected
<1>1. CASE Select \/ \E o \in Others : OtherSelects(o)
  BY <1>1 DEF Select, OtherSelects
<1>2. CASE PageSelected \/ MoreToDo \/ CallDone \/ UnselectAgain
           \/ \E o \in Others : OtherDone(o)
  BY <1>2 DEF PageSelected, MoreToDo, CallDone, Deselect, Unlock, UnselectAgain, OtherDone
<1>3. CASE EnchwSetup \/ (\E c \in Calls : Begin(c)) \/ SelectSpins \/ NextAccess
           \/ SwitchBank \/ Command \/ SoftReset \/ ChipSent \/ UNCHANGED vars
  <2>1. UNCHANGED <<locked, sel>>
    BY <1>3 DEF EnchwSetup, Begin, SelectSpins, NextAccess, SwitchBank, Command, SoftReset,
       ChipSent, vars, busVars
  <2> QED
    BY <2>1 DEF HeldBySelected
<1> QED
  BY <1>1, <1>2, <1>3 DEF Next, Driver

(* A call ends after at most 32 steps of its own, whatever bank it finds and *)
(* whoever uses the bus in between; and when it has to wait for the lock,    *)
(* some other slave is selected, so that it never waits for a lock of its    *)
(* own: what CallEnds needs in addition is that the others give the bus back.*)
THEOREM CallIsBounded ==
  Spec => [](Bounded /\ WaitsForOthers) /\ [][DriverAdvances]_vars
<1>1. IInv /\ HeldBySelected => Bounded /\ WaitsForOthers
  <2> SUFFICES ASSUME IInv, HeldBySelected PROVE WaitsForOthers
    BY BoundedSteps
  <2>1. at \in {"off", "select"} => "enc" \notin sel
    BY DEF IInv, Bus
  <2>2. sel \subseteq Others \cup {"enc"}
    BY DEF IInv, TypeOK
  <2> QED
    BY <2>1, <2>2 DEF HeldBySelected, WaitsForOthers
<1>2. Init => HeldBySelected
  BY DEF Init, HeldBySelected
<1>3. IInv /\ IInv' /\ [Next]_vars => [DriverAdvances]_vars
  BY StepAdvances
<1> QED
  BY <1>1, <1>2, <1>3, StepHeld, AlwaysIInv, PTL DEF Spec
=============================================================================
