---------------------------- MODULE EncRegisters ----------------------------
(***************************************************************************)
(* The registers of the chip as enc28j60-consts.h names them, and the      *)
(* calls by which the driver reaches them.  A register is named by its     *)
(* bank and its address; the enum packs the two into one byte.             *)
(***************************************************************************)
EXTENDS Integers

All == 4  \* in place of a bank: the register is present in every bank

R(bank, ats) == { [bank |-> bank, at |-> a] : a \in ats }

(* Pairs of an even and the following odd address: 16-bit registers. *)
Wide == R(0, (0 .. 13) \cup (16 .. 19) \cup {22, 23})  \* ERDPTL .. EDMACSH
          \cup R(2, {6, 7, 22, 23, 24, 25})             \* MAIPG, MIWR, MIRD
          \cup R(3, {8, 9})                             \* EBSTCS

Registers ==
  Wide
  \cup R(All, 27 .. 31)              \* EIE, EIR, ESTAT, ECON2, ECON1
  \cup R(1, {24, 25})                \* ERXFCON, EPKTCNT
  \cup R(2, {0, 1, 2, 18, 20})       \* MACON1, -2, -3, MICMD, MIREGADR
  \cup R(3, (0 .. 7) \cup {10, 18})  \* MAADR, EBSTSD, EBSTCON, MISTAT, EREVID

ECON1 == [bank |-> All, at |-> 31]
ERDPTL == [bank |-> 0, at |-> 0]
EWRPTL == [bank |-> 0, at |-> 2]

(* Not a register: the argument of the two commands for the memory. *)
Burst == [bank |-> All, at |-> 26]

(* The value of the enum: ENC_BANKALL, or the bank above an explicit bit 5. *)
BankBits(bank) == IF bank = All THEN 192 ELSE 64 * bank + 32
Value(r) == BankBits(r.bank) + r.at

Banks(v) == v - (v % 32)    \* v & ENC_BANKMASK
Address(v) == v % 32        \* v & ENC_REGISTERMASK
Page(v) == (v \div 64) % 4  \* (v >> 6) & 0x03

(* reg & ~1 and reg | 1 *)
OffByOne(r) == [bank |-> r.bank, at |-> r.at - 1]  \* fault: right for the high byte only
Low(r)  == [bank |-> r.bank, at |-> r.at - (r.at % 2)]
High(r) == [bank |-> r.bank, at |-> r.at - (r.at % 2) + 1]

-----------------------------------------------------------------------------
(* A call: the function, the register it is given, and for ECON1 the bits. *)

CONSTANTS
  Called,  \* the registers that are called for
  Own      \* the bits of ECON1 that callers set and clear (RXEN, TXRTS ..)

ASSUME CallAssumption ==
  /\ Called \subseteq Registers
  /\ Own \subseteq 2 .. 7

Call(fns, regs, data) == [fn : fns, reg : regs, data : data]

(* RBM and WBM name the pointer they set before the burst; enc_RBM with      *)
(* ENC_READLOCATION_ANY leaves it alone.  Nothing writes ECON1 as a whole.   *)
Calls ==
  Call({"RCR"}, Called, {{}})
  \cup Call({"WCR", "BFS", "BFC"}, Called \ {ECON1}, {{}})
  \cup Call({"BFS", "BFC"}, {ECON1}, SUBSET Own)
  \cup Call({"RCR16", "WCR16"}, Called \cap Wide, {{}})
  \cup Call({"RBM"}, {ERDPTL, Burst}, {{}})
  \cup Call({"WBM"}, {EWRPTL}, {{}})
  \cup Call({"SRC"}, {Burst}, {{}})

NoCall == [fn |-> "none", reg |-> Burst, data |-> {}]

(* What the call reaches in the chip; enc_SRC does not select it. *)
Targets(c) ==
  CASE c.fn \in {"RCR", "WCR", "BFS", "BFC"} -> {c.reg}
    [] c.fn \in {"RCR16", "WCR16"} -> {Low(c.reg), High(c.reg)}
    [] c.fn \in {"RBM", "WBM"} /\ c.reg # Burst -> {Low(c.reg), High(c.reg), Burst}
    [] c.fn = "RBM" /\ c.reg = Burst -> {Burst}
    [] c.fn \in {"SRC", "none"} -> {}
=============================================================================
