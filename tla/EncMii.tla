------------------------------- MODULE EncMii -------------------------------
(***************************************************************************)
(* Access to the PHY through the MII registers: enc_MII_read and           *)
(* enc_MII_write, the LEDs, and the link state that mchdrv_poll reports.   *)
(* The chip works on a PHY register for some time after it was told to,    *)
(* with the address that MIREGADR holds then.  An action is one access to  *)
(* a register, the commands that select its bank included (see EncSpi).    *)
(* What enc_RCR gets from MISTAT and MIRD, to which its comment says it    *)
(* does not apply, need not be what they hold (Answers).                   *)
(***************************************************************************)
EXTENDS Integers

CONSTANTS
  Configs,  \* LED configurations in use, of ENC_LCFG_ON .. ENC_LCFG_BLINKSLOW
  AtStart,  \* what PHCON1 and PHLCON hold when the driver starts
  Dummies,  \* bytes that enc_RCR may get in place of that of a MII register
  PhyTime   \* the chip is done with the PHY after so many further commands

PHCON1 == 0
PHSTAT1 == 1
PHSTAT2 == 17
PHLCON == 20

(* A register of 16 bits is a function from its four groups of four bits. *)
Word == [0 .. 3 -> 0 .. 15]
Byte == [0 .. 1 -> 0 .. 15]
Zero == [i \in 0 .. 3 |-> 0]

LEDA == 8  \* ENC_LEDA, ENC_LEDB: offsets in PHLCON
LEDB == 4

NoPageSwitch == 0  \* fault: trusts that the bank is still selected
PageCommands == 2  \* select_page to bank 2: a BFS and a BFC

ASSUME MiiAssumption ==
  /\ Configs \subseteq 8 .. 11
  /\ AtStart \in [{PHCON1, PHLCON} -> Word]
  /\ Dummies \subseteq Byte
  /\ PhyTime \in Nat
  /\ PhyTime <= 2  \* "2mhz works well with the current pause commands"

VARIABLES
  regadr,  \* chip: MIREGADR
  miird,   \* chip: MICMD.MIIRD
  wrl,     \* chip: MIWRL, the lower two groups
  mird,    \* chip: MIRD
  busy,    \* chip: what it does with the PHY ("no" when MISTAT.BUSY is 0)
  out,     \* chip: the value it writes
  phy,     \* PHY: its registers that are written to
  link,    \* PHY: the state of the link
  latch,   \* PHY: PHSTAT1.LLSTAT, no loss of the link since the last reading
  pc,      \* where the driver is
  reg,     \* the PHY register of the call
  val,     \* data of enc_MII_write
  result,  \* result of enc_MII_read
  led,     \* arguments of enc_LED_set
  up,      \* netif: the link state that was reported last
  want,    \* history: what the finished calls have asked for
  fresh,   \* history: mird was read during this call from its register
  misread, \* history: what the call returned was not in MIRD
  reads    \* history: calls of enc_MII_read since the start, 2 for more

chipVars == <<regadr, miird, wrl, mird, busy, out>>
phyVars == <<phy, link, latch>>
drvVars == <<reg, val, result, led>>
readVars == <<fresh, misread, reads>>
vars == <<chipVars, phyVars, pc, drvVars, up, want, readVars>>

(* enc_ethernet_setup is about to write 0x0100 to PHCON1, on a chip that an *)
(* earlier program may have left in the middle of a reading.                *)
Init ==
  /\ regadr = PHCON1 /\ miird \in BOOLEAN /\ busy = "no"
  /\ wrl = [i \in 0 .. 1 |-> 0] /\ mird = Zero /\ out = Zero
  /\ phy = AtStart
  /\ link = FALSE /\ latch = FALSE
  /\ pc = "wait" /\ reg = PHCON1
  /\ val = [Zero EXCEPT ![2] = 1]
  /\ result = Zero /\ led = [offset |-> LEDA, config |-> 0]
  /\ up = FALSE
  /\ want = AtStart
  /\ fresh = FALSE /\ misread = FALSE /\ reads = 0

-----------------------------------------------------------------------------
(* The PHY, as long as the chip is at work on it. *)

PhyValue(r) ==
  CASE r \in DOMAIN phy -> phy[r]
    [] r = PHSTAT1 -> [Zero EXCEPT ![0] = IF latch THEN 4 ELSE 0]
    [] r = PHSTAT2 -> [Zero EXCEPT ![2] = IF link THEN 4 ELSE 0]
    [] OTHER -> Zero

PhyRead ==
  /\ busy = "read"
  /\ busy' = "no"
  /\ mird' = PhyValue(regadr)
  /\ latch' = IF regadr = PHSTAT1 THEN link ELSE latch
  /\ fresh' = (regadr = reg)
  /\ UNCHANGED <<regadr, miird, wrl, out, phy, link, pc, drvVars, up, want, misread, reads>>

PhyWrite ==
  /\ busy = "write"
  /\ busy' = "no"
  /\ phy' = [r \in DOMAIN phy |-> IF r = regadr THEN out ELSE phy[r]]
  /\ UNCHANGED <<regadr, miird, wrl, mird, out, link, latch, pc, drvVars, up, want, readVars>>

LinkGoesUp ==
  /\ ~link
  /\ link' = TRUE
  /\ UNCHANGED <<chipVars, phy, latch, pc, drvVars, up, want, readVars>>

LinkLost ==
  /\ link
  /\ link' = FALSE /\ latch' = FALSE
  /\ UNCHANGED <<chipVars, phy, pc, drvVars, up, want, readVars>>

-----------------------------------------------------------------------------
(* The callers: mchdrv_poll and enc_LED_set. *)

WrongBit == [reg |-> PHSTAT1, group |-> 2]  \* fault: LSTAT's bit, of PHSTAT2
Polled == [reg |-> PHSTAT1, group |-> 0]
Linked(word) == (word[Polled.group] \div 4) % 2 = 1  \* & (1 << 2)

Poll ==
  /\ pc = "main"
  /\ pc' = "address"
  /\ reg' = Polled.reg
  /\ UNCHANGED <<chipVars, phyVars, val, result, led, up, want, readVars>>

LedSet(offset, config) ==
  /\ pc = "main"
  /\ pc' = "address"
  /\ reg' = PHLCON
  /\ led' = [offset |-> offset, config |-> config]
  /\ UNCHANGED <<chipVars, phyVars, val, result, up, want, readVars>>

(* (state & ~(ENC_LCFG_MASK << led)) | (ledconfig << led) *)
NoMask(state) ==  \* fault: the old configuration is added to
  [state EXCEPT ![led.offset \div 4] = @ + led.config]
Lit(state) == [state EXCEPT ![led.offset \div 4] = led.config]

(* netif_set_link_up, netif_set_link_down *)
Report ==
  /\ pc = "report"
  /\ up' = Linked(result)
  /\ pc' = "main"
  /\ UNCHANGED <<chipVars, phyVars, drvVars, want, readVars>>

-----------------------------------------------------------------------------
(* What the driver gets from the chip. *)

(* Time passes while select_page sends its commands. *)
DoneBy(commands) == busy # "no" => commands < PhyTime

(* The byte behind the opcode of an RCR on a MII register. *)
Answers(byte) == {byte} \cup Dummies

LowByte(word)  == [i \in 0 .. 1 |-> word[i]]
HighByte(word) == [i \in 0 .. 1 |-> word[i + 2]]
Join(high, low) == [i \in 0 .. 3 |-> IF i \in 0 .. 1 THEN low[i] ELSE high[i - 2]]

MISTAT == [i \in 0 .. 1 |-> IF i = 0 /\ busy # "no" THEN 1 ELSE 0]

(* A turn of while (enc_RCR(MISTAT) & ENC_MISTAT_BUSY) that is the last. *)
SeenReady == \E status \in Answers(MISTAT) : status[0] % 2 = 0

-----------------------------------------------------------------------------
(* enc_MII_read.  It does not ask whether the chip is still writing; the     *)
(* commands that select the bank give the chip its time.                     *)

Address ==
  /\ pc = "address"
  /\ DoneBy(PageCommands)
  /\ regadr' = reg
  /\ fresh' = FALSE /\ misread' = FALSE
  /\ reads' = IF reads = 0 THEN 1 ELSE 2
  /\ pc' = "start"
  /\ UNCHANGED <<miird, wrl, mird, busy, out, phyVars, drvVars, up, want>>

(* Setting MIIRD starts the chip; whether it does so where MIIRD was set     *)
(* already, the driver cannot know.                                          *)
Start ==
  /\ pc = "start"
  /\ busy' \in IF miird THEN {busy, "read"} ELSE {"read"}
  /\ miird' = TRUE
  /\ pc' = "busy"
  /\ UNCHANGED <<regadr, wrl, mird, out, phyVars, drvVars, up, want, readVars>>

Ready ==
  /\ pc = "busy"
  /\ SeenReady
  /\ pc' = "data"
  /\ UNCHANGED <<chipVars, phyVars, drvVars, up, want, readVars>>

ReadData ==
  /\ pc = "data"
  /\ DoneBy(PageCommands)
  /\ \E high \in Answers(HighByte(mird)), low \in Answers(LowByte(mird)) :
       result' = Join(high, low)
  /\ misread' = (result' # mird)
  /\ pc' = "clear"
  /\ UNCHANGED <<chipVars, phyVars, reg, val, led, up, want, fresh, reads>>

LeavesSet ==  \* fault: MIIRD is not cleared at the end
  /\ pc = "clear"
  /\ IF reg = PHLCON
     THEN val' = Lit(result) /\ pc' = "wait"
     ELSE val' = val /\ pc' = "report"
  /\ UNCHANGED <<chipVars, phyVars, reg, result, led, up, want, readVars>>

(* The end of enc_MII_read, and what its caller does with the result. *)
Clear ==
  /\ pc = "clear"
  /\ miird' = FALSE
  /\ IF reg = PHLCON
     THEN val' = Lit(result) /\ pc' = "wait"
     ELSE val' = val /\ pc' = "report"
  /\ UNCHANGED <<regadr, wrl, mird, busy, out, phyVars, reg, result, led, up, want, readVars>>

-----------------------------------------------------------------------------
(* enc_MII_write: the high byte starts the chip. *)

WaitAndAddress ==
  /\ pc = "wait"
  /\ SeenReady
  /\ DoneBy(PageCommands)
  /\ regadr' = reg
  /\ pc' = "low"
  /\ UNCHANGED <<miird, wrl, mird, busy, out, phyVars, drvVars, up, want, readVars>>

WriteLow ==
  /\ pc = "low"
  /\ wrl' = LowByte(val)
  /\ pc' = "high"
  /\ UNCHANGED <<regadr, miird, mird, busy, out, phyVars, drvVars, up, want, readVars>>

(* What a call of enc_LED_set should write: what it has changed of what is   *)
(* there, or, having been misled, of what it has read.                       *)
Wanted ==
  IF reg = PHLCON THEN Lit(IF fresh /\ ~misread THEN want[PHLCON] ELSE result) ELSE val

WriteHigh ==
  /\ pc = "high"
  /\ out' = Join(HighByte(val), wrl)
  /\ busy' = "write"
  /\ want' = [want EXCEPT ![reg] = Wanted]
  /\ pc' = "main"
  /\ UNCHANGED <<regadr, miird, wrl, mird, phyVars, drvVars, up, readVars>>

(* The processor restarts at any moment and the chip does not; mchdrv_init   *)
(* comes to its access to the PHY again.                                     *)
Restart ==
  /\ pc' = "wait"
  /\ reg' = PHCON1
  /\ val' = [Zero EXCEPT ![2] = 1]
  /\ result' = Zero /\ led' = [offset |-> LEDA, config |-> 0]
  /\ up' = FALSE
  /\ fresh' = FALSE /\ misread' = FALSE /\ reads' = 0
  /\ UNCHANGED <<chipVars, phyVars, want>>

Driver ==
  \/ Report
  \/ Address \/ Start \/ Ready \/ ReadData \/ Clear
  \/ WaitAndAddress \/ WriteLow \/ WriteHigh

Next ==
  \/ Poll \/ \E offset \in {LEDA, LEDB}, config \in Configs : LedSet(offset, config)
  \/ Driver
  \/ PhyRead \/ PhyWrite \/ LinkGoesUp \/ LinkLost
  \/ Restart

Spec == Init /\ [][Next]_vars

-----------------------------------------------------------------------------
TypeOK ==
  /\ regadr \in {PHCON1, PHSTAT1, PHLCON} /\ reg \in {PHCON1, PHSTAT1, PHLCON}
  /\ miird \in BOOLEAN /\ fresh \in BOOLEAN /\ misread \in BOOLEAN
  /\ reads \in 0 .. 2
  /\ link \in BOOLEAN /\ latch \in BOOLEAN /\ up \in BOOLEAN
  /\ wrl \in Byte
  /\ mird \in Word /\ out \in Word /\ val \in Word /\ result \in Word
  /\ phy \in [{PHCON1, PHLCON} -> Word] /\ want \in [{PHCON1, PHLCON} -> Word]
  /\ busy \in {"no", "read", "write"}
  /\ led \in [offset : {LEDA, LEDB}, config : 0 .. 15]
  /\ pc \in {"main", "address", "start", "busy", "data", "clear", "report",
             "wait", "low", "high"}

(* When enc_MII_read takes MIRD, it holds what the register asked for held   *)
(* during the call, although the chip may still be at a write when the call  *)
(* begins and MISTAT may have been misread.  Only the first call after a     *)
(* restart, which may find MIIRD set, can get what an earlier one has read.  *)
DataInWindow == pc \in {"clear", "report"} => fresh \/ reads = 1

(* When the chip is not writing, the PHY holds what the calls so far have    *)
(* asked for, whatever they were interrupted by: no value ends up in another *)
(* call's register, and a LED that is set leaves the other and the rest of   *)
(* PHLCON alone, unless the call was misled about them.                      *)
WritesArrive == busy # "write" => phy = want

(* A loss of the link is on record until it is reported: in LLSTAT, and in   *)
(* MIRD once the poll has got it from there.                                 *)
Found ==
  /\ pc \in {"busy", "data", "clear", "report"}
  /\ reg = PHSTAT1 /\ fresh
  /\ ~Linked(mird)
OnRecord == ~latch \/ Found

(* Every loss of the link goes on record and nothing else does.  It is off   *)
(* record when the interface is reported or, after a restart, taken to be    *)
(* down; with nothing on record a poll reports the link as up.  What can get *)
(* in the way is a byte that was not the register's and, for the first poll  *)
(* after a restart, a reading that did not start.                            *)
LossAccounted ==
  [][/\ ~OnRecord => (OnRecord' <=> LinkLost)
     /\ OnRecord /\ ~OnRecord' => ~up' \/ (Report /\ misread)
     /\ Report /\ ~OnRecord => up' \/ misread \/ reads = 1]_vars
=============================================================================
