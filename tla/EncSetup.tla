------------------------------ MODULE EncSetup ------------------------------
(***************************************************************************)
(* Bringing the interface up: mchdrv_init runs enc_setup_basic, the self   *)
(* test enc_bist_manual and enc_ethernet_setup, whenever the processor     *)
(* starts.  The chip need not start with it: a restart of the processor    *)
(* may find it receiving and sending as the program before left it.        *)
(*                                                                         *)
(* Addresses are counted in blocks of the self test (256 bytes), and a     *)
(* frame takes one block.  The chip side is external.                      *)
(***************************************************************************)
EXTENDS Integers

CONSTANTS
  RamBlocks,      \* blocks of buffer memory (ENC_RAMSIZE / 256)
  rxbufsize,      \* last block of the ring, as mchdrv_init passes it
  Aliases,        \* address decoders: the block that an address really selects
  StableRequired, \* stable_required of enc_wait (100)
  MaxReads,       \* how often enc_wait reads ESTAT (100000)
  PowerUpReads,   \* readouts for which MISO floats, "typically 3"
  MaxPackets,     \* largest value of EPKTCNT (255)
  MaxRestarts     \* bound: restarts of the processor

Block == 0 .. RamBlocks - 1

ASSUME SetupAssumption ==
  /\ RamBlocks \in Nat
  /\ RamBlocks > 1
  /\ rxbufsize \in Block
  /\ Aliases \subseteq [Block -> Block]
  /\ StableRequired \in Nat
  /\ MaxReads \in Nat
  /\ PowerUpReads \in Nat
  /\ PowerUpReads < StableRequired  \* "a much larger number of identical reads"
  /\ MaxPackets \in Nat
  /\ MaxRestarts \in Nat

VARIABLES
  awake,      \* chip: its clock runs and it obeys commands
  marxen,     \* chip: MACON1.MARXEN
  rxen,       \* chip: ECON1.RXEN
  rxrst,      \* chip: ECON1.RXRST
  txrst,      \* chip: ECON1.TXRST
  txrts,      \* chip: ECON1.TXRTS
  erxst,      \* chip: ERXST
  erxnd,      \* chip: ERXND
  wrpt,       \* chip: ERXWRPT
  rdpt,       \* chip: ERXRDPT
  pktcnt,     \* chip: EPKTCNT
  mem,        \* chip: what each block of memory holds
  alias,      \* chip: its address decoder
  known,      \* chip: EREVID is one of B1, B4, B5 and B7
  resetPin,   \* HAS_RESET_PIN: the board can reset the chip
  pc,         \* where the processor is
  reads,      \* i of enc_wait
  stable,     \* stable of enc_wait
  last,       \* estat_last of enc_wait
  block,      \* address of enc_bist_manual
  cache,      \* dev->rxbufsize
  nfl,        \* dev->next_frame_location
  restarts    \* history: restarts of the processor

ringVars == <<erxst, erxnd, wrpt, rdpt, pktcnt>>
econVars == <<rxen, rxrst, txrst, txrts>>
board    == <<alias, known, resetPin>>
chipVars == <<awake, marxen, econVars, ringVars, mem, board>>
waitVars == <<reads, stable, last>>
devVars  == <<cache, nfl>>
vars     == <<chipVars, pc, waitVars, block, devVars, restarts>>

Failed == {"timeout", "refused", "bist_failed"}

-----------------------------------------------------------------------------
(* The chip. *)

Other == -1            \* a block that holds no test pattern
ErxstAtReset == 1      \* any address but 0 would do

NextBlock(b) == IF b = erxnd THEN erxst ELSE (b + 1) % RamBlocks

ChipWakes ==
  /\ ~awake
  /\ awake' = TRUE
  /\ UNCHANGED <<marxen, econVars, ringVars, mem, board, pc, waitVars, block, devVars,
                 restarts>>

(* A frame arrives.  Whether there is space for it does not matter here. *)
ChipReceive ==
  /\ rxen /\ marxen /\ ~rxrst
  /\ pktcnt < MaxPackets
  /\ mem' = [mem EXCEPT ![alias[wrpt]] = Other]
  /\ wrpt' = NextBlock(wrpt)
  /\ pktcnt' = pktcnt + 1
  /\ UNCHANGED <<awake, marxen, econVars, erxst, erxnd, rdpt, board, pc, waitVars,
                 block, devVars, restarts>>

(* A transmission ends and leaves its status vector behind the ring. *)
ChipSent ==
  /\ txrts
  /\ txrts' = FALSE
  /\ \E b \in rxbufsize .. RamBlocks - 1 : mem' = [mem EXCEPT ![alias[b]] = Other]
  /\ UNCHANGED <<awake, marxen, rxen, rxrst, txrst, ringVars, board, pc, waitVars,
                 block, devVars, restarts>>

(* What reading ESTAT may yield: CLKRDY is bit 0, RXBUSY bit 2.  MISO of a     *)
(* chip that wakes up floats at first (0xff, 0x1f, 0x03 and 0x01 were seen).   *)
Readings ==
  CASE awake -> {1, 5}
    [] ~awake /\ reads < PowerUpReads -> {0, 1, 31, 255}
    [] ~awake /\ reads >= PowerUpReads -> {0}
ClockReady(estat) == estat % 2 = 1

-----------------------------------------------------------------------------
(* enchw_setup and enc_setup_basic. *)

(* The processor starts with a chip that has just been powered up. *)
Init ==
  /\ awake = FALSE /\ marxen = FALSE
  /\ rxen = FALSE /\ rxrst = FALSE /\ txrst = FALSE /\ txrts = FALSE
  /\ erxst = ErxstAtReset /\ wrpt = ErxstAtReset /\ rdpt = ErxstAtReset
  /\ erxnd = RamBlocks - 1
  /\ pktcnt = 0
  /\ mem = [b \in Block |-> Other]
  /\ alias \in Aliases
  /\ known \in BOOLEAN /\ resetPin \in BOOLEAN
  /\ pc = "setup"
  /\ reads = 0 /\ stable = 0 /\ last = 0
  /\ block = 0
  /\ cache = 0 /\ nfl = 0
  /\ restarts = 0

SetupNoReset ==  \* fault: the reset pin is left alone
  /\ pc = "setup"
  /\ pc' = "wait"
  /\ UNCHANGED <<chipVars, waitVars, block, devVars, restarts>>

EnchwSetup ==
  /\ pc = "setup"
  /\ pc' = "wait"
  /\ IF resetPin
     THEN /\ awake' = FALSE /\ marxen' = FALSE
          /\ rxen' = FALSE /\ rxrst' = FALSE /\ txrst' = FALSE /\ txrts' = FALSE
          /\ erxst' = ErxstAtReset /\ wrpt' = ErxstAtReset /\ rdpt' = ErxstAtReset
          /\ erxnd' = RamBlocks - 1
          /\ pktcnt' = 0
          /\ UNCHANGED <<mem, board>>
     ELSE UNCHANGED chipVars
  /\ UNCHANGED <<waitVars, block, devVars, restarts>>

WaitOver == reads >= MaxReads

(* One turn of the loop of enc_wait. *)
WaitIgnored ==
  /\ pc = "wait"
  /\ ~WaitOver
  /\ 255 \in Readings
  /\ reads' = reads + 1
  /\ UNCHANGED <<chipVars, pc, stable, last, block, devVars, restarts>>

TrustsFirst ==  \* fault: the first reading with CLKRDY will do
  /\ pc = "wait"
  /\ ~WaitOver
  /\ \E estat \in Readings \ {255} :
       /\ last' = estat
       /\ pc' = IF ClockReady(estat) THEN "revid" ELSE "wait"
  /\ reads' = reads + 1
  /\ UNCHANGED <<chipVars, stable, block, devVars, restarts>>

WaitRead ==
  /\ pc = "wait"
  /\ ~WaitOver
  /\ \E estat \in Readings \ {255} :
       /\ stable' = IF estat = last THEN stable + 1 ELSE stable
       /\ last' = estat
       /\ pc' = IF stable' >= StableRequired /\ ClockReady(estat) THEN "revid" ELSE "wait"
  /\ reads' = reads + 1
  /\ UNCHANGED <<chipVars, block, devVars, restarts>>

WaitTimeout ==
  /\ pc = "wait"
  /\ WaitOver
  /\ pc' = "timeout"
  /\ UNCHANGED <<chipVars, waitVars, block, devVars, restarts>>

(* dev->rxbufsize = ~0; then EREVID, as which a chip that sleeps may answer  *)
(* anything.                                                                 *)
AtReset == RamBlocks - 1  \* fault: what ERXND holds after a reset
Unset == RamBlocks

CheckRevision ==
  /\ pc = "revid"
  /\ cache' = Unset
  /\ reads' = 0 /\ stable' = 0 /\ last' = 0
  /\ \E answer \in IF awake THEN {known} ELSE BOOLEAN :
       pc' = IF answer THEN "whole" ELSE "refused"
  /\ UNCHANGED <<chipVars, block, nfl, restarts>>

-----------------------------------------------------------------------------
(* enc_bist_manual. *)

set_erxnd(n) ==
  /\ cache' = n
  /\ erxnd' = IF n # cache THEN n ELSE erxnd

WholeRing ==
  /\ pc = "whole"
  /\ set_erxnd(RamBlocks - 1)
  /\ block' = 0
  /\ pc' = "fill"
  /\ UNCHANGED <<awake, marxen, econVars, erxst, wrpt, rdpt, pktcnt, mem, board,
                 waitVars, nfl, restarts>>

(* (address >> 8) + i: no two blocks have the same pattern. *)
SamePattern(b) == 0  \* fault: the pattern is that of i alone
Pattern(b) == b

PastLastBlock == block = RamBlocks  \* fault: address <= ENC_RAMSIZE
LastBlock == block = RamBlocks - 1

Fill ==
  /\ pc = "fill"
  /\ mem' = [mem EXCEPT ![alias[block]] = Pattern(block)]
  /\ block' = IF LastBlock THEN 0 ELSE block + 1
  /\ pc' = IF LastBlock THEN "verify" ELSE "fill"
  /\ UNCHANGED <<awake, marxen, econVars, ringVars, board, waitVars, devVars, restarts>>

VerifyFails ==
  /\ pc = "verify"
  /\ mem[alias[block]] # Pattern(block)
  /\ block' = 0
  /\ pc' = "bist_failed"
  /\ UNCHANGED <<chipVars, waitVars, devVars, restarts>>

Verify ==
  /\ pc = "verify"
  /\ mem[alias[block]] = Pattern(block)
  /\ block' = IF LastBlock THEN 0 ELSE block + 1
  /\ pc' = IF LastBlock THEN "halt" ELSE "verify"
  /\ UNCHANGED <<chipVars, waitVars, devVars, restarts>>

-----------------------------------------------------------------------------
(* enc_ethernet_setup.  RXRST clears RXEN, TXRST clears TXRTS. *)

HaltTransmitter ==  \* fault: TXRST alone
  /\ pc = "halt"
  /\ txrst' = TRUE /\ txrts' = FALSE
  /\ pc' = "drain"
  /\ UNCHANGED <<awake, marxen, rxen, rxrst, ringVars, mem, board, waitVars, block, devVars,
                 restarts>>

Halt ==
  /\ pc = "halt"
  /\ txrst' = TRUE /\ txrts' = FALSE
  /\ rxrst' = TRUE /\ rxen' = FALSE
  /\ pc' = "drain"
  /\ UNCHANGED <<awake, marxen, ringVars, mem, board, waitVars, block, devVars, restarts>>

(* while (EPKTCNT) PKTDEC; *)
DrainPacket ==
  /\ pc = "drain"
  /\ pktcnt # 0
  /\ pktcnt' = pktcnt - 1
  /\ UNCHANGED <<awake, marxen, econVars, erxst, erxnd, wrpt, rdpt, mem, board, pc,
                 waitVars, block, devVars, restarts>>

DrainDone ==
  /\ pc = "drain"
  /\ pktcnt = 0
  /\ pc' = "release"
  /\ UNCHANGED <<chipVars, waitVars, block, devVars, restarts>>

StaysInReset ==  \* fault: left to the end of the function
  /\ pc = "release"
  /\ pc' = "start"
  /\ UNCHANGED <<chipVars, waitVars, block, devVars, restarts>>

Release ==
  /\ pc = "release"
  /\ rxrst' = FALSE /\ txrst' = FALSE
  /\ pc' = "start"
  /\ UNCHANGED <<awake, marxen, rxen, txrts, ringVars, mem, board, waitVars, block, devVars,
                 restarts>>

(* The chip moves ERXWRPT to ERXST when ERXST is written. *)
RingStart ==
  /\ pc = "start"
  /\ erxst' = 0
  /\ wrpt' = 0
  /\ pc' = "end"
  /\ UNCHANGED <<awake, marxen, econVars, erxnd, rdpt, pktcnt, mem, board, waitVars, block,
                 devVars, restarts>>

RingEnd ==
  /\ pc = "end"
  /\ set_erxnd(rxbufsize)
  /\ pc' = "read"
  /\ UNCHANGED <<awake, marxen, econVars, erxst, wrpt, rdpt, pktcnt, mem, board, waitVars,
                 block, nfl, restarts>>

RingRead ==
  /\ pc = "read"
  /\ rdpt' = 0
  /\ nfl' = 0
  /\ pc' = "mac"
  /\ UNCHANGED <<awake, marxen, econVars, erxst, erxnd, wrpt, pktcnt, mem, board, waitVars,
                 block, cache, restarts>>

(* The MAC; of its many registers one matters here. *)
MacSetup ==
  /\ pc = "mac"
  /\ marxen' = TRUE
  /\ pc' = "phy"
  /\ UNCHANGED <<awake, econVars, ringVars, mem, board, waitVars, block, devVars, restarts>>

(* enc_MII_write to PHCON1 (see EncMii): while (MISTAT & BUSY), for as long  *)
(* as the chip, or what enc_RCR gets in place of MISTAT, says so.            *)
PhyBusy ==
  /\ pc = "phy"
  /\ UNCHANGED vars

PhyReady ==
  /\ pc = "phy"
  /\ pc' = "enable"
  /\ UNCHANGED <<chipVars, waitVars, block, devVars, restarts>>

(* RXEN cannot be set while the receive logic is in reset. *)
EnableReception ==
  /\ pc = "enable"
  /\ rxen' = ~rxrst
  /\ pc' = "pull"
  /\ UNCHANGED <<awake, marxen, rxrst, txrst, txrts, ringVars, mem, board, waitVars, block,
                 devVars, restarts>>

(* The second pull out of reset, and the rest of mchdrv_init. *)
PullOut ==
  /\ pc = "pull"
  /\ rxrst' = FALSE /\ txrst' = FALSE
  /\ pc' = "up"
  /\ UNCHANGED <<awake, marxen, rxen, txrts, ringVars, mem, board, waitVars, block, devVars,
                 restarts>>

-----------------------------------------------------------------------------
(* While the interface is up; see EncReceive and EncTransmit for the whole. *)

Serve ==
  /\ pc = "up"
  /\ pktcnt # 0
  /\ nfl' = NextBlock(nfl)
  /\ rdpt' = IF nfl' = 0 THEN erxnd ELSE nfl' - 1
  /\ pktcnt' = pktcnt - 1
  /\ UNCHANGED <<awake, marxen, econVars, erxst, erxnd, wrpt, mem, board, pc, waitVars,
                 block, cache, restarts>>

Send ==
  /\ pc = "up"
  /\ ~txrts
  /\ txrts' = TRUE
  /\ UNCHANGED <<awake, marxen, rxen, rxrst, txrst, ringVars, mem, board, pc, waitVars,
                 block, devVars, restarts>>

(* The main loop goes on, whether the interface came up or not. *)
MainLoop ==
  /\ pc \in {"up"} \cup Failed
  /\ UNCHANGED vars

(* The processor restarts, the chip does not. *)
Restart ==
  /\ restarts < MaxRestarts
  /\ restarts' = restarts + 1
  /\ pc' = "setup"
  /\ reads' = 0 /\ stable' = 0 /\ last' = 0
  /\ block' = 0
  /\ cache' = 0 /\ nfl' = 0
  /\ UNCHANGED chipVars

Bist == WholeRing \/ Fill \/ VerifyFails \/ Verify

EthernetSetup ==
  \/ Halt \/ DrainPacket \/ DrainDone \/ Release
  \/ RingStart \/ RingEnd \/ RingRead
  \/ MacSetup \/ EnableReception \/ PullOut

Driver ==
  \/ EnchwSetup \/ WaitIgnored \/ WaitRead \/ WaitTimeout \/ CheckRevision
  \/ Bist \/ EthernetSetup

Chip == ChipWakes \/ ChipReceive \/ ChipSent

Next == Driver \/ PhyBusy \/ PhyReady \/ Chip \/ Serve \/ Send \/ MainLoop \/ Restart

(* The processor goes on with mchdrv_init; nothing else has to happen, and *)
(* nothing makes the PHY ready.                                            *)
Spec == Init /\ [][Next]_vars /\ WF_vars(Driver)

-----------------------------------------------------------------------------
TypeOK ==
  /\ awake \in BOOLEAN /\ marxen \in BOOLEAN
  /\ rxen \in BOOLEAN /\ rxrst \in BOOLEAN /\ txrst \in BOOLEAN /\ txrts \in BOOLEAN
  /\ erxst \in Block /\ erxnd \in Block /\ wrpt \in Block /\ rdpt \in Block
  /\ nfl \in Block /\ block \in Block
  /\ pktcnt \in 0 .. MaxPackets
  /\ mem \in [Block -> Block \cup {Other}]
  /\ alias \in Aliases /\ known \in BOOLEAN /\ resetPin \in BOOLEAN
  /\ reads \in 0 .. MaxReads /\ stable \in 0 .. reads
  /\ cache \in Block \cup {Unset}
  /\ restarts \in 0 .. MaxRestarts

(* Whatever state the chip was left in, and whatever it does meanwhile:      *)
(* before enc_ethernet_setup enables reception, ring, counters and pointers  *)
(* are as the receive and the transmit path need them in the beginning.      *)
HandsOver ==
  pc = "enable" =>
    /\ erxst = 0 /\ erxnd = rxbufsize
    /\ wrpt = 0 /\ rdpt = 0 /\ nfl = 0
    /\ pktcnt = 0
    /\ ~rxrst /\ ~txrst /\ ~txrts

(* An interface that is reported up does receive. *)
ReceivesWhenUp == pc = "up" => awake /\ marxen /\ rxen /\ ~rxrst /\ ~txrst

(* The self test lets no chip pass whose address lines confuse two blocks. *)
Sound(f) == \A a, b \in Block : f[a] = f[b] => a = b

BistFindsFaults ==
  pc \notin {"setup", "wait", "revid", "whole", "fill", "verify"} \cup Failed => Sound(alias)

(* dev->rxbufsize, the cache of ERXND, is right once it has been set, after  *)
(* a restart too: transmit_start_address relies on it.                       *)
CacheCoherent ==
  pc \notin {"setup", "wait", "revid", "whole"} \cup Failed => cache = erxnd

(* LWIP_ASSERT in mch_net_init takes it that mchdrv_init does not fail.  With  *)
(* a reset pin the self test fails only for a chip that is broken, however     *)
(* often the processor restarts; without, a frame that arrives during the test *)
(* is enough to make it fail.                                                  *)
OnlyBrokenChipsFail == pc = "bist_failed" => ~Sound(alias)
ResetAvoidsFalseAlarms == resetPin => OnlyBrokenChipsFail

(* mchdrv_init comes to an end after every start of the processor, even if   *)
(* frames keep arriving, or stays for ever in the one loop that has no bound *)
(* and no time-out, the wait for MISTAT.BUSY in enc_MII_write.               *)
SetupEnds == []<>(pc \in {"up"} \cup Failed) \/ <>[](pc = "phy")
=============================================================================
