----------------------------- MODULE EncTransmit -----------------------------
(***************************************************************************)
(* The transmit path: mchdrv_linkoutput copies a chain of pbufs behind the *)
(* receive ring, tells the ENC28J60 to send it and waits, for a bounded    *)
(* number of polls, until the chip is done; then it resets the transmit    *)
(* logic (transmit_start, transmit_partial, transmit_end).                 *)
(*                                                                         *)
(* The chip side is external: it sends ETXST + 1 .. ETXND byte by byte,    *)
(* at its own speed, writes a status vector behind, and may hang (errata   *)
(* 12 and 13).  A byte of the buffer memory is <<packet, place>>.          *)
(***************************************************************************)
EXTENDS Integers, Sequences

CONSTANTS
  RamSize,     \* bytes of buffer memory (8192)
  rxbufsize,   \* dev->rxbufsize, last address of the receive ring
  Chains,      \* the pbuf chains lwIP passes: sequences of [len, tot]
  Polls,       \* how often transmit_end looks at TXRTS (10000)
  MaxFrames    \* bound: calls of linkoutput

StatusLen == 7

(* The rule lwIP keeps: tot_len is len plus the tot_len of the rest, up to   *)
(* the last pbuf of the packet.  Another packet of a queue may follow.       *)
EndsAt(c, e) ==
  /\ c[e].len = c[e].tot
  /\ \A i \in 1 .. e - 1 : c[i].tot = c[i].len + c[i + 1].tot

ASSUME TransmitAssumption ==
  /\ RamSize \in Nat
  /\ rxbufsize \in Nat
  /\ rxbufsize < RamSize
  /\ Polls \in Nat \ {0}
  /\ MaxFrames \in Nat
  /\ \A c \in Chains : /\ c \in Seq([len : Nat, tot : Nat])
                       /\ c # <<>>
                       /\ \E e \in DOMAIN c : EndsAt(c, e)

VARIABLES
  mem,       \* chip: the buffer memory
  etxst,     \* chip: ETXST, address of the control byte
  etxnd,     \* chip: ETXND, address of the last byte
  ewrpt,     \* chip: EWRPT, the buffer write pointer
  txrts,     \* chip: ECON1.TXRTS, transmission requested
  txrst,     \* chip: ECON1.TXRST, transmit logic held in reset
  chip,      \* chip: what the transmit logic does
  pc,        \* where linkoutput is
  chain,     \* the pbufs of the call
  seg,       \* buf of enc_transmit_pbuf: index into chain
  polls,     \* i of transmit_end
  result,    \* the seven bytes that transmit_end reads at last
  handed,    \* history: calls of linkoutput
  wire       \* history: the frames on the wire, [id, bytes]

chipVars == <<etxst, etxnd, ewrpt, txrts, txrst, chip>>
vars == <<mem, chipVars, pc, chain, seg, polls, result, handed, wire>>

-----------------------------------------------------------------------------
Ram == 0 .. RamSize - 1

(* EWRPT, ERDPT and the transmit logic wrap at the end of the memory. *)
Wrap(p) == p % RamSize
Ahead(p, a) == (a - p) % RamSize

(* A byte of packet i is <<i, k>>; these are the k that are not data. *)
Control == -1
Sent    == -2
Aborted == -3

Unused == <<0, 0>>
Cell == Nat \X Int

length == chain[1].tot

EndsTooEarly(p) == p - (p % 2)  \* fault: rounds the wrong way
EvenFrom(p) == (p + 1) - ((p + 1) % 2)

(* transmit_start_address *)
StartAddress == EvenFrom(rxbufsize + 1)

(* A packet and its status vector fit between the ring and the end of the    *)
(* memory.  The code does not check it; the sizes of mchdrv_init grant it:    *)
(* an mtu of 1500 and 4*1024 bytes of ring.  Longer packets would wrap.       *)
ASSUME FramesFit ==
  \A c \in Chains : StartAddress + 1 + c[1].tot + StatusLen <= RamSize

-----------------------------------------------------------------------------
(* The chip. *)

OnWire == wire[Len(wire)]

(* It reads the control byte and starts. *)
ChipStart ==
  /\ txrts /\ ~txrst
  /\ chip = "off"
  /\ chip' = "sending"
  /\ wire' = Append(wire, [id |-> mem[etxst][1], bytes |-> <<>>])
  /\ UNCHANGED <<mem, etxst, etxnd, ewrpt, txrts, txrst, pc, chain, seg, polls,
                 result, handed>>

ChipSend ==
  /\ chip = "sending"
  /\ etxst + Len(OnWire.bytes) < etxnd
  /\ wire' = [wire EXCEPT ![Len(wire)].bytes =
                Append(@, mem[Wrap(etxst + 1 + Len(@))])]
  /\ UNCHANGED <<mem, chipVars, pc, chain, seg, polls, result, handed>>

(* Done, or given up for its own reasons (too many collisions). *)
ChipEnd(status) ==
  /\ chip = "sending"
  /\ status = Sent => etxst + Len(OnWire.bytes) >= etxnd
  /\ chip' = "off"
  /\ txrts' = FALSE
  /\ mem' = [a \in Ram |-> IF Ahead(etxnd + 1, a) < StatusLen
                           THEN <<OnWire.id, status>> ELSE mem[a]]
  /\ UNCHANGED <<etxst, etxnd, ewrpt, txrst, pc, chain, seg, polls, result, handed, wire>>

(* Errata 12 and 13: TXRTS stays set for ever. *)
ChipHang ==
  /\ txrts /\ ~txrst
  /\ chip \in {"off", "sending"}
  /\ chip' = "hung"
  /\ UNCHANGED <<mem, etxst, etxnd, ewrpt, txrts, txrst, pc, chain, seg, polls,
                 result, handed, wire>>

-----------------------------------------------------------------------------
(* The driver.  A line marked "fault" is a mistake the checks are tried on. *)

Init ==
  /\ mem = [a \in Ram |-> Unused]
  /\ etxst = 0 /\ etxnd = 0 /\ ewrpt = 0
  /\ txrts = FALSE /\ txrst = FALSE /\ chip = "off"
  /\ pc = "idle"
  /\ chain = <<[len |-> 0, tot |-> 0]>> /\ seg = 1 /\ polls = 0
  /\ result = <<>>
  /\ handed = 0
  /\ wire = <<>>

(* The stack calls mchdrv_linkoutput. *)
LinkOutput(c) ==
  /\ pc = "idle"
  /\ handed < MaxFrames
  /\ handed' = handed + 1
  /\ chain' = c
  /\ seg' = 1
  /\ result' = <<>>
  /\ pc' = "start"
  /\ UNCHANGED <<mem, chipVars, polls, wire>>

(* ETXST, EWRPT and the control byte; the chip looks at none of them before *)
(* TXRTS is set.                                                             *)
TransmitNoControl ==  \* fault: the data begins at ETXST
  /\ pc = "start"
  /\ etxst' = StartAddress
  /\ ewrpt' = StartAddress
  /\ pc' = "partial"
  /\ UNCHANGED <<mem, etxnd, txrts, txrst, chip, chain, seg, polls, result, handed, wire>>

TransmitStart ==
  /\ pc = "start"
  /\ etxst' = StartAddress
  /\ mem' = [mem EXCEPT ![Wrap(StartAddress)] = <<handed, Control>>]
  /\ ewrpt' = Wrap(StartAddress + 1)
  /\ pc' = "partial"
  /\ UNCHANGED <<etxnd, txrts, txrst, chip, chain, seg, polls, result, handed, wire>>

(* The loop of enc_transmit_pbuf: one pbuf, then the next, up to the one that *)
(* holds all that is left.  Its first byte is byte length - tot of the packet. *)
LastPbuf == chain[seg].len = chain[seg].tot

TransmitPartial ==
  /\ pc = "partial"
  /\ mem' = [a \in Ram |-> IF Ahead(ewrpt, a) < chain[seg].len
                           THEN <<handed, length - chain[seg].tot + Ahead(ewrpt, a)>>
                           ELSE mem[a]]
  /\ ewrpt' = Wrap(ewrpt + chain[seg].len)
  /\ IF LastPbuf THEN pc' = "end" /\ seg' = seg
                 ELSE pc' = "partial" /\ seg' = seg + 1
  /\ UNCHANGED <<etxst, etxnd, txrts, txrst, chip, chain, polls, result, handed, wire>>

(* ETXND: the last byte, not the one behind it. *)
OneTooFar == StartAddress + 1 + length  \* fault
LastByte == StartAddress + 1 + length - 1

TransmitEnd ==
  /\ pc = "end"
  /\ etxnd' = LastByte
  /\ pc' = "rts"
  /\ UNCHANGED <<mem, etxst, ewrpt, txrts, txrst, chip, chain, seg, polls, result, handed, wire>>

RequestToSend ==
  /\ pc = "rts"
  /\ txrts' = TRUE
  /\ polls' = 0
  /\ pc' = "poll"
  /\ UNCHANGED <<mem, etxst, etxnd, ewrpt, txrst, chip, chain, seg, result, handed, wire>>

PollDone ==
  /\ pc = "poll"
  /\ ~txrts
  /\ pc' = "status"
  /\ UNCHANGED <<mem, chipVars, chain, seg, polls, result, handed, wire>>

(* The loop ends after Polls looks at TXRTS. *)
OneMore == polls = Polls  \* fault: i <= Polls
PollsOver == polls + 1 = Polls

PollForever ==  \* fault: waits for TXRTS without a limit
  /\ pc = "poll"
  /\ txrts
  /\ UNCHANGED vars

PollBusy ==
  /\ pc = "poll"
  /\ txrts
  /\ polls' = IF PollsOver THEN 0 ELSE polls + 1
  /\ pc' = IF PollsOver THEN "reset" ELSE "poll"
  /\ UNCHANGED <<mem, chipVars, chain, seg, result, handed, wire>>

(* TXRST aborts what is being sent and clears TXRTS. *)
GiveUp ==  \* fault: returns with the transmission still pending
  /\ pc = "reset"
  /\ pc' = "idle"
  /\ UNCHANGED <<mem, chipVars, chain, seg, polls, result, handed, wire>>

SetReset ==
  /\ pc = "reset"
  /\ txrst' = TRUE
  /\ txrts' = FALSE
  /\ chip' = "off"
  /\ pc' = "release"
  /\ UNCHANGED <<mem, etxst, etxnd, ewrpt, chain, seg, polls, result, handed, wire>>

ClearReset ==
  /\ pc = "release"
  /\ txrst' = FALSE
  /\ pc' = "idle"
  /\ UNCHANGED <<mem, etxst, etxnd, ewrpt, txrts, chip, chain, seg, polls, result, handed, wire>>

ReadStatus ==
  /\ pc = "status"
  /\ result' = [i \in 1 .. StatusLen |-> mem[Wrap(StartAddress + length + i - 1)]]
  /\ pc' = "idle"
  /\ UNCHANGED <<mem, chipVars, chain, seg, polls, handed, wire>>

(* The main loop goes on without sending. *)
OtherWork ==
  /\ pc = "idle"
  /\ UNCHANGED vars

Driver ==
  \/ TransmitStart \/ TransmitPartial \/ TransmitEnd \/ RequestToSend
  \/ PollDone \/ PollBusy \/ SetReset \/ ClearReset \/ ReadStatus

Chip == ChipStart \/ ChipSend \/ ChipHang \/ \E s \in {Sent, Aborted} : ChipEnd(s)

Next == Chip \/ Driver \/ OtherWork \/ \E c \in Chains : LinkOutput(c)

(* The processor goes on; the chip need not, and nothing obliges the stack to *)
(* call.                                                                       *)
Spec == Init /\ [][Next]_vars /\ WF_vars(Driver)

-----------------------------------------------------------------------------
Lengths == {c[1].tot : c \in Chains}

TypeOK ==
  /\ mem \in [Ram -> Cell]
  /\ etxst \in Nat /\ etxnd \in Nat /\ ewrpt \in Ram
  /\ txrts \in BOOLEAN /\ txrst \in BOOLEAN
  /\ chip \in {"off", "sending", "hung"}
  /\ pc \in {"idle", "start", "partial", "end", "rts", "poll", "status", "reset", "release"}
  /\ seg \in DOMAIN chain
  /\ polls \in 0 .. Polls - 1
  /\ handed \in 0 .. MaxFrames

(* While the chip is sending, or about to, the bytes between ETXST and ETXND *)
(* are those of the packet of the running call, all of them and no more: the *)
(* driver never touches a frame in flight, however slow the chip is.         *)
InFlightIntact ==
  txrts => /\ etxnd = etxst + length
           /\ mem[etxst] = <<handed, Control>>
           /\ \A k \in 0 .. length - 1 : mem[etxst + 1 + k] = <<handed, k>>

(* When linkoutput has returned the transmit logic is idle and out of reset, *)
(* hang or not, so that the next call finds it usable.                       *)
QuietWhenIdle == pc = "idle" => ~txrts /\ ~txrst /\ chip = "off"

(* Neither the packet nor the status vector behind it touches the ring. *)
RingUntouched == \A a \in 0 .. rxbufsize : mem[a] = Unused

(* linkoutput returns, even if the chip hangs. *)
Returns == pc # "idle" ~> pc = "idle"

Line == INSTANCE TxLine WITH Lengths <- Lengths, busy <- pc # "idle",
                             length <- length, line <- wire

(* The transmit path implements the line of TxLine. *)
ImplementsLine == Line!Spec
=============================================================================
