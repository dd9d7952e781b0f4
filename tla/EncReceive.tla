----------------------------- MODULE EncReceive -----------------------------
(***************************************************************************)
(* The receive path: the ENC28J60 writes frames into its ring buffer while *)
(* the main loop polls EPKTCNT and reads them out, one SPI command at a    *)
(* time (mchdrv_poll, enc_read_received_pbuf, receive_start, receive_end). *)
(*                                                                         *)
(* The ring is 0 .. ERXND (ERXST is 0).  The chip side is external: it is  *)
(* modelled from the registers the driver programs.  A byte of the ring is *)
(* <<frame, offset>>: the frame it was written for and its place in it,    *)
(* -HeaderLen .. -1 for the header the chip puts in front and 0 .. for the *)
(* frame itself.                                                           *)
(***************************************************************************)
EXTENDS Integers, Sequences

CONSTANTS
  ERXND,       \* last address of the ring, dev->rxbufsize
  Radix,       \* values of one register byte (256 on the chip)
  FrameLens,   \* lengths, checksum included, of the frames on the wire
  BadLens,     \* length fields a failing chip reports instead
  Huge,        \* payload length above which the driver gives up (32000)
  MaxPackets,  \* largest value of EPKTCNT (255 on the chip)
  MaxFrames    \* bound: frames the wire brings

HeaderLen == 6
CrcLen    == 4

Unusable(len) == len < CrcLen \/ len - CrcLen > Huge

ASSUME ReceiveAssumption ==
  /\ ERXND \in Nat \ {0}
  /\ Radix \in Nat \ {0}
  /\ Huge \in Nat
  /\ MaxPackets \in Nat
  /\ MaxFrames \in Nat
  /\ FrameLens \subseteq Nat
  /\ BadLens \subseteq Nat
  /\ \A n \in FrameLens : ~Unusable(n)
  /\ \A n \in BadLens : Unusable(n)

VARIABLES
  wrpt,        \* chip: ERXWRPT, where the next frame is written
  rdpt,        \* chip: ERXRDPT, the byte the chip will not write past
  rdptL,       \* chip: low byte of ERXRDPT, waiting for the high byte
  erdpt,       \* chip: ERDPT, the buffer read pointer
  pktcnt,      \* chip: EPKTCNT
  mem,         \* chip: contents of the ring
  nfl,         \* dev->next_frame_location
  pc,          \* where the main loop is
  header,      \* the header read by receive_start
  buf,         \* *buf of enc_read_received_pbuf
  rx,          \* history: frames accepted by the chip
  taken,       \* history: frames the driver is done with
  delivered    \* history: payloads handed to netif->input

chipVars == <<wrpt, rdpt, rdptL, erdpt, pktcnt, mem>>
vars == <<chipVars, nfl, pc, header, buf, rx, taken, delivered>>

-----------------------------------------------------------------------------
(* Ring addresses. *)

Addr == 0 .. ERXND

(* The address k bytes after p, and the distance from p to q, for k <= ERXND. *)
Plus(p, k) == IF p + k > ERXND THEN p + k - ERXND - 1 ELSE p + k
Dist(p, q) == IF q >= p THEN q - p ELSE q - p + ERXND + 1

(* Bytes the chip may still fill.  It stops short of ERXRDPT. *)
Free ==
  IF wrpt > rdpt THEN ERXND - (wrpt - rdpt)
  ELSE IF wrpt = rdpt THEN ERXND
  ELSE rdpt - wrpt - 1

Cell == {<<0, 0>>} \cup (1 .. MaxFrames) \X Int
NoPbuf == [alloc |-> FALSE, data |-> <<>>]

-----------------------------------------------------------------------------
(* The chip. *)

(* Frames start at even addresses: one byte of padding after an odd end. *)
PadAfter(p) == IF p % 2 = 1 THEN 1 ELSE 0

(* A frame of n bytes arrives and fits.  Its header holds the address of the *)
(* next frame and a length field: n, or garbage when the chip is failing.    *)
ChipReceive(n, field) ==
  LET id   == Len(rx) + 1
      size == HeaderLen + n + PadAfter(Plus(wrpt, HeaderLen + n))
      next == Plus(wrpt, size)
  IN  /\ Len(rx) < MaxFrames
      /\ pktcnt < MaxPackets
      /\ size <= Free
      /\ mem' = [a \in Addr |-> IF Dist(wrpt, a) < HeaderLen + n
                                THEN <<id, Dist(wrpt, a) - HeaderLen>>
                                ELSE mem[a]]
      /\ rx' = Append(rx, [start |-> wrpt, size |-> size, bytes |-> n,
                           next |-> next, len |-> field])
      /\ wrpt' = next
      /\ pktcnt' = pktcnt + 1
      /\ UNCHANGED <<rdpt, rdptL, erdpt, nfl, pc, header, buf, taken, delivered>>

(* What reading six bytes at p yields: the header of a frame when the bytes *)
(* are one, and anything at all when they are not.                          *)
HeadersAt(p) ==
  LET f == mem[p][1]
  IN  IF f # 0 /\ \A k \in 0 .. HeaderLen - 1 : mem[Plus(p, k)] = <<f, k - HeaderLen>>
      THEN {[next |-> rx[f].next, len |-> rx[f].len]}
      ELSE [next : Addr, len : FrameLens \cup BadLens]

-----------------------------------------------------------------------------
(* The driver.  A line marked "fault" is a mistake the checks are tried on. *)

Init ==
  /\ wrpt = 0 /\ rdpt = 0 /\ rdptL = 0 /\ erdpt = 0 /\ pktcnt = 0
  /\ mem = [a \in Addr |-> <<0, 0>>]
  /\ nfl = 0
  /\ pc = "idle"
  /\ header = [next |-> 0, len |-> 0]
  /\ buf = NoPbuf
  /\ rx = <<>>
  /\ taken = 0
  /\ delivered = <<>>

(* mchdrv_poll reads EPKTCNT; without a frame it returns. *)
PollEmpty ==
  /\ pc = "idle"
  /\ pktcnt = 0
  /\ UNCHANGED vars

PollFrame ==
  /\ pc = "idle"
  /\ pktcnt # 0
  /\ pc' = "start"
  /\ UNCHANGED <<chipVars, nfl, header, buf, rx, taken, delivered>>

(* receive_start: enc_RBM points ERDPT at the frame and reads its header. *)
ReceiveStart ==
  /\ pc = "start"
  /\ header' \in HeadersAt(nfl)
  /\ erdpt' = Plus(nfl, HeaderLen)
  /\ pc' = "alloc"
  /\ UNCHANGED <<wrpt, rdpt, rdptL, pktcnt, mem, nfl, buf, rx, taken, delivered>>

(* The two length checks: an empty frame, or a huge one. *)
RefuseAndReturn ==  \* fault: returns without receive_end
  /\ pc = "alloc"
  /\ Unusable(header.len)
  /\ pc' = "idle"
  /\ UNCHANGED <<chipVars, nfl, header, buf, rx, taken, delivered>>

RefuseLength ==
  /\ pc = "alloc"
  /\ Unusable(header.len)
  /\ pc' = "end"
  /\ UNCHANGED <<chipVars, nfl, header, buf, rx, taken, delivered>>

(* pbuf_alloc fails: the frame is discarded. *)
AllocFails ==
  /\ pc = "alloc"
  /\ ~Unusable(header.len)
  /\ pc' = "end"
  /\ UNCHANGED <<chipVars, nfl, header, buf, rx, taken, delivered>>

Allocate ==
  /\ pc = "alloc"
  /\ ~Unusable(header.len)
  /\ buf' = [alloc |-> TRUE, data |-> <<>>]
  /\ pc' = "data"
  /\ UNCHANGED <<chipVars, nfl, header, rx, taken, delivered>>

(* What is read into the pbuf: the frame without its checksum. *)
KeepChecksum == header.len  \* fault
PayloadLen == header.len - CrcLen

(* enc_RBM with ENC_READLOCATION_ANY goes on where the header ended. *)
ReadData ==
  LET n == PayloadLen
  IN  /\ pc = "data"
      /\ buf' = [alloc |-> TRUE, data |-> [k \in 0 .. n - 1 |-> mem[Plus(erdpt, k)]]]
      /\ erdpt' = Plus(erdpt, n)
      /\ pc' = "end"
      /\ UNCHANGED <<wrpt, rdpt, rdptL, pktcnt, mem, nfl, header, rx, taken, delivered>>

(* The value receive_end programs into ERXRDPT: one before the next frame. *)
NeverWraps(next) == next - 1  \* fault
ReadPointerFor(next) == IF next = 0 THEN ERXND ELSE next - 1

(* dev->next_frame_location moves to the address the header holds. *)
SkipLength == Plus(nfl, HeaderLen + header.len)  \* fault: forgets the padding
NextFrame == header.next

(* receive_end: step to the next frame, write the low byte of ERXRDPT ... *)
ReceiveEnd ==
  /\ pc = "end"
  /\ nfl' = NextFrame
  /\ rdptL' = ReadPointerFor(NextFrame) % Radix
  /\ taken' = taken + 1
  /\ pc' = "high"
  /\ UNCHANGED <<wrpt, rdpt, erdpt, pktcnt, mem, header, buf, rx, delivered>>

(* ... then the high byte, on which the chip takes over both ... *)
FreesWritten == IF wrpt = 0 THEN ERXND ELSE wrpt - 1  \* fault: all that is written
FreeOnlyRead == IF buf.alloc THEN ReadPointerFor(nfl) ELSE rdpt  \* fault
Latched == ((ReadPointerFor(nfl) \div Radix) * Radix) + rdptL

ReceiveEndHigh ==
  /\ pc = "high"
  /\ rdpt' = Latched
  /\ pc' = "dec"
  /\ UNCHANGED <<wrpt, rdptL, erdpt, pktcnt, mem, nfl, header, buf, rx, taken, delivered>>

(* ... and count the frame off with PKTDEC.  Only a frame that was read *)
(* makes enc_read_received_pbuf return 0.                               *)
AlwaysInput == "input"  \* fault: mchdrv_poll does not look at the result
AfterReceive == IF buf.alloc THEN "input" ELSE "idle"

PacketDecrement ==
  /\ pc = "dec"
  /\ pktcnt' = pktcnt - 1
  /\ pc' = AfterReceive
  /\ UNCHANGED <<wrpt, rdpt, rdptL, erdpt, mem, nfl, header, buf, rx, taken, delivered>>

(* mchdrv_poll hands the pbuf to the stack. *)
Input ==
  /\ pc = "input"
  /\ delivered' = Append(delivered, buf.data)
  /\ buf' = NoPbuf
  /\ pc' = "idle"
  /\ UNCHANGED <<chipVars, nfl, header, rx, taken>>

Driver ==
  \/ PollEmpty \/ PollFrame \/ ReceiveStart
  \/ RefuseLength \/ AllocFails \/ Allocate \/ ReadData
  \/ ReceiveEnd \/ ReceiveEndHigh \/ PacketDecrement \/ Input

Chip == \E n \in FrameLens : \E field \in {n} \cup BadLens : ChipReceive(n, field)

Next == Chip \/ Driver

(* The main loop polls for ever; nothing obliges a frame to arrive. *)
Spec == Init /\ [][Next]_vars /\ WF_vars(Driver)

-----------------------------------------------------------------------------
Unread == taken + 1 .. Len(rx)

(* What the history keeps of an accepted frame. *)
Frame == [start : Addr, size : Nat, bytes : FrameLens, next : Addr,
          len : FrameLens \cup BadLens]

Payload(f) == [k \in 0 .. rx[f].len - CrcLen - 1 |-> <<f, k>>]

TypeOK ==
  /\ wrpt \in Addr /\ rdpt \in Addr /\ rdptL \in 0 .. Radix - 1 /\ erdpt \in Addr
  /\ pktcnt \in 0 .. MaxPackets
  /\ mem \in [Addr -> Cell]
  /\ nfl \in Addr
  /\ pc \in {"idle", "start", "alloc", "data", "end", "high", "dec", "input"}
  /\ header \in [next : Addr, len : Nat]
  /\ buf.alloc \in BOOLEAN
  /\ rx \in Seq(Frame)
  /\ Len(rx) <= MaxFrames
  /\ taken \in 0 .. Len(rx)

(* However frames arrive while the driver reads, steps on and programs       *)
(* ERXRDPT, the chip never writes over a byte of a frame that the driver is  *)
(* still to read (receive_end frees the ring up to the frame it has read).   *)
UnreadIntact ==
  \A f \in Unread : \A k \in 0 .. HeaderLen + rx[f].bytes - 1 :
     mem[Plus(rx[f].start, k)] = <<f, k - HeaderLen>>

(* The driver's idea of the ring and the chip's agree: dev->next_frame_      *)
(* location is where the oldest unread frame starts (or where the next one   *)
(* will), and EPKTCNT is the number of unread frames, one more while         *)
(* receive_end has stepped on but not yet written PKTDEC.                    *)
InSync ==
  /\ nfl = IF taken < Len(rx) THEN rx[taken + 1].start ELSE wrpt
  /\ pktcnt = Len(rx) - taken + (IF pc \in {"high", "dec"} THEN 1 ELSE 0)

(* The pbuf that enc_read_received_pbuf returns holds, byte for byte, the    *)
(* frame it was read for without its checksum, and only a usable one.        *)
PbufHoldsFrame ==
  /\ pc = "end" /\ buf.alloc => buf.data = Payload(taken + 1)
  /\ pc \in {"high", "dec", "input"} /\ buf.alloc => buf.data = Payload(taken)

(* No space leaks: when every frame is read the chip can fill the ring up    *)
(* to the two bytes that ERXRDPT keeps, wherever the pointers stand.         *)
RingReclaimed == pc = "idle" /\ taken = Len(rx) => Free >= ERXND - 1

(* The workaround of errata item 14 that receive_end names: the value        *)
(* programmed into ERXRDPT is odd.                                           *)
OddReadPointer == [][rdpt' # rdpt => rdpt' % 2 = 1]_vars

(* Every frame the chip accepts is eventually read or discarded.             *)
EveryFrameTaken ==
  \A f \in 1 .. MaxFrames : Len(rx) >= f ~> taken >= f

(* A frame in the pbuf is still in the abstract queue until it is input. *)
Held == IF pc \in {"high", "dec", "input"} /\ buf.alloc THEN 1 ELSE 0

Queue == [i \in 1 .. Len(rx) - taken + Held |->
            [id |-> taken - Held + i, len |-> rx[taken - Held + i].len]]

Fifo == INSTANCE RxFifo WITH accepted <- Len(rx), queue <- Queue

(* The receive path implements the queue of RxFifo. *)
ImplementsFifo == Fifo!Spec
=============================================================================
