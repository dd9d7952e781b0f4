-------------------------- MODULE EncReceiveProofs --------------------------
(***************************************************************************)
(* Proofs about EncReceive, for every ring size, register width and set of *)
(* frame lengths.                                                          *)
(***************************************************************************)
EXTENDS EncReceive, SequenceTheorems, TLAPS

(* The address from which the ring still belongs to the driver: the frame   *)
(* receive_end has stepped over stays protected until ERXRDPT is latched.   *)
Base == IF pc = "high" THEN rx[taken].start ELSE nfl
Kept == IF pc = "high" THEN taken .. Len(rx) ELSE taken + 1 .. Len(rx)

Chain ==
  \A f \in 1 .. Len(rx) :
    /\ rx[f].next = IF f < Len(rx) THEN rx[f + 1].start ELSE wrpt
    /\ rx[f].size >= HeaderLen + rx[f].bytes
    /\ rx[f].len # rx[f].bytes => Unusable(rx[f].len)

(* Seen from Base the kept frames lie one after the other, before ERXWRPT.  *)
Layout ==
  \A f \in Kept :
    /\ Dist(Base, rx[f].start) + rx[f].size = Dist(Base, rx[f].next)
    /\ Dist(Base, rx[f].next) <= Dist(Base, wrpt)
    /\ \A g \in Kept : f < g => Dist(Base, rx[f].next) <= Dist(Base, rx[g].start)

(* ERXRDPT is one before Base; only at first it is on Base itself.          *)
Pointer ==
  \/ rdpt = ReadPointerFor(Base) /\ Dist(Base, wrpt) <= ERXND - 1
  \/ rdpt = 0 /\ Base = 0

Locals ==
  /\ pc \in {"start", "alloc", "data", "end"} => taken < Len(rx)
  /\ pc \in {"alloc", "data", "end"} =>
        header = [next |-> rx[taken + 1].next, len |-> rx[taken + 1].len]
  /\ pc = "data" => /\ buf = [alloc |-> TRUE, data |-> <<>>]
                    /\ ~Unusable(header.len)
  /\ pc \in {"alloc", "data"} => erdpt = Plus(rx[taken + 1].start, HeaderLen)
  /\ pc \in {"idle", "start", "alloc"} => ~buf.alloc
  /\ pc \in {"high", "dec", "input"} => taken > 0
  /\ pc = "high" => rdptL = ReadPointerFor(nfl) % Radix
  /\ pc \in {"high", "dec"} => pktcnt > 0
  /\ pc = "input" => buf.alloc
  /\ pc = "end" /\ buf.alloc => ~Unusable(header.len)
  /\ pc \in {"high", "dec", "input"} /\ buf.alloc => ~Unusable(rx[taken].len)

IInv ==
  /\ TypeOK
  /\ InSync
  /\ Chain
  /\ Layout
  /\ Pointer
  /\ Locals
  /\ UnreadIntact
  /\ PbufHoldsFrame

-----------------------------------------------------------------------------
(* Arithmetic of ring addresses. *)

(* Plus stays in the ring and Dist undoes it. *)
LEMMA PlusDist ==
  ASSUME NEW p \in Addr, NEW k \in 0 .. ERXND
  PROVE  /\ Plus(p, k) \in Addr
         /\ Dist(p, Plus(p, k)) = k
         /\ Plus(p, 0) = p
  BY ReceiveAssumption DEF Addr, Plus, Dist

LEMMA PlusPlus ==
  ASSUME NEW p \in Addr, NEW i \in Nat, NEW k \in Nat, i + k <= ERXND
  PROVE  Plus(Plus(p, i), k) = Plus(p, i + k)
  BY ReceiveAssumption DEF Addr, Plus

LEMMA DistFacts ==
  ASSUME NEW p \in Addr, NEW q \in Addr
  PROVE  /\ Dist(p, q) \in 0 .. ERXND
         /\ Dist(p, p) = 0
         /\ Plus(p, Dist(p, q)) = q
         /\ Dist(p, q) = 0 => p = q
  BY ReceiveAssumption DEF Addr, Plus, Dist

(* Moving the origin of the distances forward, from b to p. *)
LEMMA DistShift ==
  ASSUME NEW b \in Addr, NEW p \in Addr, NEW q \in Addr, Dist(b, p) <= Dist(b, q)
  PROVE  Dist(p, q) = Dist(b, q) - Dist(b, p)
  BY ReceiveAssumption DEF Addr, Dist

(* Walking on from q by k moves away from b by k, as long as b is not met. *)
LEMMA DistPlus ==
  ASSUME NEW b \in Addr, NEW q \in Addr, NEW k \in Nat, Dist(b, q) + k <= ERXND
  PROVE  Dist(b, Plus(q, k)) = Dist(b, q) + k
  BY ReceiveAssumption DEF Addr, Dist, Plus

(* The driver programs an address of the ring into ERXRDPT, the two bytes *)
(* of it make it up.                                                      *)
LEMMA ReadPointer ==
  ASSUME NEW p \in Addr
  PROVE  /\ ReadPointerFor(p) \in Addr
         /\ ReadPointerFor(p) % Radix \in 0 .. Radix - 1
         /\ ((ReadPointerFor(p) \div Radix) * Radix) + (ReadPointerFor(p) % Radix)
              = ReadPointerFor(p)
  <1>1. ReadPointerFor(p) \in Addr
    BY ReceiveAssumption DEF ReadPointerFor, Addr
  <1>2. ASSUME NEW v \in Nat
        PROVE  /\ v % Radix \in 0 .. Radix - 1
               /\ ((v \div Radix) * Radix) + (v % Radix) = v
    BY ReceiveAssumption
  <1>3. ReadPointerFor(p) \in Nat
    BY <1>1, ReceiveAssumption DEF Addr
  <1> QED BY <1>1, <1>2, <1>3

(* What the chip takes for free never reaches round to Base. *)
LEMMA FreeBound ==
  ASSUME rdpt \in Addr, wrpt \in Addr, Base \in Addr, Pointer
  PROVE  /\ Free \in Int
         /\ Dist(Base, wrpt) + Free <= ERXND
         /\ rdpt = ReadPointerFor(Base) => Dist(Base, wrpt) + Free <= ERXND - 1
  BY ReceiveAssumption DEF Pointer, Free, Dist, ReadPointerFor, Addr

-----------------------------------------------------------------------------
LEMMA InitInv == Init => IInv
  <1> SUFFICES ASSUME Init PROVE IInv
    OBVIOUS
  <1>1. TypeOK
    BY ReceiveAssumption DEF Init, TypeOK, Addr, Cell, NoPbuf
  <1>2. InSync /\ Chain /\ Layout /\ UnreadIntact
    BY DEF Init, InSync, Chain, Layout, Kept, UnreadIntact, Unread
  <1>3. Pointer
    BY DEF Init, Pointer, Base
  <1>4. Locals /\ PbufHoldsFrame
    BY DEF Init, Locals, PbufHoldsFrame, NoPbuf
  <1> QED BY <1>1, <1>2, <1>3, <1>4 DEF IInv

-----------------------------------------------------------------------------
LEMMA SeqElement ==
  ASSUME NEW S, NEW s \in Seq(S), NEW i \in 1 .. Len(s)
  PROVE  s[i] \in S
  OBVIOUS

LEMMA PbufData ==
  ASSUME NEW d
  PROVE  [alloc |-> TRUE, data |-> d].data = d
  OBVIOUS

LEMMA FrameFields ==
  ASSUME TypeOK, NEW f \in 1 .. Len(rx)
  PROVE  /\ rx[f] \in Frame
         /\ rx[f].start \in Addr /\ rx[f].next \in Addr
         /\ rx[f].size \in Nat /\ rx[f].bytes \in Nat /\ rx[f].len \in Nat
         /\ rx[f].bytes \in FrameLens
  <1>1. rx[f] \in Frame
    BY SeqElement DEF TypeOK
  <1> QED BY <1>1, ReceiveAssumption DEF Frame

LEMMA BaseInRing ==
  ASSUME IInv
  PROVE  /\ Base \in Addr
         /\ Kept \subseteq 1 .. Len(rx)
         /\ \A f \in Kept : taken <= f
  <1>1. taken \in 0 .. Len(rx) /\ Len(rx) \in Nat /\ TypeOK
    BY DEF IInv, TypeOK
  <1>2. pc = "high" => taken \in 1 .. Len(rx)
    BY <1>1 DEF IInv, Locals
  <1>3. Kept \subseteq 1 .. Len(rx) /\ \A f \in Kept : taken <= f
    BY <1>1, <1>2 DEF Kept
  <1>4. CASE pc = "high"
    BY <1>1, <1>2, <1>3, <1>4, FrameFields DEF Base
  <1>5. CASE pc # "high"
    BY <1>3, <1>5 DEF Base, IInv, TypeOK
  <1> QED BY <1>4, <1>5

(* A kept frame occupies the bytes from its start to the next frame, all of *)
(* them between Base and ERXWRPT.                                           *)
LEMMA KeptFrame ==
  ASSUME IInv, NEW f \in Kept
  PROVE  /\ HeaderLen + rx[f].bytes <= rx[f].size
         /\ rx[f].size <= ERXND
         /\ Dist(Base, rx[f].start) \in 0 .. ERXND
         /\ Dist(Base, rx[f].start) + rx[f].size = Dist(Base, rx[f].next)
         /\ Dist(Base, rx[f].next) <= Dist(Base, wrpt)
  <1>1. f \in 1 .. Len(rx) /\ Base \in Addr
    BY BaseInRing
  <1>2. /\ rx[f].start \in Addr /\ rx[f].next \in Addr
        /\ rx[f].size \in Nat /\ rx[f].bytes \in Nat
    BY <1>1, FrameFields DEF IInv
  <1>3. HeaderLen + rx[f].bytes <= rx[f].size
    BY <1>1, <1>2 DEF IInv, Chain
  <1>4. /\ Dist(Base, rx[f].start) + rx[f].size = Dist(Base, rx[f].next)
        /\ Dist(Base, rx[f].next) <= Dist(Base, wrpt)
    BY DEF IInv, Layout
  <1>5. Dist(Base, rx[f].start) \in 0 .. ERXND /\ Dist(Base, rx[f].next) \in 0 .. ERXND
    BY <1>1, <1>2, DistFacts
  <1> QED BY <1>2, <1>3, <1>4, <1>5, ReceiveAssumption

(* What the invariant says of the frame the driver is to read: it lies in   *)
(* the ring, and reading it from its start finds its header and its bytes.  *)
LEMMA OldestFrame ==
  ASSUME IInv, taken < Len(rx), pc # "high", NEW f, f = taken + 1
  PROVE  /\ f \in 1 .. Len(rx)
         /\ nfl = rx[f].start
         /\ rx[f] \in Frame
         /\ ~Unusable(rx[f].len) => rx[f].len = rx[f].bytes
         /\ HeaderLen + rx[f].bytes <= ERXND
         /\ \A k \in 0 .. HeaderLen + rx[f].bytes - 1 :
               mem[Plus(rx[f].start, k)] = <<f, k - HeaderLen>>
  <1>1. taken \in Nat /\ Len(rx) \in Nat /\ TypeOK
    BY DEF IInv, TypeOK
  <1>2. f \in 1 .. Len(rx) /\ f \in Unread /\ f \in Kept
    BY <1>1 DEF Unread, Kept
  <1>3. rx[f] \in Frame /\ rx[f].bytes \in Nat /\ rx[f].size \in Nat
    BY <1>1, <1>2, FrameFields
  <1>4. HeaderLen + rx[f].bytes <= ERXND
    BY <1>2, <1>3, KeptFrame, ReceiveAssumption DEF HeaderLen
  <1>5. ~Unusable(rx[f].len) => rx[f].len = rx[f].bytes
    BY <1>2 DEF IInv, Chain
  <1>6. nfl = rx[f].start
    BY DEF IInv, InSync
  <1>7. \A k \in 0 .. HeaderLen + rx[f].bytes - 1 :
            mem[Plus(rx[f].start, k)] = <<f, k - HeaderLen>>
    BY <1>2 DEF IInv, UnreadIntact
  <1> QED BY <1>2, <1>3, <1>4, <1>5, <1>6, <1>7

(* A step of the driver between two calls of receive_end does not move the *)
(* frames in the ring.                                                     *)
LEMMA RingUnchanged ==
  ASSUME IInv, UNCHANGED <<wrpt, rdpt, mem, nfl, rx, taken>>, pc # "high", pc' # "high"
  PROVE  Chain' /\ Layout' /\ Pointer' /\ UnreadIntact'
  <1>1. Base' = Base /\ Kept' = Kept
    BY DEF Base, Kept
  <1>2. Layout'
    BY <1>1 DEF IInv, Layout, Dist
  <1>3. Pointer'
    BY <1>1 DEF IInv, Pointer, ReadPointerFor, Dist
  <1>4. UnreadIntact'
    BY DEF IInv, UnreadIntact, Unread, Plus
  <1>5. Chain'
    BY DEF IInv, Chain
  <1> QED BY <1>2, <1>3, <1>4, <1>5

-----------------------------------------------------------------------------
(* The steps, one lemma for each group of actions. *)

LEMMA PollStep ==
  ASSUME IInv, PollEmpty \/ PollFrame
  PROVE  IInv'
  <1>1. CASE PollEmpty
    BY <1>1, RingUnchanged DEF PollEmpty, vars, chipVars, IInv, TypeOK, InSync, Locals,
       PbufHoldsFrame, Payload
  <1>2. CASE PollFrame
    <2> USE <1>2 DEF PollFrame, chipVars
    <2>1. Chain' /\ Layout' /\ Pointer' /\ UnreadIntact'
      BY RingUnchanged
    <2>2. TypeOK' /\ InSync'
      BY DEF IInv, TypeOK, InSync
    <2>3. Locals'
      BY DEF IInv, Locals, InSync, TypeOK
    <2>4. PbufHoldsFrame'
      BY DEF PbufHoldsFrame
    <2> QED BY <2>1, <2>2, <2>3, <2>4 DEF IInv
  <1> QED BY <1>1, <1>2

LEMMA ReceiveStartStep ==
  ASSUME IInv, ReceiveStart
  PROVE  IInv'
  <1> USE DEF ReceiveStart
  <1> DEFINE f == taken + 1
  <1>1. taken < Len(rx) /\ taken \in Nat /\ nfl \in Addr
    BY DEF IInv, Locals, TypeOK
  <1>2. /\ nfl = rx[f].start /\ rx[f] \in Frame
        /\ HeaderLen + rx[f].bytes <= ERXND /\ rx[f].bytes \in Nat
        /\ \A k \in 0 .. HeaderLen + rx[f].bytes - 1 :
               mem[Plus(nfl, k)] = <<f, k - HeaderLen>>
    BY <1>1, OldestFrame, FrameFields DEF IInv
  <1>3. \A k \in 0 .. HeaderLen - 1 : mem[Plus(nfl, k)] = <<f, k - HeaderLen>>
    BY <1>2 DEF HeaderLen
  <1>4. mem[nfl][1] = f /\ f # 0
    <2>1. Plus(nfl, 0) = nfl
      BY <1>1, PlusDist, ReceiveAssumption
    <2>2. mem[Plus(nfl, 0)] = <<f, 0 - HeaderLen>>
      BY <1>3 DEF HeaderLen
    <2> QED BY <1>1, <2>1, <2>2
  <1>5. header' = [next |-> rx[f].next, len |-> rx[f].len]
    BY <1>3, <1>4 DEF HeadersAt
  <1>6. header' \in [next : Addr, len : Nat]
    BY <1>2, <1>5, ReceiveAssumption DEF Frame
  <1>7. erdpt' \in Addr
    BY <1>1, <1>2, PlusDist, ReceiveAssumption DEF HeaderLen
  <1>8. Chain' /\ Layout' /\ Pointer' /\ UnreadIntact'
    BY RingUnchanged
  <1>9. TypeOK' /\ InSync'
    BY <1>6, <1>7 DEF IInv, TypeOK, InSync
  <1>10. Locals' /\ PbufHoldsFrame'
    BY <1>1, <1>2, <1>5 DEF IInv, Locals, PbufHoldsFrame
  <1> QED BY <1>8, <1>9, <1>10 DEF IInv

LEMMA AllocStep ==
  ASSUME IInv, RefuseLength \/ AllocFails \/ Allocate
  PROVE  IInv'
  <1>1. /\ UNCHANGED <<chipVars, nfl, header, rx, taken, delivered>>
        /\ pc = "alloc" /\ pc' \in {"data", "end"}
        /\ pc' = "end" => buf' = buf
        /\ pc' = "data" => buf' = [alloc |-> TRUE, data |-> <<>>] /\ ~Unusable(header.len)
    BY DEF RefuseLength, AllocFails, Allocate
  <1>2. ~buf.alloc /\ buf.alloc \in BOOLEAN /\ taken < Len(rx)
    BY <1>1 DEF IInv, Locals, TypeOK
  <1>3. Chain' /\ Layout' /\ Pointer' /\ UnreadIntact'
    BY <1>1, RingUnchanged DEF chipVars
  <1>4. /\ buf'.alloc \in BOOLEAN
        /\ pc' = "end" => ~buf'.alloc
    <2>1. [alloc |-> TRUE, data |-> <<>>].alloc = TRUE
      OBVIOUS
    <2> QED BY <1>1, <1>2, <2>1
  <1>5. TypeOK' /\ InSync'
    BY <1>1, <1>4 DEF IInv, TypeOK, InSync, chipVars
  <1>6. PbufHoldsFrame'
    BY <1>1, <1>4 DEF PbufHoldsFrame
  <1>7. Locals'
    BY <1>1, <1>2, <1>4 DEF IInv, Locals, chipVars
  <1> QED BY <1>3, <1>5, <1>6, <1>7 DEF IInv

LEMMA ReadDataStep ==
  ASSUME IInv, ReadData
  PROVE  IInv'
  <1> USE DEF ReadData, PayloadLen
  <1> DEFINE f == taken + 1
             n == rx[f].len - CrcLen
             start == rx[f].start
  <1>1. taken < Len(rx) /\ taken \in Nat
    BY DEF IInv, Locals, TypeOK
  <1>2. /\ start \in Addr /\ rx[f].bytes \in Nat /\ rx[f].len \in Nat
        /\ ~Unusable(rx[f].len) => rx[f].len = rx[f].bytes
        /\ HeaderLen + rx[f].bytes <= ERXND
        /\ \A k \in 0 .. HeaderLen + rx[f].bytes - 1 :
               mem[Plus(start, k)] = <<f, k - HeaderLen>>
    BY <1>1, OldestFrame, FrameFields DEF IInv
  <1>3. erdpt = Plus(start, HeaderLen) /\ header.len = rx[f].len /\ ~Unusable(header.len)
    BY DEF IInv, Locals
  <1>4. n \in Nat /\ n + CrcLen = rx[f].bytes /\ erdpt \in Addr
    BY <1>2, <1>3, ReceiveAssumption DEF Unusable, CrcLen, IInv, TypeOK
  <1>5. ASSUME NEW k \in 0 .. n - 1
        PROVE  mem[Plus(erdpt, k)] = <<f, k>>
    <2>1. HeaderLen = 6 /\ CrcLen = 4 /\ ERXND \in Nat
      BY ReceiveAssumption DEF HeaderLen, CrcLen
    <2>2. n \in Nat /\ n + 4 = rx[f].bytes
      BY <1>4, <2>1
    <2>3. k \in Nat /\ k < n
      BY <2>2
    <2>4. rx[f].bytes \in Nat /\ 6 + rx[f].bytes <= ERXND
      BY <1>2, <2>1
    <2>5. /\ k \in Nat /\ HeaderLen \in Nat /\ HeaderLen + k <= ERXND
          /\ HeaderLen + k \in 0 .. HeaderLen + rx[f].bytes - 1
      <3> HIDE DEF n, f
      <3> QED BY <2>1, <2>2, <2>3, <2>4
    <2>6. Plus(erdpt, k) = Plus(start, HeaderLen + k)
      BY <1>2, <1>3, <2>5, PlusPlus
    <2>7. mem[Plus(start, HeaderLen + k)] = <<f, (HeaderLen + k) - HeaderLen>>
      BY <1>2, <2>5
    <2>8. (HeaderLen + k) - HeaderLen = k
      BY <2>5
    <2> QED BY <2>6, <2>7, <2>8
  <1>6. buf' = [alloc |-> TRUE, data |-> [k \in 0 .. n - 1 |-> <<f, k>>]]
    BY <1>3, <1>5
  <1>7. erdpt' \in Addr
    BY <1>2, <1>3, <1>4, PlusDist, ReceiveAssumption DEF HeaderLen, CrcLen
  <1>8. Chain' /\ Layout' /\ Pointer' /\ UnreadIntact'
    BY RingUnchanged
  <1>9. TypeOK' /\ InSync'
    BY <1>6, <1>7 DEF IInv, TypeOK, InSync
  <1>10. PbufHoldsFrame'
    <2>1. buf'.data = [k \in 0 .. n - 1 |-> <<f, k>>]
      BY <1>6, PbufData
    <2>2. Payload(taken + 1)' = [k \in 0 .. n - 1 |-> <<f, k>>]
      BY DEF Payload
    <2> QED BY <2>1, <2>2 DEF PbufHoldsFrame
  <1>11. Locals'
    BY DEF IInv, Locals
  <1> QED BY <1>8, <1>9, <1>10, <1>11 DEF IInv

LEMMA ReceiveEndStep ==
  ASSUME IInv, ReceiveEnd
  PROVE  IInv'
  <1> USE DEF ReceiveEnd, NextFrame
  <1> DEFINE f == taken + 1
  <1>1. taken < Len(rx) /\ taken \in Nat /\ Len(rx) \in Nat /\ TypeOK
        /\ header = [next |-> rx[f].next, len |-> rx[f].len]
    BY DEF IInv, Locals, TypeOK
  <1>2. f \in 1 .. Len(rx) /\ nfl = rx[f].start /\ rx[f].next \in Addr
    BY <1>1, OldestFrame, FrameFields
  <1>3. Base' = Base /\ Kept' = Kept
    BY <1>1, <1>2 DEF Base, Kept
  <1>4. Layout'
    BY <1>3 DEF IInv, Layout, Dist
  <1>5. Pointer'
    BY <1>3 DEF IInv, Pointer, Dist, ReadPointerFor
  <1>6. UnreadIntact'
    <2>1. Unread' \subseteq Unread
      BY <1>1 DEF Unread
    <2> QED BY <2>1 DEF IInv, UnreadIntact, Plus
  <1>7. nfl' = IF taken' < Len(rx)' THEN rx[taken + 2].start ELSE wrpt
    BY <1>1, <1>2 DEF IInv, Chain
  <1>8. InSync' /\ pktcnt > 0
    BY <1>1, <1>7 DEF IInv, InSync
  <1>9. rdptL' \in 0 .. Radix - 1 /\ rdptL' = ReadPointerFor(nfl') % Radix
    BY <1>1, <1>2, ReadPointer
  <1>10. TypeOK'
    BY <1>1, <1>2, <1>9 DEF TypeOK
  <1>11. Chain'
    BY DEF IInv, Chain
  <1>12. Locals'
    BY <1>1, <1>8, <1>9 DEF IInv, Locals, ReadPointerFor
  <1>13. PbufHoldsFrame'
    BY DEF IInv, PbufHoldsFrame, Payload
  <1> QED BY <1>4, <1>5, <1>6, <1>8, <1>10, <1>11, <1>12, <1>13 DEF IInv

LEMMA CountOffStep ==
  ASSUME IInv, PacketDecrement \/ Input
  PROVE  IInv'
  <1>1. /\ UNCHANGED <<wrpt, rdpt, rdptL, erdpt, mem, nfl, header, rx, taken>>
        /\ pc = "dec" => pktcnt' = pktcnt - 1 /\ buf' = buf
        /\ pc \in {"dec", "input"} /\ pc' \in {"input", "idle"}
        /\ pc = "input" => pktcnt' = pktcnt /\ buf' = NoPbuf /\ pc' = "idle"
        /\ pc' = "idle" <=> ~buf'.alloc
        /\ buf'.alloc \in BOOLEAN
    <2>1. NoPbuf.alloc = FALSE
      BY DEF NoPbuf
    <2>2. buf.alloc \in BOOLEAN
      BY DEF IInv, TypeOK
    <2> QED BY <2>1, <2>2 DEF PacketDecrement, AfterReceive, Input, chipVars
  <1>2. Chain' /\ Layout' /\ Pointer' /\ UnreadIntact'
    BY <1>1, RingUnchanged
  <1>3. pktcnt' \in 0 .. MaxPackets
    BY <1>1, ReceiveAssumption DEF IInv, Locals, TypeOK
  <1>4. TypeOK'
    BY <1>1, <1>3 DEF IInv, TypeOK
  <1>5. InSync'
    BY <1>1, <1>3 DEF IInv, InSync, TypeOK
  <1>6. PbufHoldsFrame'
    BY <1>1 DEF IInv, PbufHoldsFrame, Payload
  <1>7. Locals'
    BY <1>1 DEF IInv, Locals
  <1> QED BY <1>2, <1>4, <1>5, <1>6, <1>7 DEF IInv

(* Latching ERXRDPT gives the bytes up to the next frame back to the chip: *)
(* Base moves there, and every other frame is that much nearer to it.      *)
LEMMA ReceiveEndHighStep ==
  ASSUME IInv, ReceiveEndHigh
  PROVE  IInv'
  <1> USE DEF ReceiveEndHigh, Latched
  <1>1. /\ taken \in 1 .. Len(rx) /\ Len(rx) \in Nat /\ TypeOK
        /\ nfl \in Addr /\ wrpt \in Addr
        /\ rdptL = ReadPointerFor(nfl) % Radix
    BY DEF IInv, Locals, TypeOK
  <1>2. rdpt' = ReadPointerFor(nfl)
    BY <1>1, ReadPointer
  <1>3. /\ Base = rx[taken].start /\ Base' = nfl
        /\ Kept = taken .. Len(rx) /\ Kept' = taken + 1 .. Len(rx)
    BY <1>1 DEF Base, Kept
  <1>4. nfl = rx[taken].next
    BY <1>1 DEF IInv, InSync, Chain
  <1>5. /\ Base \in Addr /\ taken \in Kept
        /\ Dist(Base, Base) = 0
        /\ rx[taken].size \in Nat /\ rx[taken].size >= HeaderLen
    <2>1. Base \in Addr
      BY BaseInRing
    <2>2. taken \in Kept
      BY <1>1, <1>3
    <2>3. rx[taken].size \in Nat /\ rx[taken].bytes \in Nat
      BY <1>1, FrameFields
    <2> QED BY <2>1, <2>2, <2>3, KeptFrame, DistFacts DEF HeaderLen
  <1>6. Dist(Base, nfl) = rx[taken].size /\ Dist(Base, nfl) <= Dist(Base, wrpt)
    BY <1>3, <1>4, <1>5, KeptFrame
  <1>7. ASSUME NEW f \in Kept'
        PROVE  /\ f \in Kept /\ f \in 1 .. Len(rx)
               /\ rx[f].start \in Addr /\ rx[f].next \in Addr /\ rx[f].size \in Nat
               /\ Dist(nfl, rx[f].start) = Dist(Base, rx[f].start) - Dist(Base, nfl)
               /\ Dist(nfl, rx[f].next) = Dist(Base, rx[f].next) - Dist(Base, nfl)
               /\ Dist(Base, rx[f].start) \in Nat /\ Dist(Base, rx[f].next) \in Nat
    <2>1. f \in Kept /\ f \in 1 .. Len(rx) /\ taken < f
      BY <1>1, <1>3
    <2>2. rx[f].start \in Addr /\ rx[f].next \in Addr /\ rx[f].size \in Nat
      BY <1>1, <2>1, FrameFields
    <2>3. Dist(Base, nfl) <= Dist(Base, rx[f].start)
      BY <1>4, <1>5, <2>1 DEF IInv, Layout
    <2>4. /\ Dist(Base, rx[f].start) + rx[f].size = Dist(Base, rx[f].next)
          /\ Dist(Base, rx[f].start) \in Nat /\ Dist(Base, rx[f].next) \in Nat
          /\ Dist(Base, nfl) \in Nat
      <3>1. Dist(Base, rx[f].start) + rx[f].size = Dist(Base, rx[f].next)
        BY <2>1, KeptFrame
      <3>2. ASSUME NEW q \in Addr
            PROVE  Dist(Base, q) \in Nat
        BY <1>5, DistFacts
      <3> QED BY <1>1, <2>2, <3>1, <3>2
    <2>5. Dist(Base, nfl) <= Dist(Base, rx[f].next)
      BY <2>2, <2>3, <2>4
    <2> QED BY <1>1, <1>5, <2>1, <2>2, <2>3, <2>4, <2>5, DistShift
  <1>8. /\ Dist(nfl, wrpt) = Dist(Base, wrpt) - Dist(Base, nfl)
        /\ Dist(Base, wrpt) \in 0 .. ERXND
    BY <1>1, <1>5, <1>6, DistShift, DistFacts
  <1>9. Layout'
    <2> SUFFICES ASSUME NEW f \in Kept'
        PROVE  /\ Dist(nfl, rx[f].start) + rx[f].size = Dist(nfl, rx[f].next)
               /\ Dist(nfl, rx[f].next) <= Dist(nfl, wrpt)
               /\ \A g \in Kept' : f < g => Dist(nfl, rx[f].next) <= Dist(nfl, rx[g].start)
      BY <1>3 DEF Layout, Dist
    <2>1. Dist(Base, nfl) \in Nat
      BY <1>5, <1>6
    <2>2. Dist(nfl, rx[f].start) + rx[f].size = Dist(nfl, rx[f].next)
      BY <1>7, <2>1, KeptFrame
    <2>3. Dist(nfl, rx[f].next) <= Dist(nfl, wrpt)
      BY <1>7, <1>8, <2>1, KeptFrame
    <2>4. ASSUME NEW g \in Kept', f < g
          PROVE  Dist(nfl, rx[f].next) <= Dist(nfl, rx[g].start)
      <3>1. Dist(Base, rx[f].next) <= Dist(Base, rx[g].start)
        BY <1>7, <2>4 DEF IInv, Layout
      <3> QED BY <1>7, <2>1, <3>1
    <2> QED BY <2>2, <2>3, <2>4
  <1>10. Pointer'
    <2>1. Dist(nfl, wrpt) <= ERXND - 1
      BY <1>5, <1>6, <1>8, ReceiveAssumption DEF HeaderLen
    <2> QED BY <1>2, <1>3, <2>1 DEF Pointer, Dist, ReadPointerFor
  <1>11. TypeOK'
    BY <1>1, <1>2, ReadPointer DEF TypeOK
  <1>12. InSync' /\ Chain'
    BY DEF IInv, InSync, Chain
  <1>13. UnreadIntact'
    BY DEF IInv, UnreadIntact, Unread, Plus
  <1>14. Locals' /\ PbufHoldsFrame'
    BY <1>1 DEF IInv, Locals, PbufHoldsFrame, Payload
  <1> QED BY <1>9, <1>10, <1>11, <1>12, <1>13, <1>14 DEF IInv

(* A byte between Base and ERXWRPT is out of reach of what the chip writes. *)
LEMMA DistBack ==
  ASSUME NEW b \in Addr, NEW a \in Addr, NEW w \in Addr, Dist(b, a) < Dist(b, w)
  PROVE  Dist(w, a) = ERXND + 1 - (Dist(b, w) - Dist(b, a))
  BY ReceiveAssumption DEF Addr, Dist

LEMMA ChipReceiveStep ==
  ASSUME IInv, NEW n \in FrameLens, NEW field \in {n} \cup BadLens, ChipReceive(n, field)
  PROVE  IInv'
  <1> DEFINE id   == Len(rx) + 1
             pad  == PadAfter(Plus(wrpt, HeaderLen + n))
             size == HeaderLen + n + pad
             next == Plus(wrpt, size)
             new  == [start |-> wrpt, size |-> size, bytes |-> n, next |-> next, len |-> field]
  <1>1. /\ Len(rx) < MaxFrames /\ pktcnt < MaxPackets /\ size <= Free
        /\ mem' = [a \in Addr |-> IF Dist(wrpt, a) < HeaderLen + n
                                  THEN <<id, Dist(wrpt, a) - HeaderLen>> ELSE mem[a]]
        /\ rx' = Append(rx, new) /\ wrpt' = next /\ pktcnt' = pktcnt + 1
        /\ UNCHANGED <<rdpt, rdptL, erdpt, nfl, pc, header, buf, taken, delivered>>
    BY Zenon DEF ChipReceive
  <1>2. /\ n \in Nat /\ field \in Nat /\ field \in FrameLens \cup BadLens
        /\ field # n => Unusable(field)
    BY ReceiveAssumption
  <1>3. size \in Nat /\ HeaderLen + n <= size
    <2>1. pad \in Nat
      BY DEF PadAfter
    <2> HIDE DEF pad
    <2> QED BY <1>2, <2>1 DEF HeaderLen
  <1>4. /\ TypeOK /\ Len(rx) \in Nat /\ taken \in 0 .. Len(rx)
        /\ wrpt \in Addr /\ rdpt \in Addr /\ Base \in Addr
    BY BaseInRing DEF IInv, TypeOK
  <1>5. /\ Free \in Int
        /\ Dist(Base, wrpt) + Free <= ERXND
        /\ rdpt = ReadPointerFor(Base) => Dist(Base, wrpt) + Free <= ERXND - 1
    BY <1>4, FreeBound DEF IInv
  <1>6. Dist(Base, wrpt) \in 0 .. ERXND
    BY <1>4, DistFacts
  <1>7. /\ Dist(Base, wrpt) + size <= ERXND /\ size <= ERXND
        /\ rdpt = ReadPointerFor(Base) => Dist(Base, wrpt) + size <= ERXND - 1
    <2> HIDE DEF size
    <2> QED BY <1>1, <1>3, <1>5, <1>6, ReceiveAssumption
  <1>8. next \in Addr /\ Dist(Base, next) = Dist(Base, wrpt) + size
    <2> HIDE DEF size
    <2>1. size \in 0 .. ERXND
      BY <1>3, <1>7, ReceiveAssumption
    <2> QED BY <1>3, <1>4, <1>7, <2>1, PlusDist, DistPlus
  <1>9. /\ Len(rx') = id
        /\ rx'[id].start = wrpt /\ rx'[id].size = size /\ rx'[id].bytes = n
        /\ rx'[id].next = next /\ rx'[id].len = field
        /\ \A f \in 1 .. Len(rx) : rx'[f] = rx[f]
    <2>1. rx \in Seq(Frame)
      BY <1>4 DEF TypeOK
    <2>2. rx'[id] = new /\ Len(rx') = id /\ \A f \in 1 .. Len(rx) : rx'[f] = rx[f]
      <3> HIDE DEF new
      <3> QED BY <1>1, <2>1
    <2> HIDE DEF size, next
    <2> QED BY <2>2
  <1>10. /\ Base' = Base
         /\ Kept' = Kept \cup {id} /\ Kept \subseteq 1 .. Len(rx)
    <2>1. Kept \subseteq 1 .. Len(rx)
      BY BaseInRing
    <2>2. pc = "high" => taken \in 1 .. Len(rx)
      BY <1>4 DEF IInv, Locals
    <2> HIDE DEF new, next
    <2> QED BY <1>1, <1>4, <1>9, <2>1, <2>2 DEF Base, Kept
  <1>11. Chain'
    <2>1. ASSUME NEW f \in 1 .. Len(rx)
          PROVE  /\ rx'[f].next = IF f < Len(rx') THEN rx'[f + 1].start ELSE wrpt'
                 /\ rx'[f].size >= HeaderLen + rx'[f].bytes
                 /\ rx'[f].len # rx'[f].bytes => Unusable(rx'[f].len)
      <3>1. rx[f].next = IF f < Len(rx) THEN rx[f + 1].start ELSE wrpt
        BY DEF IInv, Chain
      <3>2. rx'[f + 1].start = IF f < Len(rx) THEN rx[f + 1].start ELSE wrpt
        <4> HIDE DEF next, size
        <4> QED BY <1>4, <1>9
      <3>3. rx'[f] = rx[f] /\ f < Len(rx')
        BY <1>4, <1>9
      <3> QED BY <3>1, <3>2, <3>3 DEF IInv, Chain
    <2>2. /\ rx'[id].next = wrpt' /\ ~(id < Len(rx'))
          /\ rx'[id].size >= HeaderLen + rx'[id].bytes
          /\ rx'[id].len # rx'[id].bytes => Unusable(rx'[id].len)
      <3> HIDE DEF next, size
      <3> QED BY <1>1, <1>2, <1>3, <1>4, <1>9 DEF HeaderLen
    <2>3. 1 .. Len(rx') = 1 .. Len(rx) \cup {id}
      <3> HIDE DEF next, size
      <3> QED BY <1>4, <1>9
    <2> HIDE DEF new, next, size, id
    <2> QED BY <2>1, <2>2, <2>3 DEF Chain
  <1>12. Layout'
    <2>1. ASSUME NEW f \in Kept
          PROVE  /\ rx'[f] = rx[f] /\ f # id
                 /\ Dist(Base, rx[f].start) + rx[f].size = Dist(Base, rx[f].next)
                 /\ Dist(Base, rx[f].next) <= Dist(Base, wrpt)
                 /\ Dist(Base, rx[f].next) <= Dist(Base, next)
                 /\ \A g \in Kept : f < g => Dist(Base, rx[f].next) <= Dist(Base, rx[g].start)
      <3>1. rx'[f] = rx[f] /\ f # id /\ rx[f].next \in Addr
        BY <1>4, <1>9, <1>10, FrameFields
      <3>2. Dist(Base, rx[f].next) \in 0 .. ERXND
        BY <1>4, <3>1, DistFacts
      <3>3. Dist(Base, rx[f].next) <= Dist(Base, wrpt)
        BY KeptFrame
      <3>4. Dist(Base, rx[f].next) <= Dist(Base, next)
        <4> HIDE DEF next, size
        <4> QED BY <1>3, <1>6, <1>8, <3>2, <3>3
      <3> QED BY <3>1, <3>3, <3>4 DEF IInv, Layout
    <2>2. \A f \in Kept : ~(id < f)
      BY <1>4, <1>10
    <2>3. Dist(Base, wrpt)' = Dist(Base, next) /\ \A q : Dist(Base, q)' = Dist(Base, q')
      BY <1>1, <1>10 DEF Dist
    <2> SUFFICES ASSUME NEW f \in Kept \cup {id}
        PROVE  /\ Dist(Base, rx'[f].start) + rx'[f].size = Dist(Base, rx'[f].next)
               /\ Dist(Base, rx'[f].next) <= Dist(Base, next)
               /\ \A g \in Kept \cup {id} :
                     f < g => Dist(Base, rx'[f].next) <= Dist(Base, rx'[g].start)
      BY <1>1, <1>10 DEF Layout, Dist
    <2>4. CASE f = id
      <3> HIDE DEF next, size, new
      <3> QED BY <1>3, <1>4, <1>6, <1>8, <1>9, <2>2, <2>4
    <2>5. CASE f \in Kept
      <3> HIDE DEF next, size, new
      <3> QED BY <1>9, <2>1, <2>5
    <2> QED BY <2>4, <2>5
  <1>13. Pointer'
    <2> HIDE DEF next, size, new
    <2>1. ReadPointerFor(Base)' = ReadPointerFor(Base) /\ Dist(Base, wrpt)' = Dist(Base, next)
      BY <1>1, <1>10 DEF ReadPointerFor, Dist
    <2> QED BY <1>1, <1>7, <1>8, <1>10, <2>1 DEF IInv, Pointer
  <1>14. UnreadIntact'
    <2> SUFFICES ASSUME NEW f \in Unread',
                        NEW k \in 0 .. HeaderLen + rx'[f].bytes - 1
        PROVE  mem'[Plus(rx'[f].start, k)] = <<f, k - HeaderLen>>
      BY DEF UnreadIntact, Plus
    <2>3. f \in taken + 1 .. id
      <3> HIDE DEF size, next
      <3> QED BY <1>1, <1>9 DEF Unread
    <2>1. CASE f = id
      <3>1. rx'[f].start = wrpt /\ rx'[f].bytes = n
        BY <1>9, <2>1
      <3>2. k \in 0 .. ERXND /\ k < HeaderLen + n
        <4> HIDE DEF size
        <4> QED BY <1>2, <1>3, <1>7, <3>1, ReceiveAssumption DEF HeaderLen
      <3>3. Plus(wrpt, k) \in Addr /\ Dist(wrpt, Plus(wrpt, k)) = k
        BY <1>4, <3>2, PlusDist
      <3> QED BY <1>1, <2>1, <3>1, <3>2, <3>3
    <2>2. CASE f # id
      <3> DEFINE a == Plus(rx[f].start, k)
      <3>1. f \in 1 .. Len(rx) /\ f \in Unread /\ f \in Kept /\ rx'[f] = rx[f]
        BY <1>4, <1>9, <2>2, <2>3 DEF Unread, Kept
      <3>2. rx[f].start \in Addr /\ rx[f].bytes \in Nat /\ rx[f].size \in Nat
        BY <1>4, <3>1, FrameFields
      <3>3. /\ HeaderLen + rx[f].bytes <= rx[f].size
            /\ Dist(Base, rx[f].start) \in 0 .. ERXND
            /\ Dist(Base, rx[f].start) + rx[f].size <= Dist(Base, wrpt)
        BY <3>1, KeptFrame
      <3>4. k \in Nat /\ k < rx[f].size
        BY <3>1, <3>2, <3>3 DEF HeaderLen
      <3>5. Dist(Base, rx[f].start) + k <= ERXND
        BY <1>6, <3>2, <3>3, <3>4, ReceiveAssumption
      <3>6. Dist(Base, a) = Dist(Base, rx[f].start) + k
        BY <1>4, <3>2, <3>4, <3>5, DistPlus
      <3>7. a \in Addr
        <4>1. k \in 0 .. ERXND
          BY <3>3, <3>4, <3>5, ReceiveAssumption
        <4> QED BY <3>2, <4>1, PlusDist
      <3>8. Dist(Base, a) < Dist(Base, wrpt) /\ Dist(Base, a) \in Nat
        <4> HIDE DEF a
        <4> QED BY <1>6, <3>2, <3>3, <3>4, <3>6
      <3>9. Dist(wrpt, a) = ERXND + 1 - (Dist(Base, wrpt) - Dist(Base, a))
        BY <1>4, <3>7, <3>8, DistBack
      <3>10. ~(Dist(wrpt, a) < HeaderLen + n)
        <4> HIDE DEF a, size
        <4> QED BY <1>2, <1>3, <1>6, <1>7, <3>8, <3>9, ReceiveAssumption DEF HeaderLen
      <3>11. mem[a] = <<f, k - HeaderLen>>
        BY <3>1 DEF IInv, UnreadIntact
      <3> HIDE DEF a
      <3>12. mem'[a] = <<f, k - HeaderLen>>
        BY <1>1, <3>7, <3>10, <3>11
      <3> QED BY <3>1, <3>12 DEF a
    <2> QED BY <2>1, <2>2
  <1>15. InSync'
    <2> HIDE DEF next, size
    <2>1. nfl' = IF taken' < Len(rx') THEN rx'[taken' + 1].start ELSE wrpt'
      BY <1>1, <1>4, <1>9 DEF IInv, InSync
    <2>2. pktcnt' = Len(rx') - taken' + (IF pc' \in {"high", "dec"} THEN 1 ELSE 0)
      <3> HIDE DEF new
      <3> QED BY <1>1, <1>4, <1>9 DEF IInv, InSync
    <2> QED BY <2>1, <2>2 DEF InSync
  <1>16. TypeOK'
    <2>1. new \in Frame
      BY <1>2, <1>3, <1>4, <1>8 DEF Frame
    <2>2. rx' \in Seq(Frame)
      <3> HIDE DEF new
      <3> QED BY <1>1, <1>4, <2>1 DEF TypeOK
    <2>3. mem' \in [Addr -> Cell]
      <3>1. ASSUME NEW a \in Addr
            PROVE  <<id, Dist(wrpt, a) - HeaderLen>> \in Cell /\ mem[a] \in Cell
        <4>1. Dist(wrpt, a) - HeaderLen \in Int
          BY <1>4, DistFacts, ReceiveAssumption DEF HeaderLen
        <4>2. id \in 1 .. MaxFrames
          BY <1>1, <1>4, ReceiveAssumption
        <4> QED BY <1>4, <4>1, <4>2 DEF Cell, TypeOK
      <3> QED BY <1>1, <3>1
    <2>4. /\ pktcnt' \in 0 .. MaxPackets /\ Len(rx') <= MaxFrames
          /\ taken' \in 0 .. Len(rx')
      <3> HIDE DEF new
      <3> QED BY <1>1, <1>4, <1>9, ReceiveAssumption DEF TypeOK
    <2> HIDE DEF new, next, size
    <2> QED BY <1>1, <1>4, <1>8, <2>2, <2>3, <2>4 DEF TypeOK
  <1>17. Locals'
    <2>1. taken < Len(rx) => rx'[taken + 1] = rx[taken + 1]
      BY <1>4, <1>9
    <2> HIDE DEF new, next, size
    <2>2. pktcnt \in Nat
      BY <1>4 DEF TypeOK
    <2> QED BY <1>1, <1>4, <1>9, <2>1, <2>2
        DEF IInv, Locals, ReadPointerFor, Plus
  <1>18. PbufHoldsFrame'
    <2>1. ASSUME NEW f \in 1 .. Len(rx)
          PROVE  Payload(f)' = Payload(f)
      BY <1>9, <2>1 DEF Payload
    <2>2. pc \in {"high", "dec", "input"} => taken \in 1 .. Len(rx)
      BY <1>4 DEF IInv, Locals
    <2>3. pc = "end" => taken + 1 \in 1 .. Len(rx)
      BY <1>4 DEF IInv, Locals
    <2> HIDE DEF new, next, size
    <2> QED BY <1>1, <2>1, <2>2, <2>3 DEF IInv, PbufHoldsFrame
  <1> QED BY <1>11, <1>12, <1>13, <1>14, <1>15, <1>16, <1>17, <1>18 DEF IInv

LEMMA StepInv == IInv /\ [Next]_vars => IInv'
  <1> SUFFICES ASSUME IInv, [Next]_vars PROVE IInv'
    OBVIOUS
  <1>1. CASE Chip
    BY <1>1, ChipReceiveStep DEF Chip
  <1>2. CASE PollEmpty \/ PollFrame
    BY <1>2, PollStep
  <1>3. CASE ReceiveStart
    BY <1>3, ReceiveStartStep
  <1>4. CASE RefuseLength \/ AllocFails \/ Allocate
    BY <1>4, AllocStep
  <1>5. CASE ReadData
    BY <1>5, ReadDataStep
  <1>6. CASE ReceiveEnd
    BY <1>6, ReceiveEndStep
  <1>7. CASE ReceiveEndHigh
    BY <1>7, ReceiveEndHighStep
  <1>8. CASE PacketDecrement \/ Input
    BY <1>8, CountOffStep
  <1>9. CASE UNCHANGED vars
    <2> USE <1>9 DEF vars, chipVars
    <2>1. Base' = Base /\ Kept' = Kept
      BY DEF Base, Kept
    <2>2. TypeOK' /\ InSync' /\ Chain'
      BY DEF IInv, TypeOK, InSync, Chain
    <2>3. Layout'
      BY <2>1 DEF IInv, Layout, Dist
    <2>4. Pointer'
      BY <2>1 DEF IInv, Pointer, ReadPointerFor, Dist
    <2>5. Locals' /\ PbufHoldsFrame'
      BY DEF IInv, Locals, ReadPointerFor, Plus, PbufHoldsFrame, Payload
    <2>6. UnreadIntact'
      BY DEF IInv, UnreadIntact, Unread, Plus
    <2> QED BY <2>2, <2>3, <2>4, <2>5, <2>6 DEF IInv
  <1> QED BY <1>1, <1>2, <1>3, <1>4, <1>5, <1>6, <1>7, <1>8, <1>9 DEF Next, Driver

(* The inductive invariant holds in every reachable state. *)
THEOREM Invariance == Spec => []IInv
  BY InitInv, StepInv, PTL DEF Spec

(* The registers and the driver's variables keep their types: in particular *)
(* ERXRDPT and dev->next_frame_location never leave the ring.               *)
THEOREM TypeCorrect == Spec => []TypeOK
  <1>1. IInv => TypeOK
    BY DEF IInv
  <1> QED BY Invariance, <1>1, PTL

(* The chip never writes over a frame the driver has still to read. *)
THEOREM NoOverrun == Spec => []UnreadIntact
  <1>1. IInv => UnreadIntact
    BY DEF IInv
  <1> QED BY Invariance, <1>1, PTL

(* dev->next_frame_location and EPKTCNT never lose the frames. *)
THEOREM NeverDesynchronised == Spec => []InSync
  <1>1. IInv => InSync
    BY DEF IInv
  <1> QED BY Invariance, <1>1, PTL

(* The pbuf holds the bytes of the frame that was read, and only those. *)
THEOREM PbufCorrect == Spec => []PbufHoldsFrame
  <1>1. IInv => PbufHoldsFrame
    BY DEF IInv
  <1> QED BY Invariance, <1>1, PTL

(* With every frame read, all but two bytes of the ring are free again. *)
THEOREM NoLeak == Spec => []RingReclaimed
  <1>1. IInv => RingReclaimed
    <2> SUFFICES ASSUME IInv, pc = "idle", taken = Len(rx)
        PROVE  Free >= ERXND - 1
      BY DEF RingReclaimed
    <2>1. nfl = wrpt /\ Base = wrpt /\ wrpt \in Addr /\ rdpt \in Addr
      BY DEF IInv, InSync, Base, TypeOK
    <2> QED BY <2>1, ReceiveAssumption DEF IInv, Pointer, ReadPointerFor, Free, Addr
  <1> QED BY Invariance, <1>1, PTL

-----------------------------------------------------------------------------
(* Errata item 14: frames start at even addresses, as the chip pads them at  *)
(* the end of the ring too.                                                  *)
Even ==
  /\ wrpt % 2 = 0
  /\ \A f \in 1 .. Len(rx) : rx[f].start % 2 = 0

LEMMA EvenNext ==
  ASSUME NEW p \in Addr, NEW k \in Nat,
         NEW q, q = Plus(p, k), k + PadAfter(q) <= ERXND
  PROVE  Plus(p, k + PadAfter(q)) % 2 = 0
  <1>1. q \in Addr
    BY PlusDist, ReceiveAssumption DEF PadAfter
  <1>2. CASE q % 2 = 1
    <2>1. Plus(p, k + 1) = Plus(q, 1)
      BY <1>2, PlusPlus DEF PadAfter
    <2>2. Plus(q, 1) % 2 = 0
      BY <1>1, <1>2, ReceiveAssumption DEF Plus, Addr
    <2> QED BY <1>2, <2>1, <2>2 DEF PadAfter
  <1>3. CASE q % 2 # 1
    <2>1. q % 2 = 0
      BY <1>1, <1>3 DEF Addr
    <2> QED BY <1>3, <2>1 DEF PadAfter
  <1> QED BY <1>2, <1>3

LEMMA EvenInit == Init => Even
  BY DEF Init, Even

LEMMA EvenStep ==
  ASSUME IInv, Even, [Next]_vars
  PROVE  Even'
  <1>1. CASE Chip
    <2>1. PICK n \in FrameLens, field \in UNION {{m} \cup BadLens : m \in FrameLens} :
            ChipReceive(n, field)
      BY <1>1 DEF Chip
    <2> DEFINE q    == Plus(wrpt, HeaderLen + n)
               size == HeaderLen + n + PadAfter(q)
               new  == [start |-> wrpt, size |-> size, bytes |-> n,
                        next |-> Plus(wrpt, size), len |-> field]
    <2>2. /\ size <= Free /\ rx' = Append(rx, new) /\ wrpt' = Plus(wrpt, size)
      BY <2>1, Zenon DEF ChipReceive
    <2>3. rx \in Seq(Frame) /\ Len(rx) \in Nat /\ wrpt \in Addr /\ TypeOK
      BY DEF IInv, TypeOK
    <2>4. size <= ERXND
      <3>0. Base \in Addr /\ wrpt \in Addr /\ rdpt \in Addr /\ Pointer
        BY BaseInRing DEF IInv, TypeOK
      <3>1. Dist(Base, wrpt) + Free <= ERXND /\ Free \in Int /\ Dist(Base, wrpt) \in Nat
        BY <3>0, FreeBound, DistFacts, ReceiveAssumption
      <3>2. size \in Nat
        BY ReceiveAssumption DEF PadAfter, HeaderLen
      <3> HIDE DEF size
      <3> QED BY <2>2, <3>1, <3>2, ReceiveAssumption
    <2>5. HeaderLen + n \in Nat
      BY ReceiveAssumption DEF HeaderLen
    <2>6. wrpt' % 2 = 0
      BY <2>2, <2>3, <2>4, <2>5, EvenNext
    <2>7. \A f \in 1 .. Len(rx') : rx'[f] = IF f <= Len(rx) THEN rx[f] ELSE new
      <3> HIDE DEF new
      <3> QED BY <2>2, <2>3
    <2>8. new.start = wrpt /\ Len(rx') = Len(rx) + 1
      <3> HIDE DEF size
      <3> QED BY <2>2, <2>3
    <2> HIDE DEF new
    <2> QED BY <2>3, <2>6, <2>7, <2>8 DEF Even
  <1>2. CASE Driver \/ UNCHANGED vars
    <2>1. UNCHANGED <<wrpt, rx>>
      BY <1>2 DEF Driver, PollEmpty, PollFrame, ReceiveStart, RefuseLength, AllocFails, Allocate,
         ReadData, ReceiveEnd, ReceiveEndHigh, PacketDecrement, Input, vars, chipVars
    <2> QED BY <2>1 DEF Even
  <1> QED BY <1>1, <1>2 DEF Next

(* How far the workaround of errata item 14 goes, in a ring of any size: the *)
(* only even value that receive_end programs into ERXRDPT is the last        *)
(* address, and only when the next frame starts at the first.                *)
OddOrLast == rdpt' # rdpt => rdpt' % 2 = 1 \/ (rdpt' = ERXND /\ nfl = 0)

LEMMA PointsBelowFrame == IInv /\ Even /\ [Next]_vars => OddOrLast
  <1> SUFFICES ASSUME IInv, Even, [Next]_vars PROVE OddOrLast
    OBVIOUS
  <1>1. CASE ReceiveEndHigh
    <2>1. nfl \in Addr /\ rdptL = ReadPointerFor(nfl) % Radix /\ taken \in Nat
          /\ Len(rx) \in Nat
      BY <1>1 DEF IInv, Locals, TypeOK, ReceiveEndHigh
    <2>2. rdpt' = ReadPointerFor(nfl)
      BY <1>1, <2>1, ReadPointer DEF ReceiveEndHigh, Latched
    <2>3. nfl % 2 = 0
      BY <2>1 DEF IInv, InSync, Even
    <2> QED BY <2>1, <2>2, <2>3, ReceiveAssumption DEF OddOrLast, ReadPointerFor, Addr
  <1>2. CASE ~ReceiveEndHigh
    BY <1>2 DEF Next, Chip, ChipReceive, Driver, PollEmpty, PollFrame, ReceiveStart,
       RefuseLength, AllocFails, Allocate, ReadData, ReceiveEnd, PacketDecrement, Input,
       vars, chipVars, OddOrLast
  <1> QED BY <1>1, <1>2

(* For rings of every size, ERXRDPT is odd except when it is the end of the  *)
(* ring: the workaround fails nowhere but where frames wrap to address 0.    *)
THEOREM EvenOnlyAtTheEnd == Spec => [][OddOrLast]_vars
  <1>1. IInv /\ Even /\ [Next]_vars => Even'
    BY EvenStep
  <1>2. IInv /\ Even /\ [Next]_vars => [OddOrLast]_vars
    BY PointsBelowFrame
  <1> QED BY <1>1, <1>2, EvenInit, Invariance, PTL DEF Spec

(* With an odd ERXND the workaround of errata item 14 does what its comment *)
(* says.  With the 4 * 1024 that mchdrv_init passes it does not: see the    *)
(* run receive_errata.                                                      *)
THEOREM OddWhenEndIsOdd ==
  ASSUME ERXND % 2 = 1
  PROVE  Spec => OddReadPointer
  <1>1. [OddOrLast]_vars => [rdpt' # rdpt => rdpt' % 2 = 1]_vars
    BY DEF OddOrLast
  <1> QED BY <1>1, EvenOnlyAtTheEnd, PTL DEF OddReadPointer

-----------------------------------------------------------------------------
(* The receive path refines the queue of RxFifo. *)

Item == [id : Int, len : FrameLens \cup BadLens]

LEMMA FunctionIsSequence ==
  ASSUME NEW S, NEW n \in Nat, NEW q \in [1 .. n -> S]
  PROVE  q \in Seq(S) /\ Len(q) = n
  BY SeqDef

(* q is the abstract queue of a state with the frames r, of which t are *)
(* taken and h held in a pbuf.                                          *)
Reads(q, h, t, r) ==
  /\ h \in {0, 1}
  /\ t \in Nat /\ Len(r) \in Nat /\ t <= Len(r) /\ h <= t
  /\ q \in Seq(Item)
  /\ Len(q) = Len(r) - t + h
  /\ \A i \in 1 .. Len(r) - t + h : q[i] = [id |-> t - h + i, len |-> r[t - h + i].len]

QueueReads == Reads(Queue, Held, taken, rx)

LEMMA QueueFacts == IInv => QueueReads
  <1> SUFFICES ASSUME IInv PROVE QueueReads
    OBVIOUS
  <1>1. /\ taken \in Nat /\ Len(rx) \in Nat /\ taken <= Len(rx) /\ TypeOK
        /\ Held \in {0, 1}
        /\ Held = 1 => taken >= 1
    BY DEF IInv, TypeOK, Held, Locals
  <1> DEFINE N == Len(rx) - taken + Held
  <1>2. ASSUME NEW i \in 1 .. N
        PROVE  [id |-> taken - Held + i, len |-> rx[taken - Held + i].len] \in Item
    <2>1. taken - Held + i \in 1 .. Len(rx)
      BY <1>1
    <2>2. rx[taken - Held + i].len \in FrameLens \cup BadLens
      BY <1>1, <2>1, FrameFields DEF Frame
    <2> QED BY <2>1, <2>2 DEF Item
  <1>3. N \in Nat
    BY <1>1
  <1>4. /\ Queue \in [1 .. N -> Item]
        /\ \A i \in 1 .. N :
             Queue[i] = [id |-> taken - Held + i, len |-> rx[taken - Held + i].len]
    <2> HIDE DEF Item
    <2> QED BY <1>2 DEF Queue
  <1>5. Queue \in Seq(Item) /\ Len(Queue) = N
    BY <1>3, <1>4, FunctionIsSequence
  <1> QED BY <1>1, <1>4, <1>5 DEF QueueReads, Reads

LEMMA QueueFactsPrime == IInv' => QueueReads'
  BY QueueFacts, PTL

LEMMA FifoInit == Init => Fifo!Init
  BY DEF Init, Fifo!Init, Queue, Held, NoPbuf

(* A step that neither accepts a frame nor is done with one does not show. *)
LEMMA FifoStutter ==
  ASSUME UNCHANGED <<rx, taken, delivered>>, Held' = Held
  PROVE  UNCHANGED Fifo!fifoVars
  BY DEF Fifo!fifoVars, Queue

LEMMA QueueAppend ==
  ASSUME NEW q, NEW q1, NEW h, NEW t, NEW r, NEW r1, NEW e \in Item,
         Reads(q, h, t, r), Reads(q1, h, t, r1),
         Len(r1) = Len(r) + 1, e = [id |-> Len(r) + 1, len |-> r1[Len(r) + 1].len],
         \A f \in 1 .. Len(r) : r1[f] = r[f]
  PROVE  q1 = Append(q, e)
  <1>1. /\ q \in Seq(Item) /\ q1 \in Seq(Item) /\ Len(q) \in Nat
        /\ t \in Nat /\ h \in {0, 1} /\ h <= t /\ t <= Len(r) /\ Len(r) \in Nat
        /\ Len(q) = Len(r) - t + h /\ Len(q1) = Len(q) + 1
    BY DEF Reads
  <1>2. /\ Append(q, e) \in Seq(Item) /\ Len(Append(q, e)) = Len(q) + 1
        /\ \A i \in 1 .. Len(q) : Append(q, e)[i] = q[i]
        /\ Append(q, e)[Len(q) + 1] = e
    <2>1. q \in Seq(Item)
      BY <1>1
    <2> HIDE DEF Item
    <2>2. Append(q, e) \in Seq(Item) /\ Len(Append(q, e)) = Len(q) + 1
      BY <2>1
    <2>3. \A i \in 1 .. Len(q) : Append(q, e)[i] = q[i]
      BY <2>1
    <2>4. Append(q, e)[Len(q) + 1] = e
      BY <2>1
    <2> QED BY <2>2, <2>3, <2>4
  <1>3. ASSUME NEW i \in 1 .. Len(q1)
        PROVE  q1[i] = Append(q, e)[i]
    <2>1. q1[i] = [id |-> t - h + i, len |-> r1[t - h + i].len]
      BY <1>1 DEF Reads
    <2>2. CASE i = Len(q) + 1
      <3>1. t - h + i = Len(r) + 1
        BY <1>1, <2>2
      <3> QED BY <1>2, <2>1, <2>2, <3>1
    <2>3. CASE i # Len(q) + 1
      <3>1. i \in Nat /\ 1 <= i /\ i <= Len(q) + 1 /\ i # Len(q) + 1
        BY <1>1, <2>3
      <3>2. i \in 1 .. Len(q) /\ i <= Len(r) - t + h
        BY <1>1, <3>1
      <3>3. t - h + i \in 1 .. Len(r)
        <4>1. t - h + i >= 1 /\ t - h + i <= Len(r) /\ t - h + i \in Int
          BY <1>1, <3>2
        <4> QED BY <1>1, <4>1
      <3>4. q[i] = [id |-> t - h + i, len |-> r[t - h + i].len]
        BY <1>1, <3>2 DEF Reads
      <3> QED BY <1>2, <2>1, <3>2, <3>3, <3>4
    <2> QED BY <2>2, <2>3
  <1> QED BY <1>1, <1>2, <1>3, SeqEqual

LEMMA QueueTail ==
  ASSUME NEW q, NEW q1, NEW h, NEW h1, NEW t, NEW t1, NEW r,
         Reads(q, h, t, r), Reads(q1, h1, t1, r), t1 - h1 = t - h + 1
  PROVE  /\ q # <<>> /\ q1 = Tail(q)
         /\ Head(q) = [id |-> t - h + 1, len |-> r[t - h + 1].len]
  <1>1. /\ q \in Seq(Item) /\ q1 \in Seq(Item) /\ Len(q1) \in Nat
        /\ t \in Nat /\ t1 \in Nat /\ h \in {0, 1} /\ h1 \in {0, 1} /\ Len(r) \in Nat
        /\ Len(q1) = Len(r) - t1 + h1 /\ Len(q) = Len(r) - t + h
        /\ Len(q) = Len(q1) + 1 /\ q # <<>>
    BY DEF Reads
  <1>2. /\ Tail(q) \in Seq(Item) /\ Len(Tail(q)) = Len(q) - 1
        /\ \A i \in 1 .. Len(Tail(q)) : Tail(q)[i] = q[i + 1]
    BY <1>1, HeadTailProperties
  <1> DEFINE tl == Tail(q)
  <1> HIDE DEF tl
  <1>6. /\ tl = Tail(q) /\ tl \in Seq(Item) /\ Len(tl) = Len(q1)
        /\ \A i \in 1 .. Len(q1) : tl[i] = q[i + 1]
    <2>1. Len(Tail(q)) = Len(q1)
      BY <1>1, <1>2
    <2> QED BY <1>2, <2>1 DEF tl
  <1>3. ASSUME NEW i \in 1 .. Len(q1)
        PROVE  q1[i] = tl[i]
    <2>1. i + 1 \in 1 .. Len(r) - t + h /\ t1 - h1 + i = t - h + (i + 1)
      BY <1>1
    <2>2. /\ q1[i] = [id |-> t1 - h1 + i, len |-> r[t1 - h1 + i].len]
          /\ q[i + 1] = [id |-> t - h + (i + 1), len |-> r[t - h + (i + 1)].len]
      BY <1>1, <2>1 DEF Reads
    <2> QED BY <1>6, <2>1, <2>2
  <1>4. q1 = Tail(q)
    BY <1>1, <1>3, <1>6, SeqEqual
  <1>5. Head(q) = q[1] /\ 1 \in 1 .. Len(r) - t + h
    BY <1>1
  <1> QED BY <1>1, <1>4, <1>5 DEF Reads

(* The chip receives a frame: it joins the queue. *)
LEMMA FifoAccept ==
  ASSUME IInv, IInv', NEW n \in FrameLens, NEW field \in {n} \cup BadLens,
         ChipReceive(n, field)
  PROVE  Fifo!Accept
  <1> DEFINE new == [id |-> Len(rx) + 1, len |-> field]
  <1>1. /\ UNCHANGED <<taken, delivered, pc, buf>> /\ field \in FrameLens \cup BadLens
        /\ Len(rx') = Len(rx) + 1 /\ rx'[Len(rx) + 1].len = field
        /\ \A f \in 1 .. Len(rx) : rx'[f] = rx[f]
    <2>1. rx \in Seq(Frame) /\ Len(rx) \in Nat
      BY DEF IInv, TypeOK
    <2>2. PICK r : rx' = Append(rx, r) /\ r.len = field
      BY DEF ChipReceive
    <2>3. UNCHANGED <<taken, delivered, pc, buf>>
      BY DEF ChipReceive
    <2> QED BY <2>1, <2>2, <2>3
  <1>2. Held' = Held
    BY <1>1 DEF Held
  <1>3. Reads(Queue, Held, taken, rx) /\ Reads(Queue', Held, taken, rx')
    BY <1>1, <1>2, QueueFacts, QueueFactsPrime DEF QueueReads
  <1>4. new \in Item
    BY <1>1, <1>3 DEF Item, Reads
  <1>5. Queue' = Append(Queue, new)
    BY <1>1, <1>3, <1>4, QueueAppend
  <1> QED BY <1>1, <1>5 DEF Fifo!Accept

(* The driver is done with the oldest frame without keeping it in a pbuf, or *)
(* hands the pbuf over: the head leaves the queue.                           *)
LEMMA FifoTail ==
  ASSUME IInv, IInv', rx' = rx, NEW t1, NEW h1, t1 = taken', h1 = Held',
         t1 - h1 = taken - Held + 1
  PROVE  /\ Queue # <<>> /\ Queue' = Tail(Queue)
         /\ Head(Queue) = [id |-> taken - Held + 1, len |-> rx[taken - Held + 1].len]
  <1>1. Reads(Queue, Held, taken, rx) /\ Reads(Queue', h1, t1, rx)
    BY QueueFacts, QueueFactsPrime DEF QueueReads
  <1> QED BY <1>1, QueueTail

LEMMA FifoStep ==
  ASSUME IInv, IInv', [Next]_vars
  PROVE  [Fifo!Next]_(Fifo!fifoVars)
  <1>1. CASE Chip
    <2>1. Fifo!Accept
      BY <1>1, FifoAccept DEF Chip
    <2> QED BY <2>1 DEF Fifo!Next
  <1>2. CASE PollEmpty \/ PollFrame \/ ReceiveStart \/ RefuseLength \/ AllocFails \/ Allocate
             \/ ReadData \/ ReceiveEndHigh \/ PacketDecrement \/ UNCHANGED vars
    <2>1. /\ UNCHANGED <<rx, taken, delivered>>
          /\ \/ UNCHANGED buf /\ pc \in {"high", "dec", "input"} /\ pc' \in {"high", "dec", "input"}
             \/ pc \notin {"high", "dec", "input"} /\ pc' \notin {"high", "dec", "input"}
             \/ UNCHANGED buf /\ UNCHANGED pc
             \/ UNCHANGED buf /\ ~buf.alloc
      BY <1>2 DEF PollEmpty, PollFrame, ReceiveStart, RefuseLength, AllocFails, Allocate,
         ReadData, ReceiveEndHigh, PacketDecrement, AfterReceive, vars, chipVars
    <2>2. Held' = Held
      BY <2>1 DEF Held
    <2> QED BY <2>1, <2>2, FifoStutter
  <1>3. CASE ReceiveEnd
    <2>1. /\ UNCHANGED <<rx, delivered, buf>> /\ taken' = taken + 1
          /\ pc = "end" /\ pc' = "high"
      BY <1>3 DEF ReceiveEnd
    <2>2. Held = 0 /\ Held' = IF buf.alloc THEN 1 ELSE 0
      BY <2>1 DEF Held
    <2>3. CASE buf.alloc
      <3>1. Held' = 1
        BY <2>2, <2>3
      <3>2. taken' - 1 = taken - 0 /\ taken \in Nat /\ Len(rx) \in Nat
        BY <2>1 DEF IInv, TypeOK
      <3>3. Queue' = Queue
        <4>1. Queue = [i \in 1 .. Len(rx) - taken |->
                         [id |-> taken + i, len |-> rx[taken + i].len]]
          BY <2>2, <3>2 DEF Queue
        <4>2. Queue' = [i \in 1 .. Len(rx) - taken |->
                         [id |-> taken + i, len |-> rx[taken + i].len]]
          BY <2>1, <3>1, <3>2 DEF Queue
        <4> QED BY <4>1, <4>2
      <3> QED BY <2>1, <3>3 DEF Fifo!fifoVars
    <2>4. CASE ~buf.alloc
      <3>1. Held' = 0 /\ taken' - 0 = taken - 0 + 1
        BY <2>1, <2>2, <2>4 DEF IInv, TypeOK
      <3>2. Queue # <<>> /\ Queue' = Tail(Queue)
        BY <2>1, <2>2, <3>1, FifoTail
      <3>3. Fifo!Drop
        BY <2>1, <3>2 DEF Fifo!Drop
      <3> QED BY <3>3 DEF Fifo!Next
    <2> QED BY <2>3, <2>4
  <1>4. CASE Input
    <2>1. /\ UNCHANGED <<rx, taken>> /\ pc = "input" /\ pc' = "idle"
          /\ delivered' = Append(delivered, buf.data)
      BY <1>4 DEF Input
    <2>2. /\ buf.alloc /\ ~Unusable(rx[taken].len) /\ buf.data = Payload(taken)
          /\ taken \in 1 .. Len(rx) /\ TypeOK
      BY <2>1 DEF IInv, Locals, PbufHoldsFrame, TypeOK
    <2>3. Held = 1 /\ Held' = 0 /\ taken' - 0 = taken - 1 + 1
      BY <2>1, <2>2 DEF Held
    <2>4. /\ Queue # <<>> /\ Queue' = Tail(Queue)
          /\ Head(Queue) = [id |-> taken, len |-> rx[taken].len]
      <3>1. Head(Queue) = [id |-> taken - 1 + 1, len |-> rx[taken - 1 + 1].len]
            /\ Queue # <<>> /\ Queue' = Tail(Queue)
        BY <2>1, <2>3, FifoTail
      <3>2. taken - 1 + 1 = taken
        BY <2>2
      <3> QED BY <3>1, <3>2
    <2>5. Head(Queue).len \in FrameLens
      <3>1. rx[taken].len \in FrameLens \cup BadLens
        BY <2>2, FrameFields DEF Frame
      <3>2. rx[taken].len \in FrameLens
        BY <2>2, <3>1, ReceiveAssumption
      <3>3. Head(Queue).len = rx[taken].len
        BY <2>4
      <3> QED BY <3>2, <3>3
    <2>6. Fifo!FifoPayload(Head(Queue)) = buf.data
      BY <2>2, <2>4 DEF Fifo!FifoPayload, Payload
    <2>7. Fifo!Deliver
      BY <2>1, <2>4, <2>5, <2>6 DEF Fifo!Deliver
    <2> QED BY <2>7 DEF Fifo!Next
  <1> QED BY <1>1, <1>2, <1>3, <1>4 DEF Next, Driver

(* What the stack gets from the polling loop are the payloads of the frames *)
(* the controller accepted, in order, some of them dropped, none of them    *)
(* made up: the safety part of ImplementsFifo, for every ring and every     *)
(* number of frames.                                                        *)
THEOREM RefinesFifo == Spec => Fifo!SafeSpec
  <1>1. Init => Fifo!Init
    BY FifoInit
  <1>2. IInv /\ IInv' /\ [Next]_vars => [Fifo!Next]_(Fifo!fifoVars)
    BY FifoStep
  <1> QED BY <1>1, <1>2, Invariance, PTL DEF Spec, Fifo!SafeSpec

-----------------------------------------------------------------------------
(* What mchdrv_poll has passed on, read as the frames it came from. *)
InOrder(f) ==
  /\ f \in [1 .. Len(delivered) -> 1 .. taken - Held]
  /\ \A i, j \in 1 .. Len(delivered) : i < j => f[i] < f[j]
  /\ \A i \in 1 .. Len(delivered) :
       /\ delivered[i] = Payload(f[i])
       /\ rx[f[i]].len = rx[f[i]].bytes

Payloads == {[k \in 0 .. n - 1 |-> <<f, k>>] : f \in Nat, n \in Int}

DeliveredInOrder == delivered \in Seq(Payloads) /\ \E f : InOrder(f)

LEMMA OrderInit == Init => DeliveredInOrder
  <1> SUFFICES ASSUME Init PROVE DeliveredInOrder
    OBVIOUS
  <1>1. delivered = <<>> /\ Len(delivered) = 0 /\ taken = 0 /\ Held = 0
    BY DEF Init, Held
  <1>2. delivered \in Seq(Payloads)
    BY <1>1
  <1>3. InOrder([i \in {} |-> 0])
    <2>1. 1 .. Len(delivered) = {}
      BY <1>1
    <2> QED BY <2>1 DEF InOrder
  <1> QED BY <1>2, <1>3 DEF DeliveredInOrder

(* A step without Input keeps the frames that have been passed on. *)
LEMMA OrderKept ==
  ASSUME IInv, DeliveredInOrder, UNCHANGED delivered,
         taken - Held \in Int, taken' - Held' \in Int, taken - Held <= taken' - Held',
         \A f \in 1 .. Len(rx) : rx'[f] = rx[f]
  PROVE  DeliveredInOrder'
  <1>1. PICK f : InOrder(f)
    BY DEF DeliveredInOrder
  <1> DEFINE n == Len(delivered)
  <1>2. taken - Held <= Len(rx) /\ Len(rx) \in Nat
    BY DEF IInv, TypeOK, Held
  <1>3. ASSUME NEW i \in 1 .. n
        PROVE  /\ f[i] \in 1 .. taken' - Held' /\ f[i] \in 1 .. Len(rx)
    <2>1. f[i] \in 1 .. taken - Held
      BY <1>1, <1>3 DEF InOrder
    <2> QED BY <1>2, <2>1
  <1>4. f \in [1 .. n -> 1 .. taken' - Held']
    <2>1. f \in [1 .. n -> 1 .. taken - Held]
      BY <1>1 DEF InOrder
    <2> QED BY <1>3, <2>1
  <1>5. ASSUME NEW i \in 1 .. n
        PROVE  /\ delivered'[i] = Payload(f[i])'
               /\ rx'[f[i]].len = rx'[f[i]].bytes
    <2>1. rx'[f[i]] = rx[f[i]]
      BY <1>3, <1>5
    <2> QED BY <1>1, <1>5, <2>1 DEF InOrder, Payload
  <1>6. \A i, j \in 1 .. n : i < j => f[i] < f[j]
    BY <1>1 DEF InOrder
  <1> HIDE DEF n
  <1>7. InOrder(f)'
    BY <1>4, <1>5, <1>6 DEF InOrder, n
  <1> QED BY <1>7 DEF DeliveredInOrder

(* Input passes on the frame that was taken last. *)
LEMMA OrderInput ==
  ASSUME IInv, DeliveredInOrder, Input
  PROVE  DeliveredInOrder'
  <1>1. PICK f : InOrder(f)
    BY DEF DeliveredInOrder
  <1> DEFINE n == Len(delivered)
             g == [i \in 1 .. n + 1 |-> IF i = n + 1 THEN taken ELSE f[i]]
  <1>2. /\ UNCHANGED <<rx, taken>> /\ pc = "input" /\ pc' = "idle"
        /\ delivered' = Append(delivered, buf.data)
    BY DEF Input
  <1>3. /\ buf.alloc /\ ~Unusable(rx[taken].len) /\ buf.data = Payload(taken)
        /\ taken \in 1 .. Len(rx) /\ TypeOK /\ Len(rx) \in Nat /\ taken \in Nat
    BY <1>2 DEF IInv, Locals, PbufHoldsFrame, TypeOK
  <1>4. rx[taken].len = rx[taken].bytes /\ rx[taken].len \in Nat
    BY <1>3, FrameFields DEF IInv, Chain
  <1>5. Held = 1 /\ Held' = 0
    BY <1>2, <1>3 DEF Held
  <1>6. buf.data \in Payloads
    <2>1. \A m \in Int : [k \in 0 .. m - 1 |-> <<taken, k>>] \in Payloads
      BY <1>3 DEF Payloads
    <2>2. rx[taken].len - CrcLen \in Int
      BY <1>4 DEF CrcLen
    <2> QED BY <1>3, <2>1, <2>2 DEF Payload
  <1>7. /\ delivered' \in Seq(Payloads) /\ n \in Nat /\ Len(delivered') = n + 1
        /\ \A i \in 1 .. n : delivered'[i] = delivered[i]
        /\ delivered'[n + 1] = buf.data
    <2>1. delivered \in Seq(Payloads)
      BY DEF DeliveredInOrder
    <2> QED BY <1>2, <1>6, <2>1
  <1>8. /\ f \in [1 .. n -> 1 .. taken - 1]
        /\ \A i, j \in 1 .. n : i < j => f[i] < f[j]
        /\ \A i \in 1 .. n : delivered[i] = Payload(f[i]) /\ rx[f[i]].len = rx[f[i]].bytes
    BY <1>1, <1>5 DEF InOrder
  <1> HIDE DEF n
  <1>9. ASSUME NEW i \in 1 .. n + 1
        PROVE  /\ g[i] \in 1 .. taken
               /\ \A j \in 1 .. n + 1 : i < j => g[i] < g[j]
               /\ delivered'[i] = Payload(g[i])
               /\ rx[g[i]].len = rx[g[i]].bytes
    <2>1. CASE i = n + 1
      BY <1>3, <1>4, <1>7, <2>1
    <2>2. CASE i # n + 1
      <3>1. i \in 1 .. n /\ g[i] = f[i]
        BY <1>7, <2>2
      <3>2. f[i] \in 1 .. taken - 1
        BY <1>8, <3>1
      <3>3. ASSUME NEW j \in 1 .. n + 1, i < j
            PROVE  g[i] < g[j]
        <4>1. CASE j = n + 1
          BY <1>3, <3>1, <3>2, <4>1
        <4>2. CASE j # n + 1
          <5>1. j \in 1 .. n /\ g[j] = f[j]
            BY <1>7, <4>2
          <5> QED BY <1>8, <3>1, <3>3, <5>1
        <4> QED BY <4>1, <4>2
      <3>4. g[i] \in 1 .. taken
        BY <1>3, <3>1, <3>2
      <3> QED BY <1>7, <1>8, <3>1, <3>3, <3>4
    <2> QED BY <2>1, <2>2
  <1> HIDE DEF g
  <1>10. PICK h : h = g
    OBVIOUS
  <1>11. InOrder(h)'
    <2>1. h \in [1 .. n + 1 -> 1 .. taken - 0]
      <3>1. g \in [1 .. n + 1 -> 1 .. taken]
        BY <1>9 DEF g
      <3> QED BY <1>3, <1>10, <3>1
    <2>2. \A i : Payload(i)' = Payload(i)
      BY <1>2 DEF Payload
    <2>3. taken' - Held' = taken - 0 /\ Len(delivered') = n + 1
      BY <1>2, <1>5, <1>7
    <2>4. \A i \in 1 .. n + 1 :
            delivered'[i] = Payload(h[i])' /\ rx'[h[i]].len = rx'[h[i]].bytes
      BY <1>2, <1>9, <1>10, <2>2
    <2>5. \A i, j \in 1 .. n + 1 : i < j => h[i] < h[j]
      BY <1>9, <1>10
    <2> QED BY <2>1, <2>3, <2>4, <2>5 DEF InOrder
  <1> QED BY <1>7, <1>11 DEF DeliveredInOrder

LEMMA OrderStep ==
  ASSUME IInv, IInv', DeliveredInOrder, [Next]_vars
  PROVE  DeliveredInOrder'
  <1>1. /\ taken \in Nat /\ taken' \in Nat /\ Held \in {0, 1} /\ Held' \in {0, 1}
        /\ rx \in Seq(Frame) /\ Len(rx) \in Nat
    BY DEF IInv, TypeOK, Held
  <1>2. CASE Chip
    <2>1. PICK e : rx' = Append(rx, e) /\ UNCHANGED <<taken, delivered, pc, buf>>
      BY <1>2 DEF Chip, ChipReceive
    <2>2. \A f \in 1 .. Len(rx) : rx'[f] = rx[f]
      BY <1>1, <2>1
    <2>3. Held' = Held /\ taken' = taken /\ delivered' = delivered
      BY <2>1 DEF Held
    <2>4. taken - Held \in Int /\ taken' - Held' \in Int /\ taken - Held <= taken' - Held'
      BY <1>1, <2>3
    <2> QED BY <2>2, <2>3, <2>4, OrderKept
  <1>3. CASE Input
    BY <1>3, OrderInput
  <1>4. CASE ReceiveEnd
    <2>1. UNCHANGED <<rx, delivered>> /\ taken' = taken + 1 /\ pc = "end"
      BY <1>4 DEF ReceiveEnd
    <2>2. Held = 0
      BY <2>1 DEF Held
    <2>3. taken - Held \in Int /\ taken' - Held' \in Int /\ taken - Held <= taken' - Held'
      <3>1. taken' = taken + 1 /\ taken \in Nat
        BY <1>1, <2>1
      <3>2. Held' \in {0, 1}
        BY <1>1
      <3>3. CASE Held' = 0
        BY <2>2, <3>1, <3>3
      <3>4. CASE Held' = 1
        BY <2>2, <3>1, <3>4
      <3> QED BY <3>2, <3>3, <3>4
    <2> QED BY <2>1, <2>3, OrderKept
  <1>5. CASE PollEmpty \/ PollFrame \/ ReceiveStart \/ RefuseLength \/ AllocFails \/ Allocate
             \/ ReadData \/ ReceiveEndHigh \/ PacketDecrement \/ UNCHANGED vars
    <2>1. /\ UNCHANGED <<rx, taken, delivered>>
          /\ \/ UNCHANGED buf /\ pc \in {"high", "dec", "input"} /\ pc' \in {"high", "dec", "input"}
             \/ pc \notin {"high", "dec", "input"} /\ pc' \notin {"high", "dec", "input"}
             \/ UNCHANGED buf /\ UNCHANGED pc
             \/ UNCHANGED buf /\ ~buf.alloc
      BY <1>5 DEF PollEmpty, PollFrame, ReceiveStart, RefuseLength, AllocFails, Allocate,
         ReadData, ReceiveEndHigh, PacketDecrement, AfterReceive, vars, chipVars
    <2>2. Held' = Held
      BY <2>1 DEF Held
    <2> QED BY <1>1, <2>1, <2>2, OrderKept
  <1> QED BY <1>2, <1>3, <1>4, <1>5 DEF Next, Driver

(* netif->input gets the payloads of frames that the controller accepted     *)
(* whole, in the order in which they arrived and each at most once: some may *)
(* be missing, none is repeated, cut or mixed with another.                  *)
THEOREM InOrderAtMostOnce == Spec => []DeliveredInOrder
  <1>1. IInv /\ IInv' /\ DeliveredInOrder /\ [Next]_vars => DeliveredInOrder'
    BY OrderStep
  <1> QED BY <1>1, OrderInit, Invariance, PTL DEF Spec

-----------------------------------------------------------------------------
(* Steps the driver takes before receive_end steps over frame f: at most     *)
(* eight for each frame before it, and those left of the present call.       *)
StepsLeft ==
  CASE pc = "high"  -> 8
    [] pc = "dec"   -> 7
    [] pc = "input" -> 6
    [] pc = "idle"  -> 5
    [] pc = "start" -> 4
    [] pc = "alloc" -> 3
    [] pc = "data"  -> 2
    [] pc = "end"   -> 1

StepsTo(f) == (8 * (f - taken - 1)) + StepsLeft

(* No frame in the ring is further away than the chip's counter allows ...   *)
SoonReached == \A f \in Unread : StepsTo(f) \in 1 .. (8 * MaxPackets) - 2

(* ... every step of the driver brings it nearer, and no step of the chip    *)
(* takes it away: in particular no poll finds EPKTCNT zero.                  *)
ComesNearer ==
  \A f \in Unread :
    IF Driver THEN f = taken' \/ (f \in Unread' /\ StepsTo(f)' < StepsTo(f))
              ELSE f \in Unread' /\ StepsTo(f)' = StepsTo(f)

LEMMA StepNumbers ==
  ASSUME IInv
  PROVE  /\ taken \in Nat /\ Len(rx) \in Nat /\ StepsLeft \in 1 .. 8
         /\ Len(rx) - taken + (IF pc \in {"high", "dec"} THEN 1 ELSE 0) \in 0 .. MaxPackets
         /\ pc \notin {"high", "dec"} => StepsLeft <= 6
  <1>1. /\ taken \in Nat /\ Len(rx) \in Nat
        /\ pc \in {"idle", "start", "alloc", "data", "end", "high", "dec", "input"}
        /\ pktcnt \in 0 .. MaxPackets
    BY DEF IInv, TypeOK
  <1>2. StepsLeft \in 1 .. 8
    BY <1>1 DEF StepsLeft
  <1>3. pc \notin {"high", "dec"} => StepsLeft <= 6
    BY <1>1 DEF StepsLeft
  <1> QED BY <1>1, <1>2, <1>3 DEF IInv, InSync

LEMMA ReachedSoon == IInv => SoonReached
  <1> SUFFICES ASSUME IInv, NEW f \in Unread
      PROVE  StepsTo(f) \in 1 .. (8 * MaxPackets) - 2
    BY DEF SoonReached
  <1>1. /\ taken \in Nat /\ Len(rx) \in Nat /\ StepsLeft \in 1 .. 8
        /\ MaxPackets \in Nat /\ f \in taken + 1 .. Len(rx)
    BY StepNumbers, ReceiveAssumption DEF Unread
  <1>2. CASE pc \in {"high", "dec"}
    <2>1. Len(rx) - taken + 1 <= MaxPackets
      BY <1>2, StepNumbers
    <2> QED BY <1>1, <2>1 DEF StepsTo
  <1>3. CASE pc \notin {"high", "dec"}
    <2>1. Len(rx) - taken <= MaxPackets /\ StepsLeft <= 6
      BY <1>1, <1>3, StepNumbers
    <2> QED BY <1>1, <2>1 DEF StepsTo
  <1> QED BY <1>2, <1>3

LEMMA DriverComesNearer ==
  ASSUME IInv, Driver, NEW f \in Unread
  PROVE  f = taken' \/ (f \in Unread' /\ StepsTo(f)' < StepsTo(f))
  <1>1. taken \in Nat /\ Len(rx) \in Nat /\ f \in taken + 1 .. Len(rx)
    BY StepNumbers DEF Unread
  <1>2. ~PollEmpty
    <2>1. Len(rx) - taken > 0
      BY <1>1
    <2>2. pc = "idle" => pktcnt > 0
      BY <1>1, <2>1 DEF IInv, InSync
    <2> QED BY <2>2 DEF PollEmpty
  <1>3. CASE ReceiveEnd
    <2>1. /\ taken' = taken + 1 /\ rx' = rx
          /\ StepsLeft = 1 /\ StepsLeft' = 8
      BY <1>3 DEF ReceiveEnd, StepsLeft
    <2>2. CASE f = taken + 1
      BY <2>1, <2>2
    <2>3. CASE f # taken + 1
      <3>1. f \in Unread'
        BY <1>1, <2>1, <2>3 DEF Unread
      <3>2. 8 * (f - (taken + 1) - 1) + 8 < 8 * (f - taken - 1) + 1
        BY <1>1
      <3> QED BY <2>1, <3>1, <3>2 DEF StepsTo
    <2> QED BY <2>2, <2>3
  <1>4. CASE ~ReceiveEnd
    <2>1. rx' = rx /\ taken' = taken
      BY <1>2, <1>4 DEF Driver, PollFrame, ReceiveStart, RefuseLength, AllocFails, Allocate,
         ReadData, ReceiveEndHigh, PacketDecrement, Input, chipVars
    <2>2. \/ pc = "idle" /\ pc' = "start"
          \/ pc = "start" /\ pc' = "alloc"
          \/ pc = "alloc" /\ pc' = "data"
          \/ pc = "alloc" /\ pc' = "end"
          \/ pc = "data" /\ pc' = "end"
          \/ pc = "high" /\ pc' = "dec"
          \/ pc = "dec" /\ pc' = "input"
          \/ pc = "dec" /\ pc' = "idle"
          \/ pc = "input" /\ pc' = "idle"
      BY <1>2, <1>4 DEF Driver, PollFrame, ReceiveStart, RefuseLength, AllocFails, Allocate,
         ReadData, ReceiveEndHigh, PacketDecrement, AfterReceive, Input
    <2>3. StepsLeft \in Int /\ StepsLeft' \in Int /\ StepsLeft' < StepsLeft
      BY <2>2 DEF StepsLeft
    <2>4. Unread' = Unread
      BY <2>1 DEF Unread
    <2>5. (8 * (f - taken - 1)) \in Int
      BY <1>1
    <2>6. StepsTo(f)' < StepsTo(f)
      BY <2>1, <2>3, <2>5 DEF StepsTo
    <2> QED BY <2>4, <2>6
  <1> QED BY <1>3, <1>4

LEMMA StepComesNearer == IInv /\ [Next]_vars => ComesNearer
  <1> SUFFICES ASSUME IInv, [Next]_vars, NEW f \in Unread, ~Driver
      PROVE  f \in Unread' /\ StepsTo(f)' = StepsTo(f)
    BY DriverComesNearer DEF ComesNearer
  <1>1. taken' = taken /\ pc' = pc /\ (rx' = rx \/ \E e : rx' = Append(rx, e))
    BY Zenon DEF Next, Chip, ChipReceive, vars
  <1>2. rx \in Seq(Frame) /\ Len(rx) \in Nat /\ taken \in Nat
    BY DEF IInv, TypeOK
  <1>3. Len(rx') = Len(rx) \/ Len(rx') = Len(rx) + 1
    BY <1>1, <1>2
  <1>4. f \in Unread'
    BY <1>1, <1>2, <1>3 DEF Unread
  <1>5. StepsLeft' = StepsLeft
    BY <1>1 DEF StepsLeft
  <1> QED BY <1>1, <1>4, <1>5 DEF StepsTo

(* A frame that the chip has accepted is dealt with after a bounded number   *)
(* of steps of the driver, however many arrive meanwhile: what               *)
(* EveryFrameTaken needs in addition is only that the main loop goes on.     *)
THEOREM FrameIsReached == Spec => []SoonReached /\ [][ComesNearer]_vars
  <1>1. IInv => SoonReached
    BY ReachedSoon
  <1>2. IInv /\ [Next]_vars => [ComesNearer]_vars
    BY StepComesNearer
  <1> QED BY <1>1, <1>2, Invariance, PTL DEF Spec
=============================================================================
