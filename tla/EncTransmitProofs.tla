-------------------------- MODULE EncTransmitProofs --------------------------
(***************************************************************************)
(* Proofs about EncTransmit, for every size of memory and ring, every set  *)
(* of pbuf chains that fit, and every number of polls.                     *)
(***************************************************************************)
EXTENDS EncTransmit, TLAPS

(* Address arithmetic: nothing wraps as long as it fits. *)
LEMMA StartIsBehindRing ==
  StartAddress \in Nat /\ StartAddress > rxbufsize
<1>1. rxbufsize \in Nat  BY TransmitAssumption
<1>2. ((rxbufsize + 1) + 1) % 2 \in {0, 1}  BY <1>1, SMT
<1> QED  BY <1>1, <1>2, SMT DEF StartAddress, EvenFrom

LEMMA WrapInside ==
  ASSUME NEW p \in Nat, p < RamSize
  PROVE  Wrap(p) = p
BY TransmitAssumption, SMT DEF Wrap

LEMMA AheadInside ==
  ASSUME NEW p \in Ram, NEW a \in Ram
  PROVE  Ahead(p, a) = IF a >= p THEN a - p ELSE a - p + RamSize
<1>1. RamSize \in Nat /\ RamSize > 0  BY TransmitAssumption, SMT
<1>2. CASE a >= p
  <2>1. a - p \in 0 .. RamSize - 1  BY <1>1, <1>2, SMT DEF Ram
  <2>2. (a - p) % RamSize = a - p  BY <1>1, <2>1, SMT
  <2> QED  BY <1>2, <2>2 DEF Ahead
<1>3. CASE ~(a >= p)
  <2> DEFINE s == a - p + RamSize
  <2>1. s \in 0 .. RamSize - 1  BY <1>1, <1>3, SMT DEF Ram
  <2>2. a - p = ((-1) * RamSize) + s  BY <1>1, <1>3, SMT DEF Ram
  <2> HIDE DEF s
  <2>3. (((-1) * RamSize) + s) % RamSize = s  BY <1>1, <2>1, SMT
  <2>4. Ahead(p, a) = s  BY <2>2, <2>3 DEF Ahead
  <2> QED  BY <1>3, <2>4 DEF s
<1> QED  BY <1>2, <1>3

(* The d bytes that are written from p on are p .. p + d - 1. *)
LEMMA AheadRange ==
  ASSUME NEW p \in Ram, NEW d \in Nat, p + d <= RamSize, NEW a \in Ram
  PROVE  /\ Ahead(p, a) < d <=> (a >= p /\ a < p + d)
         /\ a >= p => Ahead(p, a) = a - p
<1>1. RamSize \in Nat  BY TransmitAssumption
<1> QED  BY <1>1, AheadInside, SMT DEF Ram

LEMMA ElementInSet ==
  ASSUME NEW S, NEW c \in Seq(S), NEW i \in 1 .. Len(c)
  PROVE  c[i] \in S
OBVIOUS

(* What the assumptions say of a chain that is passed. *)
LEMMA ChainFacts ==
  ASSUME NEW c \in Chains
  PROVE  /\ c \in Seq([len : Nat, tot : Nat])
         /\ 1 \in DOMAIN c
         /\ c[1].tot \in Nat
         /\ StartAddress + 1 + c[1].tot + StatusLen <= RamSize
         /\ \E e \in 1 .. Len(c) : EndsAt(c, e)
<1>1. c \in Seq([len : Nat, tot : Nat]) /\ c # <<>>  BY TransmitAssumption
<1>2. \E e \in DOMAIN c : EndsAt(c, e)  BY TransmitAssumption
<1>3. DOMAIN c = 1 .. Len(c) /\ 1 \in DOMAIN c  BY <1>1, SMT
<1>4. c[1] \in [len : Nat, tot : Nat]  BY <1>1, <1>3, ElementInSet
<1> QED  BY <1>1, <1>2, <1>3, <1>4, FramesFit

-----------------------------------------------------------------------------
(* The inductive invariant. *)

Fits(n) == StartAddress + 1 + n + StatusLen <= RamSize

(* The first n bytes of packet h, behind its control byte, are in memory m. *)
Filled(m, h, n) ==
  /\ m[StartAddress] = <<h, Control>>
  /\ \A k \in 0 .. n - 1 : m[StartAddress + 1 + k] = <<h, k>>

Copied == length - chain[seg].tot

Typed ==
  /\ mem \in [Ram -> Cell]
  /\ etxst \in Nat /\ etxnd \in Nat /\ ewrpt \in Ram
  /\ txrts \in BOOLEAN /\ txrst \in BOOLEAN
  /\ chip \in {"off", "sending", "hung"}
  /\ pc \in {"idle", "start", "partial", "end", "rts", "poll", "status", "reset", "release"}
  /\ chain \in Seq([len : Nat, tot : Nat])
  /\ seg \in 1 .. Len(chain)
  /\ polls \in 0 .. Polls - 1
  /\ handed \in 0 .. MaxFrames
  /\ wire \in Seq([id : Nat, bytes : Seq(Cell)])

(* How much of the packet is in memory, and where the chip looks for it. *)
Progress ==
  /\ pc # "idle" => Fits(length)
  /\ pc \in {"start", "partial"} => \E e \in seg .. Len(chain) : EndsAt(chain, e)
  /\ pc = "start" => seg = 1
  /\ pc = "partial" => /\ chain[seg].tot <= length
                       /\ ewrpt = StartAddress + 1 + Copied
                       /\ Filled(mem, handed, Copied)
  /\ pc \in {"partial", "end", "rts"} \/ txrts => etxst = StartAddress
  /\ pc \in {"end", "rts"} \/ txrts => Filled(mem, handed, length)
  /\ pc = "rts" \/ txrts => etxnd = StartAddress + length

(* When the transmit logic may be at work. *)
Logic ==
  /\ txrts => pc \in {"poll", "reset"}
  /\ chip # "off" => txrts
  /\ txrst => pc = "release"

(* Which packet the last frame on the wire is of. *)
OnLine ==
  /\ wire # <<>> => OnWire.id <= handed
  /\ pc \in {"start", "partial", "end", "rts"} \/ (chip = "off" /\ txrts)
       => wire = <<>> \/ OnWire.id # handed
  /\ chip = "sending" => /\ wire # <<>>
                         /\ OnWire.id = handed
                         /\ Len(OnWire.bytes) <= length

IInv == Typed /\ Progress /\ Logic /\ OnLine /\ RingUntouched

LEMMA LengthTyped ==
  ASSUME Typed
  PROVE  length \in Nat /\ chain[seg].len \in Nat /\ chain[seg].tot \in Nat
<1> USE DEF Typed
<1>1. 1 \in 1 .. Len(chain) /\ seg \in 1 .. Len(chain)
  <2>1. Len(chain) \in Nat  OBVIOUS
  <2> QED  BY <2>1
<1>2. chain[1] \in [len : Nat, tot : Nat] /\ chain[seg] \in [len : Nat, tot : Nat]
  BY <1>1, ElementInSet
<1> QED  BY <1>2 DEF length

LEMMA WireTyped ==
  ASSUME Typed, wire # <<>>
  PROVE  /\ Len(wire) \in 1 .. Len(wire)
         /\ OnWire \in [id : Nat, bytes : Seq(Cell)]
<1>1. Len(wire) \in 1 .. Len(wire)
  <2>1. wire \in Seq([id : Nat, bytes : Seq(Cell)])  BY DEF Typed
  <2> QED  BY <2>1
<1>2. wire[Len(wire)] \in [id : Nat, bytes : Seq(Cell)]
  BY <1>1, ElementInSet DEF Typed
<1> QED  BY <1>1, <1>2 DEF OnWire

LEMMA AppendedLast ==
  ASSUME NEW S, NEW s \in Seq(S), NEW e \in S
  PROVE  /\ Append(s, e) \in Seq(S)
         /\ Append(s, e) # <<>>
         /\ Append(s, e)[Len(Append(s, e))] = e
OBVIOUS

LEMMA InitHolds == Init => IInv
<1> SUFFICES ASSUME Init PROVE IInv  OBVIOUS
<1> USE DEF Init
<1>1. Typed
  <2>1. chain \in Seq([len : Nat, tot : Nat]) /\ Len(chain) = 1  BY SMT
  <2>2. Unused \in Cell  BY SMT DEF Unused, Cell
  <2>3. mem \in [Ram -> Cell]  BY <2>2
  <2>4. 0 \in Ram /\ 0 \in 0 .. Polls - 1 /\ 0 \in 0 .. MaxFrames
    BY TransmitAssumption, SMT DEF Ram
  <2>5. txrts \in BOOLEAN /\ txrst \in BOOLEAN  BY Zenon
  <2>6. wire \in Seq([id : Nat, bytes : Seq(Cell)])  BY SMT
  <2> QED  BY <2>1, <2>3, <2>4, <2>5, <2>6 DEF Typed
<1>2. Progress /\ Logic /\ OnLine  BY DEF Progress, Logic, OnLine
<1>3. RingUntouched
  <2>1. \A a \in 0 .. rxbufsize : a \in Ram  BY TransmitAssumption, SMT DEF Ram
  <2> QED  BY <2>1 DEF RingUntouched
<1> QED  BY <1>1, <1>2, <1>3 DEF IInv

-----------------------------------------------------------------------------
(* Every step preserves it. *)

LEMMA ChipStartKeeps == IInv /\ ChipStart => IInv'
<1> SUFFICES ASSUME IInv, ChipStart PROVE IInv'  OBVIOUS
<1> USE DEF IInv
<1> DEFINE f == [id |-> mem[etxst][1], bytes |-> <<>>]
<1>1. mem[etxst][1] = handed
  <2>1. mem[etxst] = <<handed, Control>>  BY DEF ChipStart, Progress, Filled
  <2> QED  BY <2>1
<1>2. handed \in Nat /\ length \in Nat  BY TransmitAssumption, LengthTyped DEF Typed
<1>3. f \in [id : Nat, bytes : Seq(Cell)] /\ f.id = handed /\ Len(f.bytes) = 0
  BY <1>1, <1>2, SMT
<1> HIDE DEF f
<1>4. wire' = Append(wire, f)  BY DEF ChipStart, f
<1>5. /\ wire' \in Seq([id : Nat, bytes : Seq(Cell)])
      /\ wire' # <<>>
      /\ OnWire' = f
  <2> DEFINE R == [id : Nat, bytes : Seq(Cell)]
  <2>1. wire \in Seq(R) /\ f \in R  BY <1>3 DEF Typed
  <2> HIDE DEF R
  <2>2. /\ Append(wire, f) \in Seq(R)
        /\ Append(wire, f) # <<>>
        /\ Append(wire, f)[Len(Append(wire, f))] = f
    BY <2>1, AppendedLast
  <2>3. OnWire' = wire'[Len(wire')]  BY DEF OnWire
  <2> QED  BY <1>4, <2>2, <2>3 DEF R
<1>6. /\ UNCHANGED <<mem, etxst, etxnd, ewrpt, txrts, txrst, pc, chain, seg, polls,
                     handed, length, Copied>>
      /\ chip' = "sending" /\ txrts
  BY DEF ChipStart, length, Copied
<1>7. Typed'  BY <1>5, <1>6 DEF Typed
<1>8. Progress' /\ Logic'  BY <1>6 DEF Progress, Logic
<1>9. OnLine'
  <2>1. pc \notin {"start", "partial", "end", "rts"}  BY <1>6 DEF Logic
  <2> QED  BY <1>2, <1>3, <1>5, <1>6, <2>1 DEF OnLine
<1>10. RingUntouched'  BY <1>6 DEF RingUntouched
<1> QED  BY <1>7, <1>8, <1>9, <1>10

LEMMA ChipSendKeeps == IInv /\ ChipSend => IInv'
<1> SUFFICES ASSUME IInv, ChipSend PROVE IInv'  OBVIOUS
<1> USE DEF IInv
<1>1. chip = "sending" /\ txrts /\ wire # <<>>  BY DEF ChipSend, Logic, OnLine
<1>2. /\ Len(wire) \in 1 .. Len(wire)
      /\ OnWire \in [id : Nat, bytes : Seq(Cell)]
      /\ wire[Len(wire)] = OnWire
  BY <1>1, WireTyped DEF OnWire
<1>3. length \in Nat  BY LengthTyped
<1> DEFINE n == Len(OnWire.bytes)
           b == mem[Wrap(etxst + 1 + n)]
           f == [OnWire EXCEPT !.bytes = Append(@, b)]
<1>4. n \in Nat /\ n < length
  <2>1. etxst = StartAddress /\ etxnd = StartAddress + length
    BY <1>1 DEF Progress
  <2>2. n \in Nat  BY <1>2
  <2>3. etxst + n < etxnd  BY DEF ChipSend
  <2> HIDE DEF n
  <2> QED  BY <1>3, <2>1, <2>2, <2>3, StartIsBehindRing, SMT
<1>5. b \in Cell
  <2>1. Wrap(etxst + 1 + n) \in Ram
    <3> HIDE DEF n
    <3>1. etxst + 1 + n \in Nat  BY <1>4, SMT DEF Typed
    <3> QED  BY <3>1, TransmitAssumption, SMT DEF Wrap, Ram
  <2> QED  BY <2>1 DEF Typed
<1>6. /\ f \in [id : Nat, bytes : Seq(Cell)]
      /\ f.id = OnWire.id
      /\ Len(f.bytes) = n + 1
  <2> HIDE DEF b
  <2>1. Append(OnWire.bytes, b) \in Seq(Cell) /\ Len(Append(OnWire.bytes, b)) = n + 1
    BY <1>2, <1>5
  <2> QED  BY <1>2, <2>1
<1>7. wire' = [wire EXCEPT ![Len(wire)] = f]
  BY <1>2 DEF ChipSend
<1> HIDE DEF n, b, f
<1>8. /\ wire' \in Seq([id : Nat, bytes : Seq(Cell)])
      /\ wire' # <<>>
      /\ OnWire' = f
  <2>1. Len(wire') = Len(wire) /\ wire' \in Seq([id : Nat, bytes : Seq(Cell)])
    BY <1>2, <1>6, <1>7 DEF Typed
  <2>2. wire'[Len(wire)] = f  BY <1>2, <1>7 DEF Typed
  <2>3. OnWire' = f  BY <2>1, <2>2 DEF OnWire
  <2>4. wire' # <<>>
    <3>1. Len(wire') # 0  BY <1>2, <2>1, SMT
    <3> QED  BY <3>1
  <2> QED  BY <2>1, <2>3, <2>4
<1>9. /\ UNCHANGED <<mem, etxst, etxnd, ewrpt, txrts, txrst, chip, pc, chain, seg,
                     polls, handed, length, Copied>>
  BY DEF ChipSend, chipVars, length, Copied
<1>10. Typed'  BY <1>8, <1>9 DEF Typed
<1>11. Progress' /\ Logic'  BY <1>9 DEF Progress, Logic
<1>12. OnLine'
  <2>1. OnWire.id = handed  BY <1>1 DEF OnLine
  <2>2. pc \notin {"start", "partial", "end", "rts"}  BY <1>1 DEF Logic
  <2>3. n + 1 <= length  BY <1>3, <1>4, SMT
  <2>4. handed \in Nat  BY TransmitAssumption DEF Typed
  <2> QED  BY <1>1, <1>6, <1>8, <1>9, <2>1, <2>2, <2>3, <2>4 DEF OnLine
<1>13. RingUntouched'  BY <1>9 DEF RingUntouched
<1> QED  BY <1>10, <1>11, <1>12, <1>13

LEMMA ChipEndKeeps ==
  ASSUME NEW s \in {Sent, Aborted}
  PROVE  IInv /\ ChipEnd(s) => IInv'
<1> SUFFICES ASSUME IInv, ChipEnd(s) PROVE IInv'  OBVIOUS
<1> USE DEF IInv
<1>1. chip = "sending" /\ txrts /\ wire # <<>> /\ OnWire.id = handed
  BY DEF ChipEnd, Logic, OnLine
<1>2. etxnd = StartAddress + length /\ Fits(length) /\ length \in Nat
  BY <1>1, LengthTyped DEF Progress, Logic
<1>3. handed \in Nat  BY TransmitAssumption DEF Typed
<1>4. etxnd + 1 \in Ram /\ etxnd + 1 + StatusLen <= RamSize /\ etxnd + 1 > rxbufsize
  BY <1>2, TransmitAssumption, StartIsBehindRing, SMT DEF Fits, Ram, StatusLen
<1>5. <<OnWire.id, s>> \in Cell  BY <1>1, <1>3, SMT DEF Cell, Sent, Aborted
<1>6. mem' \in [Ram -> Cell]  BY <1>5 DEF ChipEnd, Typed
<1>7. \A a \in Ram : a <= rxbufsize => mem'[a] = mem[a]
  <2> SUFFICES ASSUME NEW a \in Ram, a <= rxbufsize PROVE mem'[a] = mem[a]  OBVIOUS
  <2>1. ~(Ahead(etxnd + 1, a) < StatusLen)
    <3>1. ~(a >= etxnd + 1)  BY <1>4, TransmitAssumption, SMT DEF Ram
    <3>2. StatusLen \in Nat  BY DEF StatusLen
    <3> QED  BY <1>4, <3>1, <3>2, AheadRange
  <2> QED  BY <2>1 DEF ChipEnd
<1>8. /\ UNCHANGED <<etxst, etxnd, ewrpt, txrst, pc, chain, seg, polls, handed, wire,
                     length, Copied, OnWire>>
      /\ chip' = "off" /\ txrts' = FALSE
  BY DEF ChipEnd, length, Copied, OnWire
<1>9. txrts' \in BOOLEAN  BY <1>8, Zenon
<1>10. pc \in {"poll", "reset"}  BY <1>1 DEF Logic
<1>11. Typed'  BY <1>6, <1>8, <1>9 DEF Typed
<1>12. Progress'  BY <1>8, <1>10 DEF Progress
<1>13. Logic' /\ OnLine'  BY <1>1, <1>8, <1>10 DEF Logic, OnLine
<1>14. RingUntouched'
  <2>1. \A a \in 0 .. rxbufsize : a \in Ram /\ a <= rxbufsize
    BY TransmitAssumption, SMT DEF Ram
  <2> QED  BY <1>7, <2>1 DEF RingUntouched
<1> QED  BY <1>11, <1>12, <1>13, <1>14

LEMMA ChipHangKeeps == IInv /\ ChipHang => IInv'
<1> SUFFICES ASSUME IInv, ChipHang PROVE IInv'  OBVIOUS
<1>1. /\ UNCHANGED <<mem, etxst, etxnd, ewrpt, txrts, txrst, pc, chain, seg, polls,
                     handed, wire, length, Copied, OnWire>>
      /\ chip' = "hung" /\ txrts
  BY DEF ChipHang, length, Copied, OnWire
<1>2. Typed'  BY <1>1 DEF IInv, Typed
<1>3. Progress' /\ Logic'  BY <1>1 DEF IInv, Progress, Logic
<1>4. OnLine'  BY <1>1 DEF IInv, OnLine, Logic
<1>5. RingUntouched'  BY <1>1 DEF IInv, RingUntouched
<1> QED  BY <1>2, <1>3, <1>4, <1>5 DEF IInv

LEMMA LinkOutputKeeps ==
  ASSUME NEW c \in Chains
  PROVE  IInv /\ LinkOutput(c) => IInv'
<1> SUFFICES ASSUME IInv, LinkOutput(c) PROVE IInv'  OBVIOUS
<1> USE DEF IInv
<1>1. /\ UNCHANGED <<mem, etxst, etxnd, ewrpt, txrts, txrst, chip, polls, wire, OnWire>>
      /\ chain' = c /\ seg' = 1 /\ pc' = "start" /\ pc = "idle"
      /\ handed' = handed + 1 /\ handed < MaxFrames
  BY DEF LinkOutput, chipVars, OnWire
<1>2. ~txrts /\ chip = "off" /\ ~txrst  BY <1>1 DEF Logic
<1>3. length' = c[1].tot  BY <1>1 DEF length
<1>4. /\ c \in Seq([len : Nat, tot : Nat]) /\ 1 \in 1 .. Len(c)
      /\ Fits(c[1].tot)
      /\ \E e \in 1 .. Len(c) : EndsAt(c, e)
  BY ChainFacts DEF Fits
<1>5. Typed'
  <2>1. handed' \in 0 .. MaxFrames  BY <1>1, TransmitAssumption, SMT DEF Typed
  <2> QED  BY <1>1, <1>4, <2>1 DEF Typed
<1>6. Progress'  BY <1>1, <1>2, <1>3, <1>4 DEF Progress
<1>7. Logic'  BY <1>1, <1>2 DEF Logic
<1>8. OnLine'
  <2>1. ASSUME wire # <<>> PROVE OnWire.id <= handed' /\ OnWire.id # handed'
    <3>1. OnWire.id \in Nat /\ OnWire.id <= handed  BY <2>1, WireTyped DEF OnLine
    <3>2. handed \in Nat  BY TransmitAssumption DEF Typed
    <3> QED  BY <1>1, <3>1, <3>2, SMT
  <2> QED  BY <1>1, <1>2, <2>1 DEF OnLine
<1>9. RingUntouched'  BY <1>1 DEF RingUntouched
<1> QED  BY <1>5, <1>6, <1>7, <1>8, <1>9

LEMMA TransmitStartKeeps == IInv /\ TransmitStart => IInv'
<1> SUFFICES ASSUME IInv, TransmitStart PROVE IInv'  OBVIOUS
<1> USE DEF IInv
<1>1. /\ UNCHANGED <<etxnd, txrts, txrst, chip, chain, seg, polls, handed, wire,
                     OnWire, length, Copied>>
      /\ pc = "start" /\ pc' = "partial"
      /\ etxst' = StartAddress
      /\ mem' = [mem EXCEPT ![Wrap(StartAddress)] = <<handed, Control>>]
      /\ ewrpt' = Wrap(StartAddress + 1)
  BY DEF TransmitStart, OnWire, length, Copied
<1>2. ~txrts /\ chip = "off" /\ ~txrst  BY <1>1 DEF Logic
<1>3. Fits(length) /\ length \in Nat /\ seg = 1
  BY <1>1, LengthTyped DEF Progress
<1>4. /\ StartAddress \in Ram /\ StartAddress + 1 \in Ram
      /\ StartAddress < RamSize /\ StartAddress + 1 < RamSize
      /\ StartAddress + 1 \in Nat
  <2>1. RamSize \in Nat  BY TransmitAssumption
  <2>2. StartAddress + 1 + length + 7 <= RamSize  BY <1>3 DEF Fits, StatusLen
  <2> HIDE DEF IInv
  <2> QED  BY <1>3, <2>1, <2>2, StartIsBehindRing, SMT DEF Ram
<1>5. Wrap(StartAddress) = StartAddress /\ Wrap(StartAddress + 1) = StartAddress + 1
  BY <1>4, StartIsBehindRing, WrapInside
<1>6. handed \in Nat  BY TransmitAssumption DEF Typed
<1>7. <<handed, Control>> \in Cell  BY <1>6, SMT DEF Cell, Control
<1>8. /\ mem' \in [Ram -> Cell]
      /\ mem'[StartAddress] = <<handed, Control>>
      /\ \A a \in Ram : a # StartAddress => mem'[a] = mem[a]
  BY <1>1, <1>4, <1>5, <1>7 DEF Typed
<1>9. Typed'  BY <1>1, <1>4, <1>5, <1>8, StartIsBehindRing DEF Typed
<1>10. Copied = 0 /\ chain[seg].tot <= length
  BY <1>3, SMT DEF Copied, length
<1>11. Filled(mem', handed, 0)
  BY <1>8, SMT DEF Filled
<1>12. Progress'
  <2>1. ewrpt' = StartAddress + 1 + Copied  BY <1>1, <1>5, <1>10, StartIsBehindRing, SMT
  <2>2. \E e \in seg .. Len(chain) : EndsAt(chain, e)  BY <1>1 DEF Progress
  <2>3. (Copied)' = 0 /\ (chain[seg].tot <= length)'  BY <1>1, <1>10
  <2>4. Filled(mem, handed, Copied)'  BY <1>1, <1>11, <2>3
  <2>5. (ewrpt = StartAddress + 1 + Copied)'  BY <1>1, <2>1
  <2> QED  BY <1>1, <1>2, <1>3, <2>2, <2>3, <2>4, <2>5 DEF Progress
<1>13. Logic' /\ OnLine'  BY <1>1, <1>2 DEF Logic, OnLine
<1>14. RingUntouched'
  <2>1. \A a \in 0 .. rxbufsize : a \in Ram /\ a # StartAddress
    BY TransmitAssumption, StartIsBehindRing, SMT DEF Ram
  <2> QED  BY <1>8, <2>1 DEF RingUntouched
<1> QED  BY <1>9, <1>12, <1>13, <1>14

(* Adding the bytes n .. n + d - 1 of packet h, in place. *)
LEMMA Extending ==
  ASSUME NEW m \in [Ram -> Cell], NEW m2 \in [Ram -> Cell],
         NEW h, NEW n \in Nat, NEW d \in Nat, NEW p \in Ram,
         p = StartAddress + 1 + n,
         Fits(n + d),
         Filled(m, h, n),
         \A a \in Ram : m2[a] = IF Ahead(p, a) < d THEN <<h, n + Ahead(p, a)>> ELSE m[a]
  PROVE  /\ Filled(m2, h, n + d)
         /\ \A a \in Ram : a <= rxbufsize => m2[a] = m[a]
<1>1. /\ RamSize \in Nat /\ rxbufsize \in Nat
      /\ StartAddress \in Nat /\ StartAddress > rxbufsize
      /\ p + d <= RamSize
  BY TransmitAssumption, StartIsBehindRing, SMT DEF Fits, StatusLen, Ram
<1>2. \A a \in Ram : a < p => m2[a] = m[a]
  <2> SUFFICES ASSUME NEW a \in Ram, a < p PROVE m2[a] = m[a]  OBVIOUS
  <2>1. ~(a >= p)  BY SMT DEF Ram
  <2>2. ~(Ahead(p, a) < d)  BY <1>1, <2>1, AheadRange
  <2> QED  BY <2>2
<1>3. ASSUME NEW k \in 0 .. n + d - 1
      PROVE  m2[StartAddress + 1 + k] = <<h, k>>
  <2> DEFINE a == StartAddress + 1 + k
  <2>1. a \in Ram  BY <1>1, SMT DEF Fits, StatusLen, Ram
  <2>2. CASE k < n
    <3>1. a < p /\ k \in 0 .. n - 1  BY <1>1, <2>2, SMT
    <3>2. m[a] = <<h, k>>  BY <3>1 DEF Filled
    <3> QED  BY <1>2, <2>1, <3>1, <3>2
  <2>3. CASE ~(k < n)
    <3>1. a >= p /\ a < p + d /\ a - p = k - n  BY <1>1, <2>3, SMT
    <3> HIDE DEF a
    <3>2. Ahead(p, a) < d /\ Ahead(p, a) = a - p
      BY <1>1, <2>1, <3>1, AheadRange
    <3>3. m2[a] = <<h, n + Ahead(p, a)>>  BY <2>1, <3>2
    <3>4. n + Ahead(p, a) = k
      <4>1. Ahead(p, a) = k - n  BY <3>1, <3>2
      <4> QED  BY <4>1, SMT
    <3> QED  BY <3>3, <3>4 DEF a
  <2> QED  BY <2>2, <2>3
<1>4. m2[StartAddress] = <<h, Control>>
  <2>1. StartAddress \in Ram /\ StartAddress < p
    BY <1>1, SMT DEF Fits, StatusLen, Ram
  <2> QED  BY <1>2, <2>1 DEF Filled
<1>5. \A a \in Ram : a <= rxbufsize => a < p  BY <1>1, SMT DEF Ram
<1> QED  BY <1>2, <1>3, <1>4, <1>5 DEF Filled

LEMMA TransmitPartialKeeps == IInv /\ TransmitPartial => IInv'
<1> SUFFICES ASSUME IInv, TransmitPartial PROVE IInv'  OBVIOUS
<1> USE DEF IInv
<1> DEFINE d == chain[seg].len
           t == chain[seg].tot
           n == length - t
<1>1. /\ UNCHANGED <<etxst, etxnd, txrts, txrst, chip, chain, polls, handed, wire,
                     OnWire, length>>
      /\ pc = "partial"
      /\ mem' = [a \in Ram |-> IF Ahead(ewrpt, a) < d
                               THEN <<handed, n + Ahead(ewrpt, a)>> ELSE mem[a]]
      /\ ewrpt' = Wrap(ewrpt + d)
      /\ IF d = t THEN pc' = "end" /\ seg' = seg
                  ELSE pc' = "partial" /\ seg' = seg + 1
  BY DEF TransmitPartial, OnWire, length, LastPbuf
<1>2. ~txrts /\ chip = "off" /\ ~txrst  BY <1>1 DEF Logic
<1>3. d \in Nat /\ t \in Nat /\ length \in Nat  BY LengthTyped
<1>4. /\ Fits(length) /\ t <= length /\ ewrpt = StartAddress + 1 + n
      /\ Filled(mem, handed, n)
      /\ etxst = StartAddress
  BY <1>1 DEF Progress, Copied
<1>5. PICK e \in seg .. Len(chain) : EndsAt(chain, e)  BY <1>1 DEF Progress
<1>6. seg \in 1 .. Len(chain) /\ Len(chain) \in Nat  BY DEF Typed
<1>7. d # t => /\ seg < e /\ seg + 1 \in 1 .. Len(chain)
               /\ e \in seg + 1 .. Len(chain)
               /\ chain[seg + 1].tot \in Nat
               /\ t = d + chain[seg + 1].tot
  <2> SUFFICES ASSUME d # t
               PROVE  /\ seg < e /\ seg + 1 \in 1 .. Len(chain)
                      /\ e \in seg + 1 .. Len(chain)
                      /\ chain[seg + 1].tot \in Nat
                      /\ t = d + chain[seg + 1].tot
    OBVIOUS
  <2>1. chain[e].len = chain[e].tot
        /\ \A i \in 1 .. e - 1 : chain[i].tot = chain[i].len + chain[i + 1].tot
    BY <1>5 DEF EndsAt
  <2>2. seg # e  BY <2>1
  <2>3. seg < e /\ seg \in 1 .. e - 1 /\ seg + 1 \in 1 .. Len(chain)
        /\ e \in seg + 1 .. Len(chain)
    BY <1>5, <1>6, <2>2, SMT
  <2>4. chain[seg + 1] \in [len : Nat, tot : Nat]
    BY <2>3, ElementInSet DEF Typed
  <2> QED  BY <2>1, <2>3, <2>4
<1>8. d <= t /\ n \in Nat /\ n + d <= length
  <2>1. CASE d = t  BY <1>3, <1>4, <2>1, SMT
  <2>2. CASE d # t
    <3> DEFINE u == chain[seg + 1].tot
    <3>1. u \in Nat /\ t = d + u  BY <1>7, <2>2
    <3> HIDE DEF d, t, u
    <3> QED  BY <1>3, <1>4, <3>1, SMT
  <2> QED  BY <2>1, <2>2
<1>9. handed \in Nat  BY TransmitAssumption DEF Typed
<1>10. mem' \in [Ram -> Cell]
  <2>1. \A a \in Ram : mem[a] \in Cell  BY DEF Typed
  <2>2. \A a \in Ram : Ahead(ewrpt, a) \in Int
    BY TransmitAssumption, SMT DEF Ahead, Ram, Typed
  <2>3. n \in Int  BY <1>8
  <2> HIDE DEF n, d
  <2>4. \A a \in Ram : <<handed, n + Ahead(ewrpt, a)>> \in Cell
    BY <1>9, <2>2, <2>3, SMT DEF Cell
  <2> QED  BY <1>1, <2>1, <2>4
<1>15. Fits(n + d) /\ StartAddress \in Nat /\ RamSize \in Nat
  <2>1. RamSize \in Nat  BY TransmitAssumption
  <2>2. StartAddress + 1 + length + 7 <= RamSize  BY <1>4 DEF Fits, StatusLen
  <2>3. n \in Nat /\ d \in Nat /\ length \in Nat /\ n + d <= length  BY <1>3, <1>8
  <2> HIDE DEF n, d, t
  <2> QED  BY <2>1, <2>2, <2>3, StartIsBehindRing, SMT DEF Fits, StatusLen
<1>11. /\ Filled(mem', handed, n + d)
       /\ \A a \in Ram : a <= rxbufsize => mem'[a] = mem[a]
  <2>2. mem \in [Ram -> Cell] /\ ewrpt \in Ram  BY DEF Typed
  <2>3. \A a \in Ram : mem'[a] = IF Ahead(ewrpt, a) < d
                                 THEN <<handed, n + Ahead(ewrpt, a)>> ELSE mem[a]
    BY <1>1
  <2>4. n \in Nat /\ d \in Nat /\ ewrpt = StartAddress + 1 + n /\ Filled(mem, handed, n)
    BY <1>3, <1>4, <1>8
  <2> HIDE DEF n, d, t
  <2>5. ASSUME NEW m2 \in [Ram -> Cell],
               \A a \in Ram : m2[a] = IF Ahead(ewrpt, a) < d
                                     THEN <<handed, n + Ahead(ewrpt, a)>> ELSE mem[a]
        PROVE  /\ Filled(m2, handed, n + d)
               /\ \A a \in Ram : a <= rxbufsize => m2[a] = mem[a]
    BY <1>15, <2>2, <2>4, <2>5, Extending
  <2> QED  BY <1>10, <2>3, <2>5
<1>12. ewrpt' = StartAddress + 1 + (n + d) /\ ewrpt' \in Ram
  <2>1. /\ ewrpt + d = StartAddress + 1 + (n + d)
        /\ ewrpt + d \in Nat /\ ewrpt + d < RamSize /\ ewrpt + d \in Ram
    <3>1. n \in Nat /\ d \in Nat /\ ewrpt = StartAddress + 1 + n
      BY <1>3, <1>4, <1>8
    <3> HIDE DEF n, d, t
    <3> QED  BY <1>15, <3>1, SMT DEF Fits, StatusLen, Ram
  <2> QED  BY <1>1, <2>1, WrapInside
<1>13. CASE d = t
  <2>1. n + d = length  BY <1>3, <1>13, SMT
  <2>2. pc' = "end" /\ seg' = seg  BY <1>1, <1>13
  <2>3. Typed'  BY <1>1, <1>10, <1>12, <2>2 DEF Typed
  <2>4. Filled(mem, handed, length)'  BY <1>1, <1>11, <2>1
  <2>5. Progress'  BY <1>1, <1>2, <1>4, <2>2, <2>4 DEF Progress
  <2>6. Logic' /\ OnLine'  BY <1>1, <1>2, <2>2 DEF Logic, OnLine
  <2> QED  BY <1>11, <2>3, <2>5, <2>6, TransmitAssumption, SMT DEF RingUntouched, Ram
<1>14. CASE d # t
  <2> DEFINE u == chain[seg + 1].tot
  <2>1. pc' = "partial" /\ seg' = seg + 1  BY <1>1, <1>14
  <2>2. u \in Nat /\ t = d + u /\ e \in seg + 1 .. Len(chain)
        /\ seg + 1 \in 1 .. Len(chain)
    BY <1>7, <1>14
  <2>3. n + d = length - u /\ u <= length
    <3> HIDE DEF d, t, u
    <3> QED  BY <1>3, <1>4, <2>2, SMT DEF n
  <2>4. Typed'  BY <1>1, <1>10, <1>12, <2>1, <2>2 DEF Typed
  <2>5. Copied' = n + d /\ chain'[seg'].tot = u
    BY <1>1, <2>1, <2>3 DEF Copied
  <2>6. /\ Filled(mem, handed, Copied)'
        /\ (ewrpt = StartAddress + 1 + Copied)'
        /\ (chain[seg].tot <= length)'
    BY <1>1, <1>11, <1>12, <2>3, <2>5
  <2>7. (\E x \in seg .. Len(chain) : EndsAt(chain, x))'
    BY <1>1, <1>5, <2>1, <2>2
  <2>8. Progress'  BY <1>1, <1>2, <1>4, <2>1, <2>6, <2>7 DEF Progress
  <2>9. Logic' /\ OnLine'  BY <1>1, <1>2, <2>1 DEF Logic, OnLine
  <2> QED  BY <1>11, <2>4, <2>8, <2>9, TransmitAssumption, SMT DEF RingUntouched, Ram
<1> QED  BY <1>13, <1>14

(* The steps that write nothing to the memory and nothing to the wire. *)
LEMMA QuietStepKeeps ==
  IInv /\ (\/ TransmitEnd \/ RequestToSend \/ PollDone \/ PollBusy
           \/ SetReset \/ ClearReset \/ ReadStatus \/ OtherWork) => IInv'
<1> SUFFICES ASSUME IInv,
                    \/ TransmitEnd \/ RequestToSend \/ PollDone \/ PollBusy
                    \/ SetReset \/ ClearReset \/ ReadStatus \/ OtherWork
             PROVE  IInv'
  OBVIOUS
<1> USE DEF IInv
<1>1. UNCHANGED <<mem, etxst, ewrpt, chain, seg, handed, wire, OnWire, length, Copied>>
  BY DEF TransmitEnd, RequestToSend, PollDone, PollBusy, SetReset, ClearReset, ReadStatus,
         OtherWork, vars, chipVars, OnWire, length, Copied
<1>2. RingUntouched'  BY <1>1 DEF RingUntouched
<1>3. length \in Nat /\ StartAddress \in Nat  BY LengthTyped, StartIsBehindRing
<1>5. CASE TransmitEnd
  <2>1. /\ UNCHANGED <<txrts, txrst, chip, polls>> /\ pc = "end" /\ pc' = "rts"
        /\ etxnd' = LastByte
    BY <1>5 DEF TransmitEnd
  <2>2. LastByte = StartAddress + length  BY <1>3, SMT DEF LastByte
  <2>3. ~txrts  BY <2>1 DEF Logic
  <2>4. etxnd' \in Nat  BY <1>3, <2>1, <2>2, SMT
  <2>5. Typed'  BY <1>1, <2>1, <2>4 DEF Typed
  <2>6. Progress' /\ Logic' /\ OnLine'
    BY <1>1, <2>1, <2>2, <2>3 DEF Progress, Logic, OnLine
  <2> QED  BY <1>2, <2>5, <2>6
<1>6. CASE RequestToSend
  <2>1. /\ UNCHANGED <<etxnd, txrst, chip>> /\ pc = "rts" /\ pc' = "poll"
        /\ txrts' = TRUE /\ polls' = 0
    BY <1>6 DEF RequestToSend
  <2>2. txrts' \in BOOLEAN  BY <2>1, Zenon
  <2>3. polls' \in 0 .. Polls - 1  BY <2>1, TransmitAssumption, SMT
  <2>4. Typed'  BY <1>1, <2>1, <2>2, <2>3 DEF Typed
  <2>5. ~txrst /\ chip = "off"  BY <2>1 DEF Logic
  <2>6. Progress' /\ Logic' /\ OnLine'
    BY <1>1, <2>1, <2>5 DEF Progress, Logic, OnLine
  <2> QED  BY <1>2, <2>4, <2>6
<1>7. CASE PollDone
  <2>1. /\ UNCHANGED <<etxnd, txrts, txrst, chip, polls>> /\ pc = "poll" /\ pc' = "status"
        /\ ~txrts
    BY <1>7 DEF PollDone, chipVars
  <2>2. Typed'  BY <1>1, <2>1 DEF Typed
  <2>3. Progress' /\ Logic' /\ OnLine'
    BY <1>1, <2>1 DEF Progress, Logic, OnLine
  <2> QED  BY <1>2, <2>2, <2>3
<1>8. CASE PollBusy
  <2>1. /\ UNCHANGED <<etxnd, txrts, txrst, chip>> /\ pc = "poll" /\ pc' \in {"poll", "reset"}
        /\ txrts
        /\ polls' = IF PollsOver THEN 0 ELSE polls + 1
    BY <1>8 DEF PollBusy, chipVars
  <2>2. polls' \in 0 .. Polls - 1
    <3>1. CASE PollsOver
      BY <2>1, <3>1, TransmitAssumption, SMT
    <3>2. CASE ~PollsOver
      <4>1. polls \in 0 .. Polls - 1 /\ polls + 1 # Polls  BY <3>2 DEF Typed, PollsOver
      <4> QED  BY <2>1, <3>2, <4>1, TransmitAssumption, SMT
    <3> QED  BY <3>1, <3>2
  <2>3. Typed'  BY <1>1, <2>1, <2>2 DEF Typed
  <2>4. Progress' /\ Logic' /\ OnLine'
    BY <1>1, <2>1 DEF Progress, Logic, OnLine
  <2> QED  BY <1>2, <2>3, <2>4
<1>9. CASE SetReset
  <2>1. /\ UNCHANGED <<etxnd, polls>> /\ pc = "reset" /\ pc' = "release"
        /\ txrst' = TRUE /\ txrts' = FALSE /\ chip' = "off"
    BY <1>9 DEF SetReset
  <2>2. txrts' \in BOOLEAN /\ txrst' \in BOOLEAN  BY <2>1, Zenon
  <2>3. Typed'  BY <1>1, <2>1, <2>2 DEF Typed
  <2>4. Progress' /\ Logic' /\ OnLine'
    BY <1>1, <2>1 DEF Progress, Logic, OnLine
  <2> QED  BY <1>2, <2>3, <2>4
<1>10. CASE ClearReset
  <2>1. /\ UNCHANGED <<etxnd, txrts, chip, polls>> /\ pc = "release" /\ pc' = "idle"
        /\ txrst' = FALSE
    BY <1>10 DEF ClearReset
  <2>2. txrst' \in BOOLEAN  BY <2>1, Zenon
  <2>3. Typed'  BY <1>1, <2>1, <2>2 DEF Typed
  <2>4. ~txrts  BY <2>1 DEF Logic
  <2>5. Progress' /\ Logic' /\ OnLine'
    BY <1>1, <2>1, <2>4 DEF Progress, Logic, OnLine
  <2> QED  BY <1>2, <2>3, <2>5
<1>11. CASE ReadStatus
  <2>1. /\ UNCHANGED <<etxnd, txrts, txrst, chip, polls>> /\ pc = "status" /\ pc' = "idle"
    BY <1>11 DEF ReadStatus, chipVars
  <2>2. Typed'  BY <1>1, <2>1 DEF Typed
  <2>3. ~txrts  BY <2>1 DEF Logic
  <2>4. Progress' /\ Logic' /\ OnLine'
    BY <1>1, <2>1, <2>3 DEF Progress, Logic, OnLine
  <2> QED  BY <1>2, <2>2, <2>4
<1>12. CASE OtherWork
  <2>1. UNCHANGED <<etxnd, txrts, txrst, chip, polls, pc>>
    BY <1>12 DEF OtherWork, vars, chipVars
  <2>2. Typed'  BY <1>1, <2>1 DEF Typed
  <2>3. Progress' /\ Logic' /\ OnLine'
    BY <1>1, <2>1 DEF Progress, Logic, OnLine
  <2> QED  BY <1>2, <2>2, <2>3
<1> QED  BY <1>5, <1>6, <1>7, <1>8, <1>9, <1>10, <1>11, <1>12

LEMMA StepKeeps == IInv /\ [Next]_vars => IInv'
<1> SUFFICES ASSUME IInv, [Next]_vars PROVE IInv'  OBVIOUS
<1>1. CASE Chip
  BY <1>1, ChipStartKeeps, ChipSendKeeps, ChipHangKeeps, ChipEndKeeps DEF Chip
<1>2. CASE Driver
  BY <1>2, TransmitStartKeeps, TransmitPartialKeeps, QuietStepKeeps DEF Driver
<1>3. CASE OtherWork  BY <1>3, QuietStepKeeps
<1>4. CASE \E c \in Chains : LinkOutput(c)  BY <1>4, LinkOutputKeeps
<1>5. CASE UNCHANGED vars
  <2>1. UNCHANGED <<mem, etxst, etxnd, ewrpt, txrts, txrst, chip, pc, chain, seg, polls,
                    handed, wire, OnWire, length, Copied>>
    BY <1>5 DEF vars, chipVars, OnWire, length, Copied
  <2>2. Typed'  BY <2>1 DEF IInv, Typed
  <2>3. Progress' /\ Logic' /\ OnLine' /\ RingUntouched'
    BY <2>1 DEF IInv, Progress, Logic, OnLine, RingUntouched
  <2> QED  BY <2>2, <2>3 DEF IInv
<1> QED  BY <1>1, <1>2, <1>3, <1>4, <1>5 DEF Next

THEOREM Invariance == Spec => []IInv
<1>1. Init => IInv  BY InitHolds
<1>2. IInv /\ [Next]_vars => IInv'  BY StepKeeps
<1> QED  BY <1>1, <1>2, PTL DEF Spec

-----------------------------------------------------------------------------
(* Every variable keeps to its type. *)
THEOREM TypeCorrect == Spec => []TypeOK
<1>1. IInv => TypeOK
  <2> SUFFICES ASSUME IInv PROVE TypeOK  OBVIOUS
  <2>1. DOMAIN chain = 1 .. Len(chain)  BY DEF IInv, Typed
  <2> QED  BY <2>1 DEF IInv, Typed, TypeOK
<1> QED  BY <1>1, Invariance, PTL

(* The driver never touches a packet that the chip is sending or may send. *)
THEOREM NeverTouchedInFlight == Spec => []InFlightIntact
<1>1. IInv => InFlightIntact
  <2> SUFFICES ASSUME IInv, txrts PROVE InFlightIntact  BY DEF InFlightIntact
  <2>1. etxst = StartAddress /\ etxnd = StartAddress + length
        /\ Filled(mem, handed, length)
    BY DEF IInv, Progress
  <2> QED  BY <2>1 DEF InFlightIntact, Filled
<1> QED  BY <1>1, Invariance, PTL

(* However the chip behaves, linkoutput leaves its transmit logic usable. *)
THEOREM AlwaysUsable == Spec => []QuietWhenIdle
<1>1. IInv => QuietWhenIdle  BY DEF IInv, Logic, Typed, QuietWhenIdle
<1> QED  BY <1>1, Invariance, PTL

(* Sending never writes into the receive ring. *)
THEOREM RingIsSafe == Spec => []RingUntouched
<1>1. IInv => RingUntouched  BY DEF IInv
<1> QED  BY <1>1, Invariance, PTL

-----------------------------------------------------------------------------
(* The transmit path implements the line: safety. *)

LEMMA InitMaps == Init => Line!Init
BY DEF Init, Line!Init, length

LEMMA StepMaps == IInv /\ [Next]_vars => [Line!Next]_(Line!lineVars)
<1> SUFFICES ASSUME IInv, [Next]_vars PROVE [Line!Next]_(Line!lineVars)  OBVIOUS
<1> USE DEF IInv
<1>1. Line!Last = OnWire  BY DEF Line!Last, OnWire
<1>2. CASE ChipStart
  <2>1. /\ pc \in {"poll", "reset"} /\ UNCHANGED <<handed, pc, length>>
        /\ mem[etxst][1] = handed
        /\ wire = <<>> \/ OnWire.id # handed
    BY <1>2 DEF ChipStart, Logic, OnLine, Progress, Filled, length
  <2>2. wire' = Append(wire, [id |-> handed, bytes |-> <<>>])
    BY <1>2, <2>1 DEF ChipStart
  <2>3. Line!Begin  BY <1>1, <2>1, <2>2 DEF Line!Begin, Line!Begun
  <2> QED  BY <2>3 DEF Line!Next
<1>3. CASE ChipSend
  <2>1. chip = "sending" /\ txrts /\ pc \in {"poll", "reset"}
    BY <1>3 DEF ChipSend, Logic
  <2>2. /\ wire # <<>> /\ OnWire.id = handed
        /\ etxst = StartAddress /\ etxnd = StartAddress + length
        /\ Filled(mem, handed, length) /\ Fits(length)
    BY <2>1 DEF OnLine, Progress
  <2> DEFINE n == Len(OnWire.bytes)
  <2>3. n \in Nat  BY <2>2, WireTyped
  <2>4. length \in Nat /\ StartAddress \in Nat  BY LengthTyped, StartIsBehindRing
  <2>5. etxst + n < etxnd  BY <1>3 DEF ChipSend
  <2>6. n < length /\ n \in 0 .. length - 1
    <3> HIDE DEF n
    <3> QED  BY <2>2, <2>3, <2>4, <2>5, SMT
  <2>7. Wrap(etxst + 1 + n) = StartAddress + 1 + n
    <3>1. RamSize \in Nat  BY TransmitAssumption
    <3> HIDE DEF n
    <3>2. StartAddress + 1 + n \in Nat /\ StartAddress + 1 + n < RamSize
      BY <2>2, <2>3, <2>4, <2>6, <3>1, SMT DEF Fits, StatusLen
    <3>3. etxst + 1 + n = StartAddress + 1 + n  BY <2>2
    <3> QED  BY <3>2, <3>3, WrapInside
  <2>8. mem[Wrap(etxst + 1 + n)] = <<handed, n>>
    BY <2>2, <2>6, <2>7 DEF Filled
  <2>9. wire' = [wire EXCEPT ![Len(wire)].bytes = Append(@, mem[Wrap(etxst + 1 + Len(@))])]
    BY <1>3 DEF ChipSend
  <2>10. wire' = [wire EXCEPT ![Len(wire)].bytes = Append(@, <<handed, Len(@)>>)]
    BY <2>8, <2>9 DEF OnWire
  <2>11. UNCHANGED <<handed, pc, length>>  BY <1>3 DEF ChipSend, length
  <2>12. Line!Extend
    BY <1>1, <2>1, <2>2, <2>6, <2>10, <2>11 DEF Line!Extend, Line!Begun
  <2> QED  BY <2>12 DEF Line!Next
<1>4. CASE ChipHang \/ \E s \in {Sent, Aborted} : ChipEnd(s)
  <2>1. UNCHANGED <<handed, pc, length, wire>>  BY <1>4 DEF ChipHang, ChipEnd, length
  <2> QED  BY <2>1 DEF Line!lineVars
<1>5. CASE \E c \in Chains : LinkOutput(c)
  <2>1. PICK c \in Chains : LinkOutput(c)  BY <1>5
  <2>2. /\ pc = "idle" /\ pc' = "start" /\ handed' = handed + 1 /\ UNCHANGED wire
        /\ length' = c[1].tot
    BY <2>1 DEF LinkOutput, length
  <2>3. length' \in Lengths  BY <2>2 DEF Lengths
  <2>4. Line!Call  BY <2>2, <2>3 DEF Line!Call
  <2> QED  BY <2>4 DEF Line!Next
<1>6. CASE TransmitStart \/ TransmitPartial \/ TransmitEnd \/ RequestToSend
           \/ PollDone \/ PollBusy \/ SetReset
  <2>1. pc # "idle" /\ pc' # "idle" /\ UNCHANGED <<handed, length, wire>>
    BY <1>6 DEF TransmitStart, TransmitPartial, TransmitEnd, RequestToSend, PollDone,
                PollBusy, SetReset, length
  <2> QED  BY <2>1 DEF Line!lineVars
<1>7. CASE ClearReset \/ ReadStatus
  <2>1. pc # "idle" /\ pc' = "idle" /\ UNCHANGED <<handed, length, wire>>
    BY <1>7 DEF ClearReset, ReadStatus, length
  <2>2. Line!Return  BY <2>1 DEF Line!Return
  <2> QED  BY <2>2 DEF Line!Next
<1>8. CASE OtherWork \/ UNCHANGED vars
  <2>1. UNCHANGED <<handed, pc, length, wire>>  BY <1>8 DEF OtherWork, vars, length
  <2> QED  BY <2>1 DEF Line!lineVars
<1> QED  BY <1>2, <1>3, <1>4, <1>5, <1>6, <1>7, <1>8 DEF Next, Chip, Driver

(* Every behaviour of the transmit path is one of TxLine: in order, at most  *)
(* once, byte for byte, and nothing after linkoutput has returned.           *)
THEOREM RefinesLine == Spec => Line!SafeSpec
<1>1. Init => Line!Init  BY InitMaps
<1>2. IInv /\ [Next]_vars => [Line!Next]_(Line!lineVars)  BY StepMaps
<1> QED  BY <1>1, <1>2, Invariance, PTL DEF Spec, Line!SafeSpec
-----------------------------------------------------------------------------
(* What is on the wire, said of the frames themselves. *)

Called == pc # "idle" => handed # 0

WireFaithful ==
  /\ \A i, j \in 1 .. Len(wire) : i < j => wire[i].id < wire[j].id
  /\ \A i \in 1 .. Len(wire) :
       /\ wire[i].id \in 1 .. handed
       /\ \A k \in 1 .. Len(wire[i].bytes) : wire[i].bytes[k] = <<wire[i].id, k - 1>>

LEMMA WireElements ==
  ASSUME Typed
  PROVE  \A i \in 1 .. Len(wire) : wire[i] \in [id : Nat, bytes : Seq(Cell)]
BY ElementInSet DEF Typed

LEMMA FaithfulBegin ==
  ASSUME IInv, Called, WireFaithful, Line!Begin
  PROVE  WireFaithful'
<1> DEFINE f == [id |-> handed, bytes |-> <<>>]
           n == Len(wire)
<1>1. /\ wire' = Append(wire, f) /\ handed' = handed
      /\ ~(wire # <<>> /\ OnWire.id = handed)
      /\ pc # "idle"
  BY DEF Line!Begin, Line!Begun, Line!Last, OnWire
<1>2. handed \in Nat /\ wire \in Seq([id : Nat, bytes : Seq(Cell)])
  BY TransmitAssumption DEF IInv, Typed
<1>3. /\ Len(wire') = n + 1 /\ n \in Nat
      /\ wire'[n + 1] = f
      /\ \A i \in 1 .. n : wire'[i] = wire[i]
  <2> HIDE DEF f
  <2> QED  BY <1>1, <1>2
<1>4. f.id = handed /\ f.bytes = <<>>  OBVIOUS
<1> HIDE DEF f
<1>5. \A i \in 1 .. n : wire[i].id \in 1 .. handed /\ wire[i].id # handed
  <2> TAKE i \in 1 .. n
  <2>1. wire[i].id \in 1 .. handed /\ wire[n].id \in 1 .. handed  BY <1>3 DEF WireFaithful
  <2>2. n \in 1 .. n /\ wire # <<>> /\ wire[n].id # handed
    <3>1. n \in 1 .. n /\ wire # <<>>  BY <1>2, <1>3
    <3> QED  BY <1>1, <3>1 DEF OnWire
  <2>3. i = n \/ wire[i].id < wire[n].id
    <3>1. i = n \/ i < n  BY <1>3
    <3> QED  BY <2>2, <3>1 DEF WireFaithful
  <2> QED  BY <1>2, <2>1, <2>2, <2>3
<1>6. handed \in 1 .. handed
  <2>1. handed # 0
    BY <1>1 DEF Called
  <2> QED  BY <1>2, <2>1
<1>7. \A i, j \in 1 .. n + 1 : i < j => wire'[i].id < wire'[j].id
  <2> TAKE i, j \in 1 .. n + 1
  <2>1. CASE i < j /\ j = n + 1
    <3>1. i \in 1 .. n /\ wire'[i] = wire[i] /\ wire'[j].id = handed  BY <1>3, <1>4, <2>1
    <3> QED  BY <1>2, <1>5, <3>1
  <2>2. CASE i < j /\ j # n + 1
    <3>1. i \in 1 .. n /\ j \in 1 .. n  BY <1>3, <2>2
    <3> QED  BY <1>3, <3>1 DEF WireFaithful
  <2> QED  BY <2>1, <2>2
<1>8. ASSUME NEW i \in 1 .. n + 1
      PROVE  /\ wire'[i].id \in 1 .. handed
             /\ \A k \in 1 .. Len(wire'[i].bytes) : wire'[i].bytes[k] = <<wire'[i].id, k - 1>>
  <2>1. CASE i = n + 1
    <3>1. \A k \in 1 .. Len(wire'[i].bytes) : FALSE
      <4>1. wire'[i].bytes = <<>>  BY <1>3, <1>4, <2>1
      <4> QED  BY <4>1
    <3> QED  BY <1>3, <1>4, <1>6, <2>1, <3>1
  <2>2. CASE i # n + 1
    <3>1. i \in 1 .. n  BY <1>3, <2>2
    <3> QED  BY <1>3, <3>1 DEF WireFaithful
  <2> QED  BY <2>1, <2>2
<1> HIDE DEF n
<1> QED  BY <1>1, <1>3, <1>7, <1>8 DEF WireFaithful

LEMMA FaithfulExtend ==
  ASSUME IInv, WireFaithful, Line!Extend
  PROVE  WireFaithful'
<1> DEFINE n == Len(wire)
           l == Len(OnWire.bytes)
           f == [OnWire EXCEPT !.bytes = Append(@, <<handed, Len(@)>>)]
<1>1. /\ wire # <<>> /\ OnWire.id = handed /\ handed' = handed
      /\ wire' = [wire EXCEPT ![n].bytes = Append(@, <<handed, Len(@)>>)]
  BY DEF Line!Extend, Line!Begun, Line!Last, OnWire
<1>2. /\ n \in 1 .. n /\ wire[n] = OnWire
      /\ OnWire \in [id : Nat, bytes : Seq(Cell)]
      /\ wire \in Seq([id : Nat, bytes : Seq(Cell)])
  BY <1>1, WireTyped DEF IInv, Typed, OnWire
<1>3. /\ f.id = handed
      /\ Len(f.bytes) = l + 1 /\ l \in Nat
      /\ f.bytes[l + 1] = <<handed, l>>
      /\ \A k \in 1 .. l : f.bytes[k] = OnWire.bytes[k]
  <2>1. f.id = handed /\ f.bytes = Append(OnWire.bytes, <<handed, l>>)  BY <1>1, <1>2
  <2>2. OnWire.bytes \in Seq(Cell)  BY <1>2
  <2> HIDE DEF f
  <2> QED  BY <2>1, <2>2
<1>4. wire' = [wire EXCEPT ![n] = f]  BY <1>1, <1>2
<1> HIDE DEF f, l
<1>5. /\ Len(wire') = n /\ n \in Nat /\ wire'[n] = f
      /\ \A i \in 1 .. n : i # n => wire'[i] = wire[i]
  BY <1>2, <1>4
<1> HIDE DEF n
<1>6. \A i \in 1 .. n : wire'[i].id = wire[i].id
  BY <1>1, <1>2, <1>3, <1>5
<1>7. ASSUME NEW i \in 1 .. n
      PROVE  \A k \in 1 .. Len(wire'[i].bytes) : wire'[i].bytes[k] = <<wire'[i].id, k - 1>>
  <2>1. CASE i # n
    BY <1>5, <2>1 DEF WireFaithful, n
  <2>2. CASE i = n
    <3> SUFFICES ASSUME NEW k \in 1 .. l + 1
                 PROVE  f.bytes[k] = <<handed, k - 1>>
      BY <1>3, <1>5, <2>2
    <3>1. CASE k = l + 1
      <4>1. k - 1 = l  BY <1>3, <3>1
      <4> QED  BY <1>3, <3>1, <4>1
    <3>2. CASE k # l + 1
      <4>1. k \in 1 .. l  BY <1>3, <3>2
      <4>2. wire[n].bytes[k] = <<wire[n].id, k - 1>>
        BY <1>2, <4>1 DEF WireFaithful, n, l
      <4> QED  BY <1>1, <1>2, <1>3, <4>1, <4>2
    <3> QED  BY <3>1, <3>2
  <2> QED  BY <2>1, <2>2
<1> QED  BY <1>1, <1>5, <1>6, <1>7 DEF WireFaithful, n

LEMMA FaithfulStep ==
  ASSUME IInv, Called, WireFaithful, [Next]_vars
  PROVE  Called' /\ WireFaithful'
<1>1. [Line!Next]_(Line!lineVars)  BY StepMaps
<1>2. handed \in Nat  BY TransmitAssumption DEF IInv, Typed
<1>3. CASE Line!Call
  <2>1. handed' = handed + 1 /\ wire' = wire  BY <1>3 DEF Line!Call
  <2>2. handed' # 0 /\ \A x \in 1 .. handed : x \in 1 .. handed'  BY <1>2, <2>1
  <2> QED  BY <2>1, <2>2 DEF Called, WireFaithful
<1>4. CASE Line!Begin
  <2>1. Called'  BY <1>4 DEF Line!Begin, Called
  <2> QED  BY <1>4, <2>1, FaithfulBegin
<1>5. CASE Line!Extend
  <2>1. Called'  BY <1>5 DEF Line!Extend, Called
  <2> QED  BY <1>5, <2>1, FaithfulExtend
<1>6. CASE Line!Return
  BY <1>6 DEF Line!Return, Called, WireFaithful
<1>7. CASE UNCHANGED Line!lineVars
  BY <1>7 DEF Line!lineVars, Called, WireFaithful
<1> QED  BY <1>1, <1>3, <1>4, <1>5, <1>6, <1>7 DEF Line!Next

(* Each packet goes onto the wire at most once, in the order linkoutput was  *)
(* called, and what is there of it is a beginning of its bytes: no second    *)
(* copy after a hang, no byte of another pbuf or of an earlier packet.       *)
THEOREM InOrderAtMostOnce == Spec => []WireFaithful
<1>1. Init => Called /\ WireFaithful  BY DEF Init, Called, WireFaithful
<1>2. IInv /\ Called /\ WireFaithful /\ [Next]_vars => Called' /\ WireFaithful'
  BY FaithfulStep
<1> QED  BY <1>1, <1>2, Invariance, PTL DEF Spec

-----------------------------------------------------------------------------
(* How long a call takes. *)

(* The steps of the driver that are still to come, at most. *)
StepsLeft ==
  CASE pc = "idle" -> 0
    [] pc \in {"status", "release"} -> 1
    [] pc = "reset" -> 2
    [] pc = "poll" -> Polls + 2 - polls
    [] pc = "rts" -> Polls + 3
    [] pc = "end" -> Polls + 4
    [] pc = "partial" -> Polls + 5 + Len(chain) - seg
    [] pc = "start" -> Polls + 6 + Len(chain) - seg

Bounded ==
  /\ StepsLeft \in 0 .. Polls + 5 + Len(chain)
  /\ StepsLeft = 0 <=> pc = "idle"

(* A step of the driver leaves fewer of them; the chip cannot add to them.   *)
DriverAdvances ==
  IF Driver THEN StepsLeft' < StepsLeft
            ELSE pc # "idle" => StepsLeft' = StepsLeft

LEMMA Numbers ==
  ASSUME IInv
  PROVE  /\ Polls \in Nat /\ Polls > 0 /\ polls \in 0 .. Polls - 1
         /\ Len(chain) \in Nat /\ seg \in 1 .. Len(chain)
<1>1. chain \in Seq([len : Nat, tot : Nat])  BY DEF IInv, Typed
<1>2. Len(chain) \in Nat  BY <1>1
<1> QED  BY <1>2, TransmitAssumption DEF IInv, Typed

LEMMA BoundedSteps == IInv => Bounded
<1> SUFFICES ASSUME IInv PROVE Bounded  OBVIOUS
<1>1. pc \in {"idle", "start", "partial", "end", "rts", "poll", "status", "reset", "release"}
  BY DEF IInv, Typed
<1>2. CASE pc = "idle"  BY <1>2, Numbers DEF Bounded, StepsLeft
<1>3. CASE pc = "start" \/ pc = "partial"
  <2>1. StepsLeft \in {Polls + 5 + Len(chain) - seg, Polls + 6 + Len(chain) - seg}
    BY <1>3 DEF StepsLeft
  <2> QED  BY <1>3, <2>1, Numbers DEF Bounded
<1>4. CASE pc = "poll"
  <2>1. StepsLeft = Polls + 2 - polls  BY <1>4 DEF StepsLeft
  <2> QED  BY <1>4, <2>1, Numbers DEF Bounded
<1>5. CASE pc \in {"end", "rts", "status", "reset", "release"}
  <2>1. StepsLeft \in {1, 2, Polls + 3, Polls + 4}  BY <1>5 DEF StepsLeft
  <2> QED  BY <1>5, <2>1, Numbers DEF Bounded
<1> QED  BY <1>1, <1>2, <1>3, <1>4, <1>5

LEMMA DriverStepsDown == IInv /\ Driver => StepsLeft' < StepsLeft
<1> SUFFICES ASSUME IInv, Driver PROVE StepsLeft' < StepsLeft  OBVIOUS
<1>1. CASE TransmitStart
  <2>1. pc = "start" /\ pc' = "partial" /\ UNCHANGED <<chain, seg>>
    BY <1>1 DEF TransmitStart
  <2> QED  BY <2>1, Numbers DEF StepsLeft
<1>2. CASE TransmitPartial
  <2>1. /\ pc = "partial" /\ UNCHANGED chain
        /\ \/ pc' = "end"
           \/ pc' = "partial" /\ seg' = seg + 1
    BY <1>2 DEF TransmitPartial
  <2> QED  BY <2>1, Numbers DEF StepsLeft
<1>3. CASE TransmitEnd \/ RequestToSend
  <2>1. \/ pc = "end" /\ pc' = "rts"
        \/ pc = "rts" /\ pc' = "poll" /\ polls' = 0
    BY <1>3 DEF TransmitEnd, RequestToSend
  <2> QED  BY <2>1, Numbers DEF StepsLeft
<1>4. CASE PollDone \/ PollBusy
  <2>1. /\ pc = "poll"
        /\ \/ pc' \in {"status", "reset"}
           \/ pc' = "poll" /\ polls' = polls + 1
    BY <1>4 DEF PollDone, PollBusy
  <2> QED  BY <2>1, Numbers DEF StepsLeft
<1>5. CASE SetReset \/ ClearReset \/ ReadStatus
  <2>1. \/ pc = "reset" /\ pc' = "release"
        \/ pc \in {"release", "status"} /\ pc' = "idle"
    BY <1>5 DEF SetReset, ClearReset, ReadStatus
  <2> QED  BY <2>1 DEF StepsLeft
<1> QED  BY <1>1, <1>2, <1>3, <1>4, <1>5 DEF Driver

LEMMA StepAdvances == IInv /\ [Next]_vars => DriverAdvances
<1> SUFFICES ASSUME IInv, [Next]_vars, ~Driver, pc # "idle"
             PROVE  StepsLeft' = StepsLeft
  BY DriverStepsDown DEF DriverAdvances
<1>1. UNCHANGED <<pc, chain, seg, polls>>
  BY DEF Next, Chip, ChipStart, ChipSend, ChipHang, ChipEnd, OtherWork, LinkOutput, vars
<1> QED  BY <1>1 DEF StepsLeft

(* linkoutput returns after at most Polls + 5 steps and one for each pbuf,   *)
(* whatever the chip does meanwhile, a hang included: every step of the      *)
(* driver brings the return nearer and no step of the chip puts it off.      *)
THEOREM CallIsBounded == Spec => []Bounded /\ [][DriverAdvances]_vars
<1>1. IInv => Bounded  BY BoundedSteps
<1>2. IInv /\ [Next]_vars => [DriverAdvances]_vars  BY StepAdvances
<1> QED  BY <1>1, <1>2, Invariance, PTL DEF Spec

-----------------------------------------------------------------------------
(* What transmit_end reads at last. *)

Whole == wire # <<>> /\ OnWire.id = handed /\ Len(OnWire.bytes) = length

(* The packet is in memory and a status vector of it right behind.           *)
VectorBehind ==
  /\ mem[StartAddress + length] = <<handed, length - 1>>
  /\ \E s \in {Sent, Aborted} :
       /\ \A i \in 1 .. StatusLen : mem[StartAddress + length + i] = <<handed, s>>
       /\ s = Sent => Whole

Concluded == pc = "status" \/ (pc = "poll" /\ ~txrts) => VectorBehind

(* For an empty packet, byte -1 is the control byte. *)
ShiftedByOne ==
  pc = "idle" /\ result # <<>> =>
    /\ DOMAIN result = 1 .. StatusLen
    /\ result[1] = <<handed, length - 1>>
    /\ \E s \in {Sent, Aborted} :
         /\ \A i \in 2 .. StatusLen : result[i] = <<handed, s>>
         /\ s = Sent => Whole

Outcome == Concluded /\ ShiftedByOne /\ (pc # "idle" => result = <<>>)

LEMMA ConcludedByEnd ==
  ASSUME IInv, NEW s \in {Sent, Aborted}, ChipEnd(s)
  PROVE  VectorBehind'
<1> USE DEF IInv
<1>1. /\ chip = "sending" /\ txrts /\ wire # <<>> /\ OnWire.id = handed
      /\ UNCHANGED <<handed, length, OnWire, wire>>
  BY DEF ChipEnd, Logic, OnLine, length, OnWire
<1>2. /\ etxst = StartAddress /\ etxnd = StartAddress + length
      /\ Fits(length) /\ length \in Nat
      /\ Filled(mem, handed, length)
  BY <1>1, LengthTyped DEF Progress, Logic
<1>3. StartAddress \in Nat /\ RamSize \in Nat  BY StartIsBehindRing, TransmitAssumption
<1>4. etxnd + 1 \in Ram /\ etxnd + 1 + 7 <= RamSize /\ etxnd \in Ram
  BY <1>2, <1>3 DEF Fits, Ram, StatusLen
<1>5. mem' = [a \in Ram |-> IF Ahead(etxnd + 1, a) < 7 THEN <<handed, s>> ELSE mem[a]]
  BY <1>1 DEF ChipEnd, StatusLen
<1>6. mem'[etxnd] = mem[etxnd]
  <2>1. ~(Ahead(etxnd + 1, etxnd) < 7)
    <3>1. ~(etxnd >= etxnd + 1)  BY <1>4 DEF Ram
    <3> QED  BY <1>4, <3>1, AheadRange
  <2> QED  BY <1>4, <1>5, <2>1
<1>7. mem[etxnd] = <<handed, length - 1>>
  <2>1. CASE length = 0
    <3>1. etxnd = StartAddress /\ length - 1 = -1  BY <1>2, <1>3, <2>1
    <3> QED  BY <1>2, <3>1 DEF Filled, Control
  <2>2. CASE length # 0
    <3>1. length - 1 \in 0 .. length - 1 /\ etxnd = StartAddress + 1 + (length - 1)
      BY <1>2, <1>3, <2>2
    <3> QED  BY <1>2, <3>1 DEF Filled
  <2> QED  BY <2>1, <2>2
<1>8. \A i \in 1 .. 7 : mem'[etxnd + i] = <<handed, s>>
  <2> TAKE i \in 1 .. 7
  <2>1. etxnd + i \in Ram /\ etxnd + i >= etxnd + 1 /\ etxnd + i < etxnd + 1 + 7
    BY <1>3, <1>4 DEF Ram
  <2>2. Ahead(etxnd + 1, etxnd + i) < 7  BY <1>4, <2>1, AheadRange
  <2> QED  BY <1>5, <2>1, <2>2
<1>9. s = Sent => Whole'
  <2> SUFFICES ASSUME s = Sent PROVE Whole'  OBVIOUS
  <2>1. etxst + Len(OnWire.bytes) >= etxnd  BY DEF ChipEnd
  <2>2. Len(OnWire.bytes) \in Nat  BY <1>1, WireTyped
  <2>3. Len(OnWire.bytes) <= length  BY <1>1 DEF OnLine
  <2>4. Len(OnWire.bytes) = length  BY <1>2, <1>3, <2>1, <2>2, <2>3
  <2> QED  BY <1>1, <2>4 DEF Whole
<1>10. mem'[StartAddress + length] = <<handed, length - 1>>  BY <1>2, <1>6, <1>7
<1>11. \A i \in 1 .. StatusLen : mem'[StartAddress + length + i] = <<handed, s>>
  BY <1>2, <1>8 DEF StatusLen
<1> QED  BY <1>1, <1>9, <1>10, <1>11 DEF VectorBehind

LEMMA OutcomeOfRead ==
  ASSUME IInv, Outcome, ReadStatus
  PROVE  Outcome'
<1>1. /\ pc = "status" /\ pc' = "idle" /\ UNCHANGED <<mem, handed, length, wire, OnWire>>
      /\ result' = [i \in 1 .. StatusLen |-> mem[Wrap(StartAddress + length + i - 1)]]
  BY DEF ReadStatus, length, OnWire
<1>2. StartAddress \in Nat /\ RamSize \in Nat /\ length \in Nat /\ Fits(length)
  BY <1>1, StartIsBehindRing, TransmitAssumption, LengthTyped DEF IInv, Progress
<1>3. \A i \in 1 .. 7 : Wrap(StartAddress + length + i - 1) = StartAddress + length + i - 1
  <2> TAKE i \in 1 .. 7
  <2>1. StartAddress + length + i - 1 \in Nat /\ StartAddress + length + i - 1 < RamSize
    BY <1>2 DEF Fits, StatusLen
  <2> QED  BY <2>1, WrapInside
<1>4. DOMAIN result' = 1 .. StatusLen
      /\ \A i \in 1 .. 7 : result'[i] = mem[StartAddress + length + i - 1]
  BY <1>1, <1>3 DEF StatusLen
<1>5. VectorBehind  BY <1>1 DEF Outcome, Concluded
<1>6. result'[1] = <<handed, length - 1>>
  <2>1. StartAddress + length + 1 - 1 = StartAddress + length  BY <1>2
  <2> QED  BY <1>4, <1>5, <2>1 DEF VectorBehind
<1>7. PICK s \in {Sent, Aborted} :
        /\ \A i \in 1 .. 7 : mem[StartAddress + length + i] = <<handed, s>>
        /\ s = Sent => Whole
  BY <1>5 DEF VectorBehind, StatusLen
<1>8. \A i \in 2 .. StatusLen : result'[i] = <<handed, s>>
  <2> SUFFICES ASSUME NEW i \in 2 .. 7 PROVE result'[i] = <<handed, s>>  BY DEF StatusLen
  <2>1. i - 1 \in 1 .. 7 /\ StartAddress + length + i - 1 = StartAddress + length + (i - 1)
    BY <1>2
  <2> QED  BY <1>4, <1>7, <2>1
<1>9. Whole' <=> Whole  BY <1>1 DEF Whole
<1> QED  BY <1>1, <1>4, <1>6, <1>7, <1>8, <1>9 DEF Outcome, Concluded, ShiftedByOne

LEMMA OutcomeStep ==
  ASSUME IInv, Outcome, [Next]_vars
  PROVE  Outcome'
<1> USE DEF Outcome
<1>1. CASE ChipStart \/ ChipSend \/ ChipHang
  <2>1. UNCHANGED <<pc, txrts, result>> /\ txrts
    BY <1>1 DEF ChipStart, ChipSend, ChipHang, chipVars, IInv, Logic
  <2>2. pc \in {"poll", "reset"}  BY <2>1 DEF IInv, Logic
  <2> QED  BY <2>1, <2>2 DEF Concluded, ShiftedByOne
<1>2. CASE \E s \in {Sent, Aborted} : ChipEnd(s)
  <2>1. PICK s \in {Sent, Aborted} : ChipEnd(s)  BY <1>2
  <2>2. VectorBehind'  BY <2>1, ConcludedByEnd
  <2>3. pc \in {"poll", "reset"} /\ UNCHANGED <<pc, result>>
    BY <2>1 DEF ChipEnd, IInv, Logic
  <2> QED  BY <2>2, <2>3 DEF Concluded, ShiftedByOne
<1>3. CASE \E c \in Chains : LinkOutput(c)
  BY <1>3 DEF LinkOutput, Concluded, ShiftedByOne
<1>4. CASE TransmitStart \/ TransmitPartial \/ TransmitEnd \/ RequestToSend \/ PollBusy
           \/ SetReset
  <2>1. /\ pc # "idle" /\ result' = result
        /\ \/ pc' \in {"partial", "end", "rts", "reset", "release"}
           \/ pc' = "poll" /\ txrts'
    BY <1>4 DEF TransmitStart, TransmitPartial, TransmitEnd, RequestToSend, PollBusy,
                SetReset, chipVars
  <2> QED  BY <2>1 DEF Concluded, ShiftedByOne
<1>5. CASE PollDone
  <2>1. pc = "poll" /\ ~txrts /\ pc' = "status"
        /\ UNCHANGED <<mem, handed, length, wire, OnWire, result>>
    BY <1>5 DEF PollDone, length, OnWire
  <2>2. VectorBehind'  BY <2>1 DEF Concluded, VectorBehind, Whole
  <2> QED  BY <2>1, <2>2 DEF Concluded, ShiftedByOne
<1>6. CASE ReadStatus  BY <1>6, OutcomeOfRead
<1>7. CASE ClearReset
  <2>1. pc # "idle" /\ pc' = "idle" /\ result' = result  BY <1>7 DEF ClearReset
  <2> QED  BY <2>1 DEF Concluded, ShiftedByOne
<1>8. CASE OtherWork \/ UNCHANGED vars
  <2>1. UNCHANGED <<mem, txrts, pc, result, handed, length, wire, OnWire>>
    BY <1>8 DEF OtherWork, vars, chipVars, length, OnWire
  <2> QED  BY <2>1 DEF Concluded, ShiftedByOne, VectorBehind, Whole
<1> QED  BY <1>1, <1>2, <1>3, <1>4, <1>5, <1>6, <1>7, <1>8 DEF Next, Chip, Driver

(* When the chip has finished in time, what transmit_end reads is the last   *)
(* byte of the packet and then six of the seven bytes of the status vector,  *)
(* always of this packet; and where they say that it was sent, all its bytes *)
(* have been on the wire.  Read one byte further on, they could be parsed.   *)
THEOREM StatusIsShiftedByOne == Spec => []ShiftedByOne
<1>1. Init => Outcome  BY DEF Init, Outcome, Concluded, ShiftedByOne
<1>2. IInv /\ Outcome /\ [Next]_vars => Outcome'  BY OutcomeStep
<1>3. Outcome => ShiftedByOne  BY DEF Outcome
<1> QED  BY <1>1, <1>2, <1>3, Invariance, PTL DEF Spec
=============================================================================
