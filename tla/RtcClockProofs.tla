--------------------------- MODULE RtcClockProofs ---------------------------
(***************************************************************************)
(* Proofs about RtcClock, for counters of every width: the handler counts  *)
(* every wrap once and rtc_get32 / rtc_get64 return the exact tick count,  *)
(* provided Latency + Duration < M.                                        *)
(***************************************************************************)
EXTENDS RtcClock, TLAPS

(* CPSID is never nested: whoever has masked the interrupts is alone. *)
IsrMasks == isr \in {"carry", "increment", "clear", "unmask"}
Masks(r) == rd[r].pc \in {"first", "high", "flag", "unmask"}

Exclusive ==
  /\ masked <=> IsrMasks \/ \E r \in Readers : Masks(r)
  /\ IsrMasks => \A r \in Readers : ~Masks(r)
  /\ Masks("main") => ~Masks("irq") /\ isr = "none"

Flag == IF of THEN 1 ELSE 0

(* What the handler has done of its update. *)
Handler ==
  /\ isr \in {"none", "mask", "carry", "unmask"} => Counted + Flag = wraps
  /\ isr = "increment" =>
       (high64 * H) + (IF high32 = H - 1 THEN 0 ELSE high32 + 1) + Flag = wraps + 1
  /\ isr = "clear" => Counted + Flag = wraps + 1
  /\ isr \in {"mask", "carry", "increment", "clear"} => of
  /\ of => counter <= Latency

(* What a reading knows: when it first looked there had been rd[r].wraps    *)
(* wraps, of which the high part it copies counts all, or all but one that  *)
(* was recent and still in the flag.                                        *)
Copied(r) == (rd[r].h64 * H) + rd[r].h32

Behind(r, n) ==
  \/ n = rd[r].wraps
  \/ n = rd[r].wraps - 1 /\ rd[r].first <= Latency

ReadingOf(r) ==
  /\ Timed(r) => /\ rd[r].age <= Duration
                 /\ \/ wraps = rd[r].wraps /\ counter = rd[r].first + rd[r].age
                    \/ wraps = rd[r].wraps + 1 /\ counter = rd[r].first + rd[r].age - M
  /\ rd[r].pc \in {"high", "flag"} => Behind(r, Counted)
  /\ rd[r].pc = "flag" => rd[r].h64 = high64 /\ rd[r].h32 = high32
  /\ rd[r].pc \in {"unmask", "second"} =>
       /\ Behind(r, Copied(r))
       /\ Copied(r) # rd[r].wraps => rd[r].overflew
       /\ rd[r].overflew => Copied(r) # rd[r].wraps \/ wraps = rd[r].wraps + 1

Reading == \A r \in Readers : ReadingOf(r)

IInv == TypeOK /\ Exclusive /\ Handler /\ Reading

-----------------------------------------------------------------------------
LEMMA CountedType == TypeOK => Counted \in Nat
  BY ClockAssumption DEF TypeOK, Counted

LEMMA InitInv == Init => IInv
  <1> SUFFICES ASSUME Init PROVE IInv
    OBVIOUS
  <1>1. TypeOK
    <2>1. 0 \in Low /\ 0 \in 0 .. H - 1
      BY ClockAssumption DEF Low
    <2>2. NoRead \in ReadState
      BY <2>1 DEF NoRead, ReadState
    <2> QED BY <2>1, <2>2 DEF Init, TypeOK
  <1>2. Exclusive
    BY DEF Init, Exclusive, IsrMasks, Masks, NoRead, Readers
  <1>3. Handler
    BY ClockAssumption DEF Init, Handler, Counted, Flag
  <1>4. Reading
    BY DEF Init, Reading, ReadingOf, Timed, NoRead, Readers
  <1> QED BY <1>1, <1>2, <1>3, <1>4 DEF IInv

LEMMA TickStep ==
  ASSUME IInv, Tick
  PROVE  IInv'
  <1> USE DEF Tick
  <1>1. /\ TypeOK /\ counter \in Low /\ M \in Nat /\ M > 0 /\ wraps \in Nat /\ Latency \in Nat
        /\ Latency + Duration < M /\ Duration \in Nat
        /\ UNCHANGED <<high32, high64, masked, isr>>
    BY ClockAssumption DEF IInv, TypeOK
  <1>2. ASSUME NEW r \in Readers
        PROVE  /\ rd'[r].pc = rd[r].pc /\ rd'[r].first = rd[r].first
               /\ rd'[r].h32 = rd[r].h32 /\ rd'[r].h64 = rd[r].h64
               /\ rd'[r].overflew = rd[r].overflew /\ rd'[r].wraps = rd[r].wraps
               /\ Timed(r) => rd'[r].age = rd[r].age + 1 /\ rd[r].age < Duration
               /\ ~Timed(r) => rd'[r].age = rd[r].age
    BY <1>1 DEF TypeOK
  <1>3. TypeOK'
    <2>1. counter' \in Low /\ wraps' \in Nat /\ of' \in BOOLEAN
      BY <1>1 DEF Low, TypeOK
    <2>2. rd' \in [Readers -> ReadState]
      BY <1>1 DEF TypeOK, ReadState
    <2> QED BY <1>1, <2>1, <2>2 DEF TypeOK
  <1>4. Exclusive'
    <2>1. IsrMasks' = IsrMasks /\ masked' = masked
      BY <1>1 DEF IsrMasks
    <2>2. \A r \in Readers : Masks(r)' <=> Masks(r)
      BY <1>2 DEF Masks
    <2>3. "main" \in Readers /\ "irq" \in Readers
      BY DEF Readers
    <2> QED BY <2>1, <2>2, <2>3 DEF IInv, Exclusive
  <1>5. Handler'
    <2>1. /\ of => counter < Latency
          /\ of \in BOOLEAN
      BY <1>1 DEF TypeOK
    <2>2. /\ \/ wraps' = wraps /\ Flag' = Flag
             \/ wraps' = wraps + 1 /\ Flag = 0 /\ Flag' = 1
          /\ of' => counter' <= Latency
          /\ of => of'
          /\ Flag \in {0, 1} /\ Flag' \in {0, 1}
      <3>1. CASE counter = M - 1
        <4>1. ~of
          BY <1>1, <2>1, <3>1 DEF Low
        <4>2. of'
          BY <3>1
        <4>3. counter' = 0 /\ wraps' = wraps + 1
          BY <3>1
        <4>4. Flag = 0 /\ Flag' = 1
          BY <4>1, <4>2 DEF Flag
        <4> QED BY <1>1, <4>1, <4>2, <4>3, <4>4
      <3>2. CASE counter # M - 1
        BY <1>1, <2>1, <3>2 DEF Flag, Low
      <3> QED BY <3>1, <3>2
    <2>3. Counted' = Counted /\ Counted \in Nat
      BY <1>1, CountedType DEF Counted
    <2>4. (high64 * H) \in Nat /\ high32 \in Nat
      BY <1>1, ClockAssumption DEF TypeOK
    <2> QED BY <1>1, <2>2, <2>3, <2>4 DEF IInv, Handler
  <1>6. Reading'
    <2> SUFFICES ASSUME NEW r \in Readers
        PROVE  /\ Timed(r)' =>
                    /\ rd'[r].age <= Duration
                    /\ \/ wraps' = rd'[r].wraps /\ counter' = rd'[r].first + rd'[r].age
                       \/ wraps' = rd'[r].wraps + 1 /\ counter' = rd'[r].first + rd'[r].age - M
               /\ rd'[r].pc \in {"high", "flag"} => Behind(r, Counted)'
               /\ rd'[r].pc = "flag" => rd'[r].h64 = high64' /\ rd'[r].h32 = high32'
               /\ rd'[r].pc \in {"unmask", "second"} =>
                    /\ Behind(r, Copied(r))'
                    /\ Copied(r)' # rd'[r].wraps => rd'[r].overflew
                    /\ rd'[r].overflew => Copied(r)' # rd'[r].wraps \/ wraps' = rd'[r].wraps + 1
      BY DEF Reading, ReadingOf
    <2>1. /\ rd[r].age \in Nat /\ rd[r].first \in Low /\ rd[r].wraps \in Nat
      BY <1>1 DEF TypeOK, ReadState
    <2>2. Timed(r)' <=> Timed(r)
      BY <1>2 DEF Timed
    <2>3. ASSUME Timed(r)
          PROVE  /\ rd'[r].age <= Duration
                 /\ \/ wraps' = rd'[r].wraps /\ counter' = rd'[r].first + rd'[r].age
                    \/ wraps' = rd'[r].wraps + 1 /\ counter' = rd'[r].first + rd'[r].age - M
                 /\ wraps = rd[r].wraps + 1 => wraps' = wraps
      <3>1. /\ rd[r].age < Duration /\ rd'[r].age = rd[r].age + 1
            /\ rd'[r].first = rd[r].first /\ rd'[r].wraps = rd[r].wraps
            /\ \/ wraps = rd[r].wraps /\ counter = rd[r].first + rd[r].age
               \/ wraps = rd[r].wraps + 1 /\ counter = rd[r].first + rd[r].age - M
        BY <1>2, <2>3 DEF IInv, Reading, ReadingOf
      <3>2. CASE counter = M - 1
        BY <1>1, <2>1, <3>1, <3>2 DEF Low
      <3>3. CASE counter # M - 1
        BY <1>1, <2>1, <3>1, <3>3 DEF Low
      <3> QED BY <3>2, <3>3
    <2>4. Copied(r)' = Copied(r) /\ Counted' = Counted
      BY <1>1, <1>2 DEF Copied, Counted
    <2>5. \A n : Behind(r, n)' <=> Behind(r, n')
      BY DEF Behind
    <2>6. rd'[r].pc \in {"high", "flag"} => Behind(r, Counted)'
      BY <1>1, <1>2, <2>4 DEF IInv, Reading, ReadingOf, Behind
    <2>7. rd'[r].pc = "flag" => rd'[r].h64 = high64' /\ rd'[r].h32 = high32'
      BY <1>1, <1>2 DEF IInv, Reading, ReadingOf
    <2>8. rd'[r].pc \in {"unmask", "second"} =>
            /\ Behind(r, Copied(r))'
            /\ Copied(r)' # rd'[r].wraps => rd'[r].overflew
            /\ rd'[r].overflew => Copied(r)' # rd'[r].wraps \/ wraps' = rd'[r].wraps + 1
      BY <1>2, <2>3, <2>4 DEF IInv, Reading, ReadingOf, Behind, Timed
    <2> QED BY <2>2, <2>3, <2>6, <2>7, <2>8
  <1> QED BY <1>3, <1>4, <1>5, <1>6 DEF IInv

(* The steps of the handler: no reader is within its masked section, and    *)
(* none but the handler changes high32 and high64.                          *)
LEMMA IsrStep ==
  ASSUME IInv, IsrEnter \/ Isr
  PROVE  IInv'
  <1>1. UNCHANGED <<counter, rd, wraps>>
    BY DEF IsrEnter, Isr, IsrMask, IsrCarry, IsrIncrement, IsrClear, IsrUnmask
  <1>2. /\ TypeOK /\ high32 \in 0 .. H - 1 /\ high64 \in Nat /\ H \in Nat /\ H > 0
        /\ of \in BOOLEAN /\ wraps \in Nat
    BY ClockAssumption DEF IInv, TypeOK
  <1>3. TypeOK'
    <2>1. high32' \in 0 .. H - 1
      BY <1>2 DEF IsrEnter, Isr, IsrMask, IsrCarry, IsrIncrement, Incremented, IsrClear, IsrUnmask
    <2>2. high64' \in Nat
      BY <1>2 DEF IsrEnter, Isr, IsrMask, IsrCarry, IsrIncrement, IsrClear, IsrUnmask
    <2>3. of' \in BOOLEAN /\ masked' \in BOOLEAN
          /\ isr' \in {"none", "mask", "carry", "increment", "clear", "unmask"}
      BY <1>2 DEF TypeOK, IsrEnter, Isr, IsrMask, IsrCarry, IsrIncrement, IsrClear, IsrUnmask
    <2> QED BY <1>1, <1>2, <2>1, <2>2, <2>3 DEF TypeOK
  <1>4. ~masked \/ IsrMasks => \A r \in Readers : ~Masks(r)
    BY DEF IInv, Exclusive
  <1>5. \A r \in Readers : ~Masks(r)
    <2>1. CASE IsrMask
      <3>1. ~Masks("irq")
        BY <2>1 DEF IsrMask, IsrRuns, Masks
      <3>2. ~Masks("main")
        BY <2>1 DEF IsrMask, IInv, Exclusive
      <3> QED BY <3>1, <3>2 DEF Readers
    <2>2. CASE IsrEnter
      BY <1>4, <2>2 DEF IsrEnter
    <2>3. CASE IsrCarry \/ IsrIncrement \/ IsrClear \/ IsrUnmask
      BY <1>4, <2>3 DEF IsrMasks, IsrCarry, IsrIncrement, IsrClear, IsrUnmask
    <2> QED BY <2>1, <2>2, <2>3 DEF Isr
  <1>6. Exclusive'
    <2>1. \A r \in Readers : ~Masks(r)'
      BY <1>1, <1>5 DEF Masks
    <2>2. masked' <=> IsrMasks'
      <3>1. masked <=> IsrMasks
        BY <1>5 DEF IInv, Exclusive
      <3> QED BY <3>1 DEF IsrMasks, IsrEnter, Isr, IsrMask, IsrCarry, IsrIncrement, IsrClear,
                      IsrUnmask
    <2>3. "main" \in Readers /\ "irq" \in Readers
      BY DEF Readers
    <2> QED BY <2>1, <2>2, <2>3 DEF Exclusive
  <1>7. Handler'
    <2>1. CASE IsrEnter \/ IsrMask
      BY <1>1, <2>1 DEF IInv, Handler, IsrEnter, IsrMask, Counted, Flag
    <2>2. CASE IsrCarry
      <3>1. /\ of /\ counter <= Latency /\ Counted + Flag = wraps
            /\ Flag' = Flag /\ Flag = 1 /\ of' = of /\ high32' = high32
            /\ isr = "carry" /\ isr' = "increment"
        BY <2>2 DEF IInv, Handler, IsrCarry, Flag
      <3>2. CASE high32 = H - 1
        <4>1. high64' = high64 + 1
          BY <2>2, <3>2 DEF IsrCarry, Carries
        <4>2. (high64 + 1) * H = (high64 * H) + H
          BY <1>2
        <4>3. (high64 * H) \in Nat
          BY <1>2
        <4>4. (high64' * H) + 0 + Flag' = wraps' + 1
          BY <1>1, <1>2, <3>1, <3>2, <4>1, <4>2, <4>3 DEF Counted
        <4> QED BY <1>1, <3>1, <3>2, <4>4 DEF Handler
      <3>3. CASE high32 # H - 1
        <4>1. high64' = high64
          BY <2>2, <3>3 DEF IsrCarry, Carries
        <4>2. (high64 * H) \in Nat
          BY <1>2
        <4>3. (high64' * H) + (high32' + 1) + Flag' = wraps' + 1
          BY <1>1, <1>2, <3>1, <4>1, <4>2 DEF Counted
        <4> QED BY <1>1, <3>1, <3>3, <4>3 DEF Handler
      <3> QED BY <3>2, <3>3
    <2>3. CASE IsrIncrement
      BY <1>1, <2>3 DEF IInv, Handler, IsrIncrement, Incremented, Counted, Flag
    <2>4. CASE IsrClear
      <3>1. /\ of /\ Counted + Flag = wraps + 1 /\ ~of' /\ isr' = "unmask"
            /\ Counted' = Counted
        BY <2>4 DEF IInv, Handler, IsrClear, Counted
      <3>2. Flag = 1 /\ Flag' = 0 /\ Counted \in Nat
        BY <1>2, <3>1, CountedType DEF Flag
      <3> QED BY <1>1, <1>2, <3>1, <3>2 DEF Handler
    <2>5. CASE IsrUnmask
      BY <1>1, <2>5 DEF IInv, Handler, IsrUnmask, Counted, Flag
    <2> QED BY <2>1, <2>2, <2>3, <2>4, <2>5 DEF Isr
  <1>8. Reading'
    <2>1. \A r \in Readers : rd[r].pc \notin {"high", "flag"}
      BY <1>5 DEF Masks
    <2> QED BY <1>1, <2>1 DEF IInv, Reading, ReadingOf, Timed, Behind, Copied
  <1> QED BY <1>3, <1>6, <1>7, <1>8 DEF IInv

LEMMA GetMaskStep ==
  ASSUME IInv, NEW r \in Readers, GetMask(r)
  PROVE  IInv'
  <1> USE DEF GetMask
  <1>1. /\ TypeOK /\ ~masked
        /\ UNCHANGED <<counter, of, high32, high64, isr, wraps>>
        /\ rd' = [rd EXCEPT ![r].pc = "first"]
        /\ rd[r].pc = "idle"
    BY DEF IInv
  <1>2. \A s \in Readers : s # r => rd'[s] = rd[s]
    BY <1>1 DEF TypeOK
  <1>3. rd'[r].pc = "first"
    BY <1>1 DEF TypeOK, ReadState
  <1>4. TypeOK'
    BY <1>1 DEF TypeOK, ReadState
  <1>5. Exclusive'
    <2>1. ~IsrMasks /\ \A s \in Readers : ~Masks(s)
      BY <1>1 DEF IInv, Exclusive
    <2>2. ~IsrMasks' /\ Masks(r)' /\ \A s \in Readers : s # r => ~Masks(s)'
      BY <1>1, <1>2, <1>3, <2>1 DEF IsrMasks, Masks
    <2>3. "main" \in Readers /\ "irq" \in Readers
      BY DEF Readers
    <2>4. r = "main" => isr' = "none"
      BY <1>1 DEF Runs
    <2> QED BY <2>2, <2>3, <2>4 DEF Exclusive
  <1>6. Handler'
    BY <1>1 DEF IInv, Handler, Counted, Flag
  <1>7. Reading'
    <2>1. ASSUME NEW s \in Readers, s # r
          PROVE  /\ Timed(s)' = Timed(s) /\ Behind(s, Counted)' = Behind(s, Counted)
                 /\ Behind(s, Copied(s))' = Behind(s, Copied(s)) /\ Copied(s)' = Copied(s)
      BY <1>1, <1>2, <2>1 DEF Timed, Behind, Counted, Copied
    <2>2. ~Timed(r)'
      BY <1>3 DEF Timed
    <2> QED BY <1>1, <1>2, <1>3, <2>1, <2>2 DEF IInv, Reading, ReadingOf
  <1> QED BY <1>4, <1>5, <1>6, <1>7 DEF IInv

(* A step of one reader that only moves its own locals on. *)
LEMMA OtherReaders ==
  ASSUME IInv, NEW r \in Readers,
         UNCHANGED <<counter, high32, high64, wraps>>,
         \A s \in Readers : s # r => rd'[s] = rd[s],
         ReadingOf(r)'
  PROVE  Reading'
  <1>1. ASSUME NEW s \in Readers, s # r
        PROVE  ReadingOf(s)'
    BY <1>1 DEF IInv, Reading, ReadingOf, Timed, Behind, Counted, Copied
  <1> QED BY <1>1 DEF Reading

LEMMA StillExclusive ==
  ASSUME IInv, NEW r \in Readers, UNCHANGED <<masked, isr>>, Masks(r), Masks(r)',
         \A s \in Readers : s # r => rd'[s] = rd[s]
  PROVE  Exclusive'
  <1>1. IsrMasks' = IsrMasks
    BY DEF IsrMasks
  <1>2. \A s \in Readers : Masks(s)' <=> Masks(s)
    BY DEF Masks
  <1>3. "main" \in Readers /\ "irq" \in Readers
    BY DEF Readers
  <1> QED BY <1>1, <1>2, <1>3 DEF IInv, Exclusive

LEMMA HandlerUnchanged ==
  ASSUME IInv, UNCHANGED <<counter, of, high32, high64, isr, wraps>>
  PROVE  Handler'
  BY DEF IInv, Handler, Counted, Flag

(* Within a reader's masked section the handler is not within its own. *)
LEMMA CountedWhileMasked ==
  ASSUME IInv, NEW r \in Readers, Masks(r)
  PROVE  Counted + Flag = wraps /\ Counted \in Nat /\ Flag \in {0, 1}
  <1>1. isr \in {"none", "mask"}
    BY DEF IInv, Exclusive, IsrMasks, TypeOK
  <1> QED BY <1>1, CountedType DEF IInv, Handler, Flag

LEMMA GetMaskedStep ==
  ASSUME IInv, NEW r \in Readers, GetFirst(r) \/ GetHigh(r) \/ GetFlag(r)
  PROVE  IInv'
  <1>1. /\ TypeOK /\ counter \in Low /\ high32 \in 0 .. H - 1 /\ high64 \in Nat
        /\ of \in BOOLEAN /\ wraps \in Nat /\ rd \in [Readers -> ReadState]
        /\ M \in Nat /\ Latency \in Nat /\ Duration \in Nat /\ H \in Nat
    BY ClockAssumption DEF IInv, TypeOK
  <1>2. /\ UNCHANGED <<counter, of, high32, high64, masked, isr, wraps>>
        /\ \A s \in Readers : s # r => rd'[s] = rd[s]
    BY <1>1 DEF GetFirst, GetHigh, GetFlag
  <1>3. Masks(r) /\ Masks(r)'
    BY <1>1 DEF GetFirst, GetHigh, GetFlag, Masks, ReadState
  <1>4. rd' \in [Readers -> ReadState]
    <2>1. CASE GetFirst(r)
      <3>1. 0 \in Nat /\ "high" \in {"idle", "first", "high", "flag", "unmask", "second"}
        OBVIOUS
      <3> QED BY <1>1, <2>1, <3>1 DEF GetFirst, ReadState
    <2>2. CASE GetHigh(r)
      BY <1>1, <2>2 DEF GetHigh, ReadState
    <2>3. CASE GetFlag(r)
      BY <1>1, <2>3 DEF GetFlag, ReadState
    <2> QED BY <2>1, <2>2, <2>3
  <1>5. TypeOK'
    BY <1>1, <1>2, <1>4 DEF TypeOK
  <1>6. Exclusive' /\ Handler'
    BY <1>2, <1>3, StillExclusive, HandlerUnchanged
  <1>7. Counted + Flag = wraps /\ Counted \in Nat /\ Flag \in {0, 1} /\ Counted' = Counted
    BY <1>2, <1>3, CountedWhileMasked DEF Counted
  <1>8. of => counter <= Latency
    BY DEF IInv, Handler
  <1>9. CASE GetFirst(r)
    <2>1. /\ rd'[r].pc = "high" /\ rd'[r].first = counter /\ rd'[r].age = 0
          /\ rd'[r].wraps = wraps
      BY <1>1, <1>9 DEF GetFirst, ReadState
    <2>2. Behind(r, Counted)'
      BY <1>1, <1>7, <1>8, <2>1 DEF Behind, Flag
    <2>3. wraps' = rd'[r].wraps /\ counter' = rd'[r].first + rd'[r].age
      BY <1>1, <1>2, <2>1 DEF Low
    <2>4. ReadingOf(r)'
      BY <1>1, <2>1, <2>2, <2>3 DEF ReadingOf
    <2> QED BY <1>2, <1>5, <1>6, <2>4, OtherReaders DEF IInv
  <1>10. CASE GetHigh(r)
    <2>1. /\ rd[r].pc = "high" /\ rd'[r].pc = "flag"
          /\ rd'[r].h32 = high32 /\ rd'[r].h64 = high64
          /\ rd'[r].first = rd[r].first /\ rd'[r].age = rd[r].age
          /\ rd'[r].wraps = rd[r].wraps
      BY <1>1, <1>10 DEF GetHigh, ReadState
    <2>2. ReadingOf(r)
      BY DEF IInv, Reading
    <2>3. ReadingOf(r)'
      BY <1>2, <1>7, <2>1, <2>2 DEF ReadingOf, Timed, Behind
    <2> QED BY <1>2, <1>5, <1>6, <2>3, OtherReaders DEF IInv
  <1>11. CASE GetFlag(r)
    <2>1. /\ rd[r].pc = "flag" /\ rd'[r].pc = "unmask" /\ rd'[r].overflew = of
          /\ rd'[r].h32 = rd[r].h32 /\ rd'[r].h64 = rd[r].h64
          /\ rd'[r].first = rd[r].first /\ rd'[r].age = rd[r].age
          /\ rd'[r].wraps = rd[r].wraps
      BY <1>1, <1>11 DEF GetFlag, ReadState
    <2>2. ReadingOf(r)
      BY DEF IInv, Reading
    <2>3. Copied(r)' = Counted /\ Behind(r, Counted) /\ rd[r].wraps \in Nat
      BY <1>1, <2>1, <2>2 DEF ReadingOf, Copied, Counted, ReadState
    <2>4. Behind(r, Copied(r))'
      BY <2>1, <2>3 DEF Behind
    <2>5. wraps = rd[r].wraps \/ wraps = rd[r].wraps + 1
      BY <2>1, <2>2 DEF ReadingOf, Timed
    <2>6. Copied(r)' # rd'[r].wraps => rd'[r].overflew
      BY <1>1, <1>7, <2>1, <2>3, <2>5 DEF Behind, Flag
    <2>7. rd'[r].overflew => Copied(r)' # rd'[r].wraps \/ wraps' = rd'[r].wraps + 1
      BY <1>1, <1>2, <1>7, <2>1, <2>3, <2>5 DEF Behind, Flag
    <2>8. ReadingOf(r)'
      BY <1>2, <2>1, <2>2, <2>4, <2>6, <2>7 DEF ReadingOf, Timed
    <2> QED BY <1>2, <1>5, <1>6, <2>8, OtherReaders DEF IInv
  <1> QED BY <1>9, <1>10, <1>11

LEMMA GetUnmaskStep ==
  ASSUME IInv, NEW r \in Readers, GetUnmask(r)
  PROVE  IInv'
  <1> USE DEF GetUnmask
  <1>1. /\ TypeOK /\ rd \in [Readers -> ReadState]
        /\ UNCHANGED <<counter, of, high32, high64, isr, wraps>>
        /\ ~masked'
    BY DEF IInv, TypeOK
  <1>2. \A s \in Readers : s # r => rd'[s] = rd[s]
    BY <1>1
  <1>3. /\ rd[r].pc = "unmask" /\ rd'[r].pc = "second"
        /\ rd'[r].first = rd[r].first /\ rd'[r].age = rd[r].age
        /\ rd'[r].wraps = rd[r].wraps /\ rd'[r].overflew = rd[r].overflew
        /\ rd'[r].h32 = rd[r].h32 /\ rd'[r].h64 = rd[r].h64
    BY <1>1 DEF ReadState
  <1>4. TypeOK'
    <2>1. rd' \in [Readers -> ReadState]
      BY <1>1 DEF ReadState
    <2> QED BY <1>1, <2>1 DEF TypeOK
  <1>5. Exclusive'
    <2>1. ~IsrMasks /\ \A s \in Readers : s # r => ~Masks(s)
      <3>1. Masks(r)
        BY <1>3 DEF Masks
      <3>2. ~IsrMasks
        BY <3>1 DEF IInv, Exclusive
      <3> QED BY <3>1, <3>2 DEF IInv, Exclusive, Readers
    <2>2. ~IsrMasks' /\ \A s \in Readers : ~Masks(s)'
      BY <1>1, <1>2, <1>3, <2>1 DEF IsrMasks, Masks
    <2> QED BY <1>1, <2>2 DEF Exclusive, Readers
  <1>6. Handler'
    BY <1>1, HandlerUnchanged
  <1>7. ReadingOf(r)'
    BY <1>1, <1>3 DEF IInv, Reading, ReadingOf, Timed, Behind, Copied
  <1> QED BY <1>1, <1>2, <1>4, <1>5, <1>6, <1>7, OtherReaders DEF IInv

LEMMA GetSecondStep ==
  ASSUME IInv, NEW r \in Readers, GetSecond(r)
  PROVE  IInv'
  <1> USE DEF GetSecond
  <1>1. /\ TypeOK /\ rd \in [Readers -> ReadState]
        /\ UNCHANGED <<counter, of, high32, high64, masked, isr, wraps>>
    BY DEF IInv, TypeOK
  <1>2. \A s \in Readers : s # r => rd'[s] = rd[s]
    BY <1>1
  <1>3. rd[r].pc = "second" /\ rd'[r] = NoRead
    BY <1>1
  <1>4. TypeOK'
    <2>1. NoRead \in ReadState
      BY ClockAssumption DEF NoRead, ReadState, Low
    <2>2. rd' \in [Readers -> ReadState]
      BY <1>1, <2>1
    <2> QED BY <1>1, <2>2 DEF TypeOK
  <1>5. Exclusive'
    <2>1. \A s \in Readers : Masks(s)' <=> Masks(s)
      BY <1>2, <1>3 DEF Masks, NoRead
    <2>2. IsrMasks' = IsrMasks
      BY <1>1 DEF IsrMasks
    <2>3. "main" \in Readers /\ "irq" \in Readers
      BY DEF Readers
    <2> QED BY <1>1, <2>1, <2>2, <2>3 DEF IInv, Exclusive
  <1>6. Handler'
    BY <1>1, HandlerUnchanged
  <1>7. ReadingOf(r)'
    BY <1>3 DEF ReadingOf, Timed, NoRead
  <1> QED BY <1>1, <1>2, <1>4, <1>5, <1>6, <1>7, OtherReaders DEF IInv

LEMMA StepInv == IInv /\ [Next]_vars => IInv'
  <1> SUFFICES ASSUME IInv, [Next]_vars PROVE IInv'
    OBVIOUS
  <1>1. CASE Tick
    BY <1>1, TickStep
  <1>2. CASE IsrEnter \/ Isr
    BY <1>2, IsrStep
  <1>3. ASSUME NEW r \in Readers, GetMask(r) \/ GetOn(r)
        PROVE  IInv'
    BY <1>3, GetMaskStep, GetMaskedStep, GetUnmaskStep, GetSecondStep DEF GetOn
  <1>4. CASE UNCHANGED vars
    BY <1>4 DEF vars, IInv, TypeOK, Exclusive, Handler, Reading, ReadingOf, IsrMasks, Masks,
                Counted, Flag, Timed, Behind, Copied
  <1> QED BY <1>1, <1>2, <1>3, <1>4 DEF Next

(* The inductive invariant holds in every behaviour. *)
THEOREM Invariance == Spec => []IInv
  BY InitInv, StepInv, PTL DEF Spec

(* Every variable of the clock keeps to its type. *)
THEOREM TypeCorrect == Spec => []TypeOK
  <1>1. IInv => TypeOK
    BY DEF IInv
  <1> QED BY <1>1, Invariance, PTL

(* RTC_IRQHandler counts every wrap of the counter exactly once. *)
THEOREM CountsEveryWrap == Spec => []Accounted
  <1>1. IInv => Accounted
    BY DEF IInv, TypeOK, Handler, Accounted, Flag
  <1> QED BY <1>1, Invariance, PTL

-----------------------------------------------------------------------------
LEMMA RemainderOfSum ==
  ASSUME NEW n \in Nat, n > 0, NEW q \in Nat, NEW s \in 0 .. n - 1
  PROVE  ((q * n) + s) % n = s
  BY SMT

(* What a reading returns is the present count of wraps. *)
LEMMA ReadingExact ==
  ASSUME IInv, NEW r \in Readers, rd[r].pc = "second"
  PROVE  /\ High64(rd[r]) = wraps
         /\ High32(rd[r]) = wraps % H
  <1> DEFINE v == rd[r]
  <1>1. /\ v \in ReadState /\ v.h64 \in Nat /\ v.h32 \in 0 .. H - 1 /\ v.overflew \in BOOLEAN
        /\ v.first \in Low /\ v.age \in Nat /\ v.wraps \in Nat /\ wraps \in Nat
        /\ counter \in Low
    BY DEF IInv, TypeOK, ReadState
  <1>2. H \in Nat /\ H > 0 /\ M \in Nat /\ Latency \in Nat /\ Duration \in Nat
        /\ Latency + Duration < M
    BY ClockAssumption
  <1>3. /\ v.age <= Duration
        /\ \/ wraps = v.wraps /\ counter = v.first + v.age
           \/ wraps = v.wraps + 1 /\ counter = v.first + v.age - M
        /\ \/ Copied(r) = v.wraps
           \/ Copied(r) = v.wraps - 1 /\ v.first <= Latency
        /\ Copied(r) # v.wraps => v.overflew
        /\ v.overflew => Copied(r) # v.wraps \/ wraps = v.wraps + 1
    BY DEF IInv, Reading, ReadingOf, Timed, Behind
  <1>4. v.h64 * H \in Nat /\ Copied(r) = (v.h64 * H) + v.h32 /\ Copied(r) \in Nat
    BY <1>1, <1>2 DEF Copied
  <1> HIDE DEF v
  <1>5. Unaccounted(v) \in {0, 1} /\ Copied(r) + Unaccounted(v) = wraps
    <2>1. CASE Copied(r) = v.wraps
      <3>1. CASE wraps = v.wraps /\ counter = v.first + v.age
        <4>1. ~v.overflew /\ ~(counter < v.first)
          BY <1>1, <1>3, <2>1, <3>1 DEF Low
        <4> QED BY <1>1, <2>1, <3>1, <4>1 DEF Unaccounted
      <3>2. CASE wraps = v.wraps + 1 /\ counter = v.first + v.age - M
        <4>1. counter < v.first
          BY <1>1, <1>2, <1>3, <3>2 DEF Low
        <4> QED BY <2>1, <3>2, <4>1 DEF Unaccounted
      <3> QED BY <1>3, <3>1, <3>2
    <2>2. CASE Copied(r) = v.wraps - 1 /\ v.first <= Latency
      <3>1. v.overflew
        BY <1>1, <1>3, <2>2
      <3>2. wraps = v.wraps
        BY <1>1, <1>2, <1>3, <2>2 DEF Low
      <3> QED BY <1>1, <2>2, <3>1, <3>2 DEF Unaccounted
    <2> QED BY <1>3, <2>1, <2>2
  <1>6. High64(v) = wraps
    BY <1>1, <1>4, <1>5 DEF High64
  <1>7. High32(v) = wraps % H
    <2>1. CASE v.h32 + Unaccounted(v) \in 0 .. H - 1
      <3>1. ((v.h64 * H) + (v.h32 + Unaccounted(v))) % H = v.h32 + Unaccounted(v)
        BY <1>1, <1>2, <2>1, RemainderOfSum
      <3>2. ((0 * H) + (v.h32 + Unaccounted(v))) % H = v.h32 + Unaccounted(v)
        BY <1>2, <2>1, RemainderOfSum
      <3>3. wraps = (v.h64 * H) + (v.h32 + Unaccounted(v))
        BY <1>1, <1>4, <1>5
      <3> QED BY <1>1, <1>2, <2>1, <3>1, <3>2, <3>3 DEF High32
    <2>2. CASE v.h32 + Unaccounted(v) = H
      <3>1. ((v.h64 + 1) * H) + 0 = (v.h64 * H) + H
        BY <1>1, <1>2
      <3>2. wraps = ((v.h64 + 1) * H) + 0
        BY <1>1, <1>2, <1>4, <1>5, <2>2, <3>1
      <3>3. 0 \in 0 .. H - 1 /\ v.h64 + 1 \in Nat /\ 1 \in Nat
        BY <1>1, <1>2
      <3>4. (((v.h64 + 1) * H) + 0) % H = 0
        BY <1>2, <3>3, RemainderOfSum
      <3>5. ((1 * H) + 0) % H = 0
        BY <1>2, <3>3, RemainderOfSum
      <3>6. (1 * H) + 0 = H
        BY <1>2
      <3> QED BY <2>2, <3>2, <3>4, <3>5, <3>6 DEF High32
    <2> QED BY <1>1, <1>2, <1>5, <2>1, <2>2
  <1> QED BY <1>6, <1>7 DEF v

(* rtc_get64 and rtc_get32 return the tick count of their second reading,   *)
(* whatever comes between their readings.                                   *)
THEOREM GetsExactly == Spec => []ReadExact
  <1>1. IInv => ReadExact
    BY ReadingExact DEF ReadExact
  <1> QED BY <1>1, Invariance, PTL

-----------------------------------------------------------------------------
(* The tick count, as rtc_get64 puts it together: high part and counter. *)
Ticks == (wraps * M) + counter
Returned(r) == (High64(rd[r]) * M) + counter

LEMMA TicksAdvance == IInv /\ [Next]_vars => Ticks' = Ticks + (IF Tick THEN 1 ELSE 0)
  <1> SUFFICES ASSUME IInv, [Next]_vars
      PROVE  Ticks' = Ticks + (IF Tick THEN 1 ELSE 0)
    OBVIOUS
  <1>1. wraps \in Nat /\ counter \in Nat /\ M \in Nat /\ Ticks \in Nat
    BY ClockAssumption DEF IInv, TypeOK, Low, Ticks
  <1>2. CASE Tick
    <2>1. CASE counter = M - 1
      <3>1. wraps' = wraps + 1 /\ counter' = 0
        BY <1>2, <2>1 DEF Tick
      <3>2. (wraps + 1) * M = (wraps * M) + M
        BY <1>1
      <3> QED BY <1>1, <1>2, <2>1, <3>1, <3>2 DEF Ticks
    <2>2. CASE counter # M - 1
      <3>1. wraps' = wraps /\ counter' = counter + 1
        BY <1>2, <2>2 DEF Tick
      <3> QED BY <1>1, <1>2, <3>1 DEF Ticks
    <2> QED BY <2>1, <2>2
  <1>3. CASE ~Tick
    <2>1. UNCHANGED <<counter, wraps>>
      BY <1>3 DEF Next, IsrEnter, Isr, IsrMask, IsrCarry, IsrIncrement, IsrClear, IsrUnmask,
         GetMask, GetOn, GetFirst, GetHigh, GetFlag, GetUnmask, GetSecond, vars
    <2>2. Ticks' = Ticks
      BY <2>1 DEF Ticks
    <2> QED BY <1>1, <1>3, <2>2
  <1> QED BY <1>2, <1>3

(* What any context's rtc_get64 returns is the number of ticks since the    *)
(* setup, which moves by one at each tick of the counter and by no step of  *)
(* the program: of two readings in two contexts, the one that is put        *)
(* together later is never smaller, whichever interrupts the other.         *)
ReturnsTicks == \A r \in Readers : rd[r].pc = "second" => Returned(r) = Ticks

THEOREM NeverGoesBack ==
  Spec => []ReturnsTicks /\ [][Ticks' = Ticks + (IF Tick THEN 1 ELSE 0)]_vars
  <1>1. IInv => ReturnsTicks
    BY ReadingExact DEF ReturnsTicks, Returned, Ticks
  <1>2. IInv /\ [Next]_vars => [Ticks' = Ticks + (IF Tick THEN 1 ELSE 0)]_vars
    BY TicksAdvance
  <1> QED BY <1>1, <1>2, Invariance, PTL DEF Spec
=============================================================================
