---------------------------- MODULE EncMiiProofs ----------------------------
(***************************************************************************)
(* Proofs about EncMii: for every set of LED configurations, everything    *)
(* that the PHY may hold when the driver starts, and whatever enc_RCR may  *)
(* get in place of a byte of MISTAT or MIRD.                               *)
(***************************************************************************)
EXTENDS EncMii, TLAPS

(* pc in enc_MII_read and enc_MII_write, and at the write of the set-up. *)
Reading == {"start", "busy", "data", "clear"}
Writing == {"low", "high"}
SetUp == pc = "wait" /\ reg = PHCON1

(* Where the driver is in a call, and what the chip does meanwhile. *)
Course ==
  /\ busy = "read" => pc \in {"busy", "data"} \/ SetUp
  /\ busy = "write" => pc \in {"main", "address"} \/ SetUp
  /\ pc \in Reading \cup Writing => regadr = reg
  /\ pc \in {"address"} \cup Reading => reg \in {PHSTAT1, PHLCON}
  /\ pc = "report" => reg = PHSTAT1
  /\ pc \in {"wait"} \cup Writing => reg \in {PHCON1, PHLCON}
  /\ SetUp => ~up

(* Only what a restart has left can find MIIRD set where a reading starts. *)
Flag ==
  /\ pc \in {"busy", "data", "clear"} => miird
  /\ pc = "start" => reads # 0
  /\ miird => pc \in {"busy", "data", "clear"} \/ reads = 0 \/ (reads = 1 /\ pc = "start")

(* What the driver has read, and what it is going to write. *)
Data ==
  /\ pc = "start" => ~fresh
  /\ pc \in {"busy", "data"} => (busy = "read" => ~fresh) /\ (busy = "no" => fresh \/ reads = 1)
  /\ pc \in {"clear", "report"} => fresh \/ reads = 1
  /\ pc \in {"busy", "data", "clear", "wait"} \cup Writing /\ reg = PHLCON /\ fresh => mird = phy[PHLCON]
  /\ pc \in {"clear", "report"} /\ ~misread => result = mird
  /\ pc \in {"wait"} \cup Writing /\ reg = PHLCON =>
       (~misread => result = mird) /\ val = Lit(result)
  /\ pc = "high" => wrl = LowByte(val)

(* A write that the chip is at is the last call's. *)
Pending ==
  busy = "write" =>
    /\ regadr \in {PHCON1, PHLCON}
    /\ want = [phy EXCEPT ![regadr] = out]

(* LLSTAT is set only while the link is up. *)
Latched == latch => link

IInv == TypeOK /\ Course /\ Flag /\ Data /\ Pending /\ WritesArrive /\ Latched

-----------------------------------------------------------------------------
(* Changing a LED changes one of the four groups. *)
LEMMA LitType ==
  ASSUME NEW w \in Word, led \in [offset : {LEDA, LEDB}, config : 0 .. 15]
  PROVE  Lit(w) \in Word
<1>1. led.offset \div 4 \in 0 .. 3
  BY DEF LEDA, LEDB
<1>2. led.config \in 0 .. 15
  OBVIOUS
<1> QED
  BY <1>1, <1>2 DEF Lit, Word

(* Whatever is read is a word. *)
LEMMA PhyValueType ==
  ASSUME TypeOK, NEW r \in {PHCON1, PHSTAT1, PHLCON}
  PROVE  PhyValue(r) \in Word
<1>1. Zero \in Word /\ [Zero EXCEPT ![0] = IF latch THEN 4 ELSE 0] \in Word
  BY DEF Zero, Word
<1>2. CASE r \in {PHCON1, PHLCON}
  BY <1>2 DEF PhyValue, TypeOK, PHCON1, PHLCON, PHSTAT1, PHSTAT2
<1>3. CASE r = PHSTAT1
  <2>1. r \notin DOMAIN phy
    BY <1>3 DEF TypeOK, PHCON1, PHLCON, PHSTAT1
  <2> QED
    BY <1>1, <1>3, <2>1 DEF PhyValue, PHSTAT1, PHSTAT2
<1> QED
  BY <1>2, <1>3

(* What the PHY answers to a reading of PHSTAT1. *)
LEMMA StatusRead ==
  ASSUME TypeOK
  PROVE  Linked(PhyValue(PHSTAT1)) <=> latch
<1>1. PhyValue(PHSTAT1) = [Zero EXCEPT ![0] = IF latch THEN 4 ELSE 0]
  <2>1. PHSTAT1 \notin DOMAIN phy
    BY DEF TypeOK, PHCON1, PHLCON, PHSTAT1
  <2> QED
    BY <2>1 DEF PhyValue, PHSTAT1, PHSTAT2
<1>2. PhyValue(PHSTAT1)[0] = IF latch THEN 4 ELSE 0
  BY <1>1 DEF Zero
<1>3. CASE latch
  BY <1>2, <1>3 DEF Linked, Polled
<1>4. CASE ~latch
  BY <1>2, <1>4 DEF Linked, Polled
<1> QED
  BY <1>3, <1>4

(* A word is its two bytes, and any two bytes are a word. *)
LEMMA JoinType ==
  ASSUME NEW high \in Byte, NEW low \in Byte
  PROVE  Join(high, low) \in Word
<1>1. \A i \in 2 .. 3 : i - 2 \in 0 .. 1
  OBVIOUS
<1>2. \A i \in 0 .. 3 : (IF i \in 0 .. 1 THEN low[i] ELSE high[i - 2]) \in 0 .. 15
  BY <1>1 DEF Byte
<1> QED
  BY <1>2 DEF Join, Word

LEMMA BytesType ==
  ASSUME NEW w \in Word
  PROVE  /\ LowByte(w) \in Byte /\ HighByte(w) \in Byte
         /\ Join(HighByte(w), LowByte(w)) = w
<1>1. LowByte(w) \in Byte
  BY DEF LowByte, Byte, Word
<1>2. HighByte(w) \in Byte
  BY DEF HighByte, Byte, Word
<1>3. \A i \in 0 .. 3 : (IF i \in 0 .. 1 THEN LowByte(w)[i] ELSE HighByte(w)[i - 2]) = w[i]
  BY DEF LowByte, HighByte
<1>4. Join(HighByte(w), LowByte(w)) = w
  BY <1>3 DEF Join, Word
<1> QED
  BY <1>1, <1>2, <1>4

-----------------------------------------------------------------------------
LEMMA InitIInv == Init => IInv
<1> SUFFICES ASSUME Init PROVE IInv
  OBVIOUS
<1> USE DEF Init
<1>1. Zero \in Word /\ [Zero EXCEPT ![2] = 1] \in Word
  BY DEF Zero, Word
<1>2. /\ miird \in BOOLEAN /\ fresh \in BOOLEAN /\ misread \in BOOLEAN
      /\ link \in BOOLEAN /\ latch \in BOOLEAN /\ up \in BOOLEAN
  BY Zenon
<1>3. /\ wrl \in Byte
      /\ led \in [offset : {LEDA, LEDB}, config : 0 .. 15]
  BY DEF Byte
<1>4. TypeOK
  BY <1>1, <1>2, <1>3, MiiAssumption DEF TypeOK
<1>5. Course /\ Flag /\ Data /\ Pending /\ WritesArrive /\ Latched
  BY DEF Course, Flag, Data, Pending, WritesArrive, Latched, Reading, Writing, SetUp,
     PHCON1, PHLCON
<1> QED
  BY <1>4, <1>5 DEF IInv

(* The chip is at a reading only in enc_MII_read and, after a restart, where *)
(* the set-up is about to write to PHCON1.                                   *)
LEMMA PhyReadStep == IInv /\ PhyRead => IInv'
<1> SUFFICES ASSUME IInv, PhyRead PROVE IInv'
  OBVIOUS
<1> USE DEF IInv, PhyRead, drvVars
<1>1. (pc \in {"busy", "data"} /\ regadr = reg) \/ SetUp
  BY DEF Course, Reading
<1>2. mird' \in Word
  BY PhyValueType DEF TypeOK
<1>3. latch' \in BOOLEAN /\ fresh' \in BOOLEAN
  BY Zenon DEF TypeOK
<1>4. TypeOK'
  BY <1>2, <1>3 DEF TypeOK
<1>5. pc \in {"busy", "data"} => fresh' /\ (reg = PHLCON => mird' = phy[PHLCON])
  <2>1. SUFFICES ASSUME pc \in {"busy", "data"}
                 PROVE  fresh' /\ (reg = PHLCON => mird' = phy[PHLCON])
    OBVIOUS
  <2>2. regadr = reg
    BY <1>1, <2>1 DEF SetUp
  <2>3. reg = PHLCON => PhyValue(reg) = phy[PHLCON]
    BY DEF PhyValue, TypeOK, PHCON1, PHLCON, PHSTAT1, PHSTAT2
  <2>4. fresh'
    BY <2>2, Zenon
  <2>5. mird' = PhyValue(reg)
    BY <2>2
  <2> QED
    BY <2>3, <2>4, <2>5
<1>6. Data'
  BY <1>1, <1>5 DEF Data, Writing, SetUp, PHCON1, PHLCON
<1>7. (Course /\ Flag /\ Pending /\ WritesArrive)'
  BY <1>1 DEF Course, Flag, Pending, WritesArrive, Reading, Writing, SetUp
<1>8. Latched'
  BY DEF Latched
<1> QED
  BY <1>4, <1>6, <1>7, <1>8

LEMMA PhyWriteStep == IInv /\ PhyWrite => IInv'
<1> SUFFICES ASSUME IInv, PhyWrite PROVE IInv'
  OBVIOUS
<1> USE DEF IInv, PhyWrite, drvVars, readVars
<1>1. DOMAIN phy = {PHCON1, PHLCON} /\ regadr \in {PHCON1, PHLCON}
  BY DEF Pending, TypeOK
<1>2. phy' = want
  BY <1>1 DEF Pending, TypeOK
<1>3. TypeOK'
  BY <1>2 DEF TypeOK
<1>4. pc \in {"main", "address"} \/ SetUp
  BY DEF Course
<1>5. (Course /\ Flag /\ Latched)'
  BY DEF Course, Flag, Latched, SetUp
<1>6. Data'
  BY <1>4 DEF Data, Writing, SetUp, PHCON1, PHLCON
<1> QED
  BY <1>2, <1>3, <1>5, <1>6 DEF Pending, WritesArrive

LEMMA LinkStep == IInv /\ (LinkGoesUp \/ LinkLost) => IInv'
<1> SUFFICES ASSUME IInv, LinkGoesUp \/ LinkLost PROVE IInv'
  OBVIOUS
<1> USE DEF IInv, LinkGoesUp, LinkLost, chipVars, drvVars, readVars
<1>1. link' \in BOOLEAN /\ latch' \in BOOLEAN
  BY Zenon DEF TypeOK
<1>2. TypeOK'
  BY <1>1 DEF TypeOK
<1>3. (Course /\ Flag /\ Data /\ Pending /\ WritesArrive)'
  BY DEF Course, Flag, Data, Pending, WritesArrive, SetUp, Lit
<1>4. Latched'
  BY DEF Latched
<1> QED
  BY <1>2, <1>3, <1>4

LEMMA PollStep == IInv /\ Poll => IInv'
<1> SUFFICES ASSUME IInv, Poll PROVE IInv'
  OBVIOUS
<1> USE DEF IInv, Poll, chipVars, phyVars, readVars
<1>1. reg' = PHSTAT1
  BY DEF Polled
<1>2. TypeOK'
  BY <1>1 DEF TypeOK
<1>3. (Course /\ Flag /\ Data /\ Pending /\ WritesArrive /\ Latched)'
  BY <1>1 DEF Course, Flag, Data, Pending, WritesArrive, Latched, Reading, Writing, SetUp
<1> QED
  BY <1>2, <1>3

LEMMA LedSetStep ==
  ASSUME IInv, NEW offset \in {LEDA, LEDB}, NEW config \in Configs, LedSet(offset, config)
  PROVE  IInv'
<1> USE DEF IInv, LedSet, chipVars, phyVars, readVars
<1>1. led' \in [offset : {LEDA, LEDB}, config : 0 .. 15]
  BY MiiAssumption
<1>2. TypeOK'
  BY <1>1 DEF TypeOK
<1>3. (Course /\ Flag /\ Data /\ Pending /\ WritesArrive /\ Latched)'
  BY DEF Course, Flag, Data, Pending, WritesArrive, Latched, Reading, Writing, SetUp
<1> QED
  BY <1>2, <1>3

LEMMA ReportStep == IInv /\ Report => IInv'
<1> SUFFICES ASSUME IInv, Report PROVE IInv'
  OBVIOUS
<1> USE DEF IInv, Report, chipVars, phyVars, drvVars, readVars
<1>1. up' \in BOOLEAN
  BY Zenon DEF Linked
<1>2. TypeOK'
  BY <1>1 DEF TypeOK
<1>3. (Course /\ Flag /\ Data /\ Pending /\ WritesArrive /\ Latched)'
  BY DEF Course, Flag, Data, Pending, WritesArrive, Latched, Reading, Writing, SetUp
<1> QED
  BY <1>2, <1>3

(* Once the commands that select the bank are through, the chip is done. *)
LEMMA DoneIsIdle == TypeOK /\ DoneBy(PageCommands) => busy = "no"
<1> QED
  BY MiiAssumption DEF DoneBy, PageCommands, TypeOK

LEMMA AddressStep == IInv /\ Address => IInv'
<1> SUFFICES ASSUME IInv, Address PROVE IInv'
  OBVIOUS
<1> USE DEF IInv, Address, phyVars, drvVars
<1>1. busy = "no"
  BY DoneIsIdle
<1>2. fresh' \in BOOLEAN /\ misread' \in BOOLEAN
  BY Zenon
<1>3. TypeOK'
  BY <1>2 DEF TypeOK, Course
<1>4. (Course /\ Flag /\ Data /\ Pending /\ WritesArrive /\ Latched)'
  BY <1>1 DEF Course, Flag, Data, Pending, WritesArrive, Latched, Reading, Writing, SetUp
<1> QED
  BY <1>3, <1>4

LEMMA StartStep == IInv /\ Start => IInv'
<1> SUFFICES ASSUME IInv, Start PROVE IInv'
  OBVIOUS
<1> USE DEF IInv, Start, phyVars, drvVars, readVars
<1>1. busy = "no" /\ busy' \in {"no", "read"} /\ miird' = TRUE
  BY DEF Course, SetUp, TypeOK
<1>2. miird' \in BOOLEAN
  BY Zenon
<1>3. TypeOK'
  BY <1>1, <1>2 DEF TypeOK
<1>4. busy' = "no" => reads = 1
  BY <1>1 DEF Flag, TypeOK
<1>5. (Course /\ Flag /\ Data /\ Pending /\ WritesArrive /\ Latched)'
  BY <1>1, <1>4 DEF Course, Flag, Data, Pending, WritesArrive, Latched, Reading, Writing, SetUp
<1> QED
  BY <1>3, <1>5

LEMMA ReadyStep == IInv /\ Ready => IInv'
<1> SUFFICES ASSUME IInv, Ready PROVE IInv'
  OBVIOUS
<1> USE DEF IInv, Ready, chipVars, phyVars, drvVars, readVars
<1>1. TypeOK'
  BY DEF TypeOK
<1>2. (Course /\ Flag /\ Data /\ Pending /\ WritesArrive /\ Latched)'
  BY DEF Course, Flag, Data, Pending, WritesArrive, Latched, Reading, Writing, SetUp
<1> QED
  BY <1>1, <1>2

LEMMA ReadDataStep == IInv /\ ReadData => IInv'
<1> SUFFICES ASSUME IInv, ReadData PROVE IInv'
  OBVIOUS
<1> USE DEF IInv, ReadData, chipVars, phyVars
<1>1. busy = "no"
  BY DoneIsIdle
<1>2. result' \in Word
  <2>1. Answers(HighByte(mird)) \subseteq Byte /\ Answers(LowByte(mird)) \subseteq Byte
    BY BytesType, MiiAssumption DEF Answers, TypeOK
  <2> QED
    BY <2>1, JoinType
<1>3. misread' \in BOOLEAN /\ (~misread' => result' = mird)
  BY Zenon
<1>4. TypeOK'
  BY <1>2, <1>3 DEF TypeOK
<1>5. (Course /\ Flag /\ Data /\ Pending /\ WritesArrive /\ Latched)'
  BY <1>1, <1>3
     DEF Course, Flag, Data, Pending, WritesArrive, Latched, Reading, Writing, SetUp
<1> QED
  BY <1>4, <1>5

LEMMA ClearStep == IInv /\ Clear => IInv'
<1> SUFFICES ASSUME IInv, Clear PROVE IInv'
  OBVIOUS
<1> USE DEF IInv, Clear, phyVars, readVars
<1>1. miird' \in BOOLEAN
  BY Zenon
<1>2. reg \in {PHSTAT1, PHLCON} /\ PHLCON # PHCON1 /\ PHLCON # PHSTAT1
  BY DEF Course, Reading, PHLCON, PHCON1, PHSTAT1
<1>3. CASE reg = PHLCON
  <2>1. val' = Lit(result) /\ pc' = "wait" /\ Lit(result)' = Lit(result)
    BY <1>3 DEF Lit
  <2>2. val' \in Word
    BY <2>1, LitType DEF TypeOK
  <2>3. TypeOK'
    BY <2>1, <2>2, <1>1 DEF TypeOK
  <2>4. (Course /\ Flag /\ Data /\ Pending /\ WritesArrive /\ Latched)'
    BY <1>2, <1>3, <2>1
       DEF Course, Flag, Data, Pending, WritesArrive, Latched, Reading, Writing, SetUp
  <2> QED
    BY <2>3, <2>4
<1>4. CASE reg # PHLCON
  <2>1. val' = val /\ pc' = "report"
    BY <1>4
  <2>2. TypeOK'
    BY <2>1, <1>1 DEF TypeOK
  <2>3. (Course /\ Flag /\ Data /\ Pending /\ WritesArrive /\ Latched)'
    BY <1>2, <1>4, <2>1
       DEF Course, Flag, Data, Pending, WritesArrive, Latched, Reading, Writing, SetUp
  <2> QED
    BY <2>2, <2>3
<1> QED
  BY <1>3, <1>4

LEMMA WaitAndAddressStep == IInv /\ WaitAndAddress => IInv'
<1> SUFFICES ASSUME IInv, WaitAndAddress PROVE IInv'
  OBVIOUS
<1> USE DEF IInv, WaitAndAddress, phyVars, drvVars, readVars
<1>1. busy = "no"
  BY DoneIsIdle
<1>2. TypeOK'
  BY DEF TypeOK, Course
<1>3. (Course /\ Flag /\ Data /\ Pending /\ WritesArrive /\ Latched)'
  BY <1>1
     DEF Course, Flag, Data, Pending, WritesArrive, Latched, Reading, Writing, SetUp, Lit
<1> QED
  BY <1>2, <1>3

LEMMA WriteLowStep == IInv /\ WriteLow => IInv'
<1> SUFFICES ASSUME IInv, WriteLow PROVE IInv'
  OBVIOUS
<1> USE DEF IInv, WriteLow, phyVars, drvVars, readVars
<1>1. wrl' \in Byte
  BY BytesType DEF TypeOK
<1>2. TypeOK'
  BY <1>1 DEF TypeOK
<1>3. (Course /\ Flag /\ Data /\ Pending /\ WritesArrive /\ Latched)'
  BY DEF Course, Flag, Data, Pending, WritesArrive, Latched, Reading, Writing, SetUp, Lit
<1> QED
  BY <1>2, <1>3

(* What goes to the PHY is what is wanted of it. *)
LEMMA WriteHighStep == IInv /\ WriteHigh => IInv'
<1> SUFFICES ASSUME IInv, WriteHigh PROVE IInv'
  OBVIOUS
<1> USE DEF IInv, WriteHigh, phyVars, drvVars, readVars
<1>1. /\ reg \in {PHCON1, PHLCON} /\ regadr = reg /\ busy = "no"
      /\ wrl = LowByte(val) /\ val \in Word
  BY DEF Course, Data, Writing, SetUp, TypeOK
<1>2. phy = want
  BY <1>1 DEF WritesArrive
<1>3. Wanted = val
  <2>1. reg = PHLCON => val = Lit(result)
    BY DEF Data, Writing
  <2>2. reg = PHLCON /\ fresh /\ ~misread => result = want[PHLCON]
    BY <1>2 DEF Data, Writing
  <2> QED
    BY <2>1, <2>2 DEF Wanted
<1>4. out' = val
  BY <1>1, BytesType
<1>5. want' = [phy EXCEPT ![reg] = val]
  BY <1>2, <1>3
<1>6. want' \in [{PHCON1, PHLCON} -> Word]
  BY <1>1, <1>5 DEF TypeOK
<1>7. TypeOK'
  BY <1>1, <1>4, <1>6 DEF TypeOK
<1>8. (Course /\ Flag /\ Data /\ Latched)'
  BY <1>1 DEF Course, Flag, Data, Latched, Reading, Writing, SetUp
<1>9. (Pending /\ WritesArrive)'
  BY <1>1, <1>4, <1>5 DEF Pending, WritesArrive
<1> QED
  BY <1>7, <1>8, <1>9

LEMMA RestartStep == IInv /\ Restart => IInv'
<1> SUFFICES ASSUME IInv, Restart PROVE IInv'
  OBVIOUS
<1> USE DEF IInv, Restart, chipVars, phyVars
<1>1. Zero \in Word /\ [Zero EXCEPT ![2] = 1] \in Word
  BY DEF Zero, Word
<1>2. fresh' \in BOOLEAN /\ misread' \in BOOLEAN /\ up' \in BOOLEAN
  BY Zenon
<1>3. led' \in [offset : {LEDA, LEDB}, config : 0 .. 15]
  OBVIOUS
<1>4. TypeOK'
  BY <1>1, <1>2, <1>3 DEF TypeOK
<1>5. (Course /\ Flag /\ Data /\ Pending /\ WritesArrive /\ Latched)'
  BY DEF Course, Flag, Data, Pending, WritesArrive, Latched, Reading, Writing, SetUp,
     PHCON1, PHLCON
<1> QED
  BY <1>4, <1>5

LEMMA StutterStep == IInv /\ UNCHANGED vars => IInv'
<1> SUFFICES ASSUME IInv, UNCHANGED vars PROVE IInv'
  OBVIOUS
<1> USE DEF IInv, vars, chipVars, phyVars, drvVars, readVars
<1>1. TypeOK'
  BY DEF TypeOK
<1>2. (Course /\ Flag /\ Data /\ Pending /\ WritesArrive /\ Latched)'
  BY DEF Course, Flag, Data, Pending, WritesArrive, Latched, SetUp, Lit
<1> QED
  BY <1>1, <1>2

LEMMA StepIInv == IInv /\ [Next]_vars => IInv'
<1> SUFFICES ASSUME IInv, [Next]_vars PROVE IInv'
  OBVIOUS
<1>1. CASE \E offset \in {LEDA, LEDB}, config \in Configs : LedSet(offset, config)
  BY <1>1, LedSetStep
<1>2. CASE Driver
  BY <1>2, ReportStep, AddressStep, StartStep, ReadyStep, ReadDataStep, ClearStep,
     WaitAndAddressStep, WriteLowStep, WriteHighStep DEF Driver
<1> QED
  BY <1>1, <1>2, PollStep, PhyReadStep, PhyWriteStep, LinkStep, RestartStep, StutterStep
     DEF Next

LEMMA AlwaysIInv == Spec => []IInv
<1> QED
  BY InitIInv, StepIInv, PTL DEF Spec

(* MII registers, PHY and locals keep to their types, whatever the PHY held. *)
THEOREM TypeCorrect == Spec => []TypeOK
<1>1. IInv => TypeOK
  BY DEF IInv
<1> QED
  BY <1>1, AlwaysIInv, PTL

(* What enc_MII_read takes from MIRD is what its register held during the    *)
(* call, however often BUSY is misread and wherever the processor restarts,  *)
(* except in the first call after a restart.                                 *)
THEOREM ReadsAreInWindow == Spec => []DataInWindow
<1>1. IInv => DataInWindow
  BY DEF IInv, Data, DataInWindow
<1> QED
  BY <1>1, AlwaysIInv, PTL

(* enc_MII_write and enc_LED_set change what they are asked to, and no more, *)
(* also when they come upon a chip that a restart has left at work.          *)
THEOREM WritesAreExact == Spec => []WritesArrive
<1>1. IInv => WritesArrive
  BY DEF IInv
<1> QED
  BY <1>1, AlwaysIInv, PTL

-----------------------------------------------------------------------------
(* One step of LossAccounted. *)
Accounts ==
  /\ ~OnRecord => (OnRecord' <=> LinkLost)
  /\ OnRecord /\ ~OnRecord' => ~up' \/ (Report /\ misread)
  /\ Report /\ ~OnRecord => up' \/ misread \/ reads = 1

(* The reading takes over from LLSTAT, which it sets again if it can; where  *)
(* it is one that was begun before a restart, the link is taken to be down.  *)
LEMMA PhyReadAccounts ==
  ASSUME IInv, PhyRead
  PROVE  /\ ~OnRecord => ~OnRecord'
         /\ OnRecord /\ ~OnRecord' => ~up'
<1> USE DEF IInv
<1>1. latch => latch'
  BY DEF PhyRead, Latched
<1>2. pc' = pc /\ reg' = reg /\ up' = up
  BY DEF PhyRead, drvVars
<1>3. CASE SetUp
  <2>1. ~Found /\ ~Found' /\ ~up
    BY <1>2, <1>3 DEF Found, SetUp, Course
  <2> QED
    BY <1>1, <1>2, <2>1 DEF OnRecord
<1>4. CASE ~SetUp
  <2>1. pc \in {"busy", "data"} /\ regadr = reg
    BY <1>4 DEF Course, Reading, PhyRead
  <2>2. ~fresh /\ ~Found
    BY <2>1 DEF Data, PhyRead, Found
  <2>3. fresh'
    <3>1. fresh' = (regadr = reg)
      BY DEF PhyRead
    <3> QED
      BY <2>1, <3>1
  <2>4. CASE reg = PHSTAT1
    <3>1. mird' = PhyValue(PHSTAT1)
      BY <2>1, <2>4 DEF PhyRead
    <3>2. Linked(mird') <=> latch
      BY <3>1, StatusRead
    <3>3. Found' <=> ~latch
      BY <1>2, <2>1, <2>3, <2>4, <3>2 DEF Found, Linked
    <3> QED
      BY <1>1, <2>2, <3>3 DEF OnRecord
  <2>5. CASE reg # PHSTAT1
    <3>1. latch' = latch
      BY <2>1, <2>5 DEF PhyRead
    <3>2. ~Found'
      BY <1>2, <2>5 DEF Found
    <3> QED
      BY <2>2, <3>1, <3>2 DEF OnRecord
  <2> QED
    BY <2>4, <2>5
<1> QED
  BY <1>3, <1>4

(* The report is what the reading has found, if that is what was read. *)
LEMMA ReportAccounts ==
  ASSUME IInv, Report
  PROVE  /\ ~OnRecord => ~OnRecord'
         /\ OnRecord /\ ~OnRecord' => ~up' \/ misread
         /\ ~OnRecord => up' \/ misread \/ reads = 1
<1>1. pc = "report" /\ reg = PHSTAT1
  BY DEF Report, IInv, Course
<1>2. (fresh \/ reads = 1) /\ (~misread => result = mird)
  BY <1>1 DEF IInv, Data
<1>3. up' <=> Linked(result)
  BY Zenon DEF Report
<1>4. Found <=> fresh /\ ~Linked(mird)
  BY <1>1 DEF Found
<1>5. ~Found' /\ latch' = latch
  BY DEF Report, Found, phyVars
<1> QED
  BY <1>2, <1>3, <1>4, <1>5 DEF OnRecord

(* In between, the finding stays in MIRD. *)
LEMMA OthersAccount ==
  ASSUME IInv,
         \/ Poll \/ \E offset \in {LEDA, LEDB}, config \in Configs : LedSet(offset, config)
         \/ Address \/ Start \/ Ready \/ ReadData \/ Clear
         \/ WaitAndAddress \/ WriteLow \/ WriteHigh
         \/ PhyWrite \/ LinkGoesUp \/ UNCHANGED vars
  PROVE  OnRecord' <=> OnRecord
<1>1. latch' = latch
  BY DEF Poll, LedSet, Address, Start, Ready, ReadData, Clear, WaitAndAddress, WriteLow,
     WriteHigh, PhyWrite, LinkGoesUp, vars, phyVars
<1>2. Found' <=> Found
  <2>1. CASE Ready
    BY <2>1 DEF Ready, Found, Linked, chipVars, drvVars, readVars
  <2>2. CASE ReadData
    BY <2>2 DEF ReadData, Found, Linked, chipVars
  <2>3. CASE Clear
    <3>1. reg \in {PHSTAT1, PHLCON} /\ PHSTAT1 # PHLCON
      BY <2>3 DEF Clear, IInv, Course, Reading, PHSTAT1, PHLCON
    <3> QED
      BY <2>3, <3>1 DEF Clear, Found, Linked, readVars
  <2>4. CASE LinkGoesUp \/ UNCHANGED vars
    BY <2>4 DEF LinkGoesUp, vars, chipVars, drvVars, readVars, Found, Linked
  <2>5. CASE PhyWrite
    <3>1. pc \in {"main", "address", "wait"} /\ pc' = pc
      BY <2>5 DEF PhyWrite, IInv, Course, SetUp
    <3> QED
      BY <3>1 DEF Found
  <2>6. CASE Start
    <3>1. pc = "start" /\ ~fresh /\ fresh' = fresh
      BY <2>6 DEF Start, IInv, Data, readVars
    <3> QED
      BY <3>1 DEF Found
  <2>7. CASE \/ Poll \/ \E offset \in {LEDA, LEDB}, config \in Configs : LedSet(offset, config)
             \/ Address \/ WaitAndAddress \/ WriteLow \/ WriteHigh
    <3>1. /\ pc \notin {"busy", "data", "clear", "report"}
          /\ pc' \notin {"busy", "data", "clear", "report"}
      BY <2>7 DEF Poll, LedSet, Address, WaitAndAddress, WriteLow, WriteHigh
    <3> QED
      BY <3>1 DEF Found
  <2> QED
    BY <2>1, <2>2, <2>3, <2>4, <2>5, <2>6, <2>7
<1> QED
  BY <1>1, <1>2 DEF OnRecord

LEMMA StepAccounts == IInv /\ [Next]_vars => Accounts
<1> SUFFICES ASSUME IInv, [Next]_vars PROVE Accounts
  OBVIOUS
<1>1. CASE LinkLost
  <2>1. OnRecord' /\ pc' = pc
    BY <1>1 DEF LinkLost, OnRecord
  <2>2. ~Report
    BY <2>1 DEF Report
  <2> QED
    BY <1>1, <2>1, <2>2 DEF Accounts
<1>2. CASE Report
  <2>1. ~LinkLost
    BY <1>2 DEF Report, LinkLost
  <2> QED
    BY <1>2, <2>1, ReportAccounts DEF Accounts
<1>3. CASE Restart
  <2>1. ~Found' /\ latch' = latch /\ ~up'
    BY <1>3 DEF Restart, Found, phyVars
  <2>2. link' = link
    BY <1>3 DEF Restart, phyVars
  <2>3. ~LinkLost /\ ~Report
    BY <1>3, <2>2 DEF Restart, LinkLost, Report
  <2> QED
    BY <2>1, <2>3 DEF Accounts, OnRecord
<1>4. CASE PhyRead
  <2>1. ~LinkLost /\ ~Report
    BY <1>4 DEF PhyRead, LinkLost, Report
  <2> QED
    BY <1>4, <2>1, PhyReadAccounts DEF Accounts
<1>5. CASE ~LinkLost /\ ~Report /\ ~Restart /\ ~PhyRead
  <2>1. OnRecord' <=> OnRecord
    BY <1>5, OthersAccount DEF Next, Driver
  <2> QED
    BY <1>5, <2>1 DEF Accounts
<1> QED
  BY <1>1, <1>2, <1>3, <1>4, <1>5

(* No loss of the link is swallowed, however short it is and whatever the     *)
(* poll is doing when it happens, and no poll reports one that has not        *)
(* happened since, but for a byte that enc_RCR has got in place of that of    *)
(* MIRD and for the first reading after a restart.                            *)
THEOREM LossesAreAccounted == Spec => LossAccounted
<1>1. IInv /\ [Next]_vars => [Accounts]_vars
  BY StepAccounts
<1> QED
  BY <1>1, AlwaysIInv, PTL DEF Spec, LossAccounted, Accounts

(* While the link is down a loss is on record, in LLSTAT or in a reading that *)
(* has found it, whatever was polled, written or restarted meanwhile.         *)
THEOREM DownIsOnRecord == Spec => [](~link => OnRecord)
<1>1. IInv => (~link => OnRecord)
  BY DEF IInv, Latched, OnRecord
<1> QED
  BY <1>1, AlwaysIInv, PTL
=============================================================================
