-------------------------- MODULE BurtcRegsProofs --------------------------
(***************************************************************************)
(* Proofs about BurtcRegs, for registers of every width, every checksum    *)
(* and every initial contents: a store that returns is durable whatever    *)
(* the length of the value, and a store of one word is atomic.             *)
(***************************************************************************)
EXTENDS BurtcRegs, TLAPS

Registers == 0 .. 2 * N + 1

(* What burtc_regs_store has done so far. *)
Written ==
  /\ pc = "write" =>
       /\ \A i \in 1 .. done : reg[base + i - 1] = new[i]
       /\ base = Second => Valid(First)
  /\ pc = "destroy" =>
       base = Second /\ Valid(First) /\ Valid(Second) /\ Data(Second) = new
  /\ pc = "return" => Stored = new

IInv == TypeOK /\ Written

(* What a power loss finds while a value of one word is written. *)
Kept ==
  /\ pc = "write" /\ base = Second => Stored = before
  /\ pc = "write" /\ base = First =>
       IF done = 0 THEN ~Valid(First) /\ Stored = before ELSE OldOrNew
  /\ pc = "destroy" => Stored = before

-----------------------------------------------------------------------------
LEMMA DataType ==
  ASSUME TypeOK, NEW b \in {First, Second}
  PROVE  /\ Data(b) \in Value
         /\ \A k \in 1 .. N : b + k - 1 \in Registers /\ Data(b)[k] = reg[b + k - 1]
         /\ b + N \in Registers
  BY RegsAssumption DEF TypeOK, Data, Value, First, Second, Registers

LEMMA StoredType == TypeOK => Stored \in Value \cup {NoValue}
  <1> SUFFICES ASSUME TypeOK PROVE Stored \in Value \cup {NoValue}
    OBVIOUS
  <1>1. Data(First) \in Value /\ Data(Second) \in Value
    BY DataType
  <1> QED BY <1>1 DEF Stored

(* A write elsewhere leaves a copy and its checksum alone. *)
LEMMA CopyUntouched ==
  ASSUME TypeOK, NEW b \in {First, Second}, NEW a \in Registers, NEW w,
         reg' = [reg EXCEPT ![a] = w],
         a \notin b .. b + N
  PROVE  Data(b)' = Data(b) /\ Valid(b)' = Valid(b)
  <1>1. N \in Nat /\ b \in Nat
    BY RegsAssumption DEF First, Second
  <1>2. \A k \in 1 .. N : b + k - 1 \in Registers /\ b + k - 1 # a
    BY <1>1, DataType
  <1>3. reg \in [Registers -> Word] /\ b + N \in Registers /\ b + N # a
    BY <1>1, DataType DEF TypeOK, Registers
  <1>4. \A c \in Registers : c # a => reg'[c] = reg[c]
    BY <1>3
  <1>5. [k \in 1 .. N |-> reg'[b + k - 1]] = [k \in 1 .. N |-> reg[b + k - 1]]
    BY <1>2, <1>4
  <1>6. Data(b)' = Data(b)
    BY <1>5 DEF Data
  <1> QED BY <1>3, <1>4, <1>6 DEF Valid

(* The two copies do not overlap. *)
LEMMA Apart ==
  ASSUME NEW i \in 0 .. N
  PROVE  /\ First + i \in Registers /\ First + i \notin Second .. Second + N
         /\ Second + i \in Registers /\ Second + i \notin First .. First + N
  BY RegsAssumption DEF First, Second, Registers

LEMMA InitInv == Init => IInv /\ Kept
  <1> SUFFICES ASSUME Init PROVE IInv /\ Kept
    OBVIOUS
  <1>1. TypeOK
    <2>1. pc = "idle" /\ new \in {Idle} /\ base \in {First, Second} /\ done \in 0 .. N
          /\ before \in Value \cup {NoValue}
      BY RegsAssumption DEF Init
    <2>2. reg \in [0 .. 2 * N + 1 -> Word] /\ on \in BOOLEAN
      BY DEF Init
    <2> QED BY <2>1, <2>2 DEF TypeOK
  <1> QED BY <1>1 DEF Init, IInv, Kept, Written

-----------------------------------------------------------------------------
LEMMA BeginStep ==
  ASSUME IInv, NEW v \in Value, StoreBegin(v)
  PROVE  IInv' /\ Kept'
  <1> USE DEF StoreBegin
  <1>1. UNCHANGED reg /\ Stored' = Stored /\ Valid(First)' = Valid(First)
    BY DEF Stored, Valid, Data
  <1>2. base' \in {First, Second} /\ (base' = Second => Valid(First))
        /\ (base' = First => ~Valid(First))
    BY RegsAssumption DEF Target, First, Second
  <1>3. TypeOK'
    BY <1>1, <1>2, StoredType, RegsAssumption DEF IInv, TypeOK
  <1>4. Written'
    BY <1>1, <1>2 DEF Written
  <1>5. Kept'
    BY <1>1, <1>2, RegsAssumption DEF Kept
  <1> QED BY <1>3, <1>4, <1>5 DEF IInv

LEMMA WordStep ==
  ASSUME IInv, StoreWord
  PROVE  /\ IInv'
         /\ N = 1 /\ Kept => Kept'
  <1> USE DEF StoreWord
  <1>1. /\ TypeOK /\ N \in Nat /\ N > 0 /\ done \in 0 .. N - 1 /\ base \in {First, Second}
        /\ new \in Value /\ pc = "write" /\ reg \in [Registers -> Word]
        /\ base + done \in Registers
    BY RegsAssumption, Apart DEF IInv, TypeOK, Registers
  <1>2. new[done + 1] \in Word
    BY <1>1 DEF Value
  <1>3. TypeOK'
    BY <1>1, <1>2 DEF TypeOK, Registers
  <1>4. base = Second => Data(First)' = Data(First) /\ Valid(First)' = Valid(First)
    <2> SUFFICES ASSUME base = Second
        PROVE  Data(First)' = Data(First) /\ Valid(First)' = Valid(First)
      OBVIOUS
    <2>1. base + done \notin First .. First + N
      BY <1>1, Apart
    <2> QED BY <1>1, <2>1, CopyUntouched
  <1>5. base = First => Data(Second)' = Data(Second) /\ Valid(Second)' = Valid(Second)
    <2> SUFFICES ASSUME base = First
        PROVE  Data(Second)' = Data(Second) /\ Valid(Second)' = Valid(Second)
      OBVIOUS
    <2>1. base + done \notin Second .. Second + N
      BY <1>1, Apart
    <2> QED BY <1>1, <2>1, CopyUntouched
  <1>6. \A i \in 1 .. done' : reg'[base' + i - 1] = new'[i]
    <2> SUFFICES ASSUME NEW i \in 1 .. done + 1
        PROVE  reg'[base + i - 1] = new[i]
      BY <1>1
    <2>1. base + i - 1 \in Registers /\ base \in Nat
      BY <1>1 DEF First, Second, Registers
    <2>2. CASE i = done + 1
      BY <1>1, <2>1, <2>2
    <2>3. CASE i # done + 1
      <3>1. i \in 1 .. done /\ base + i - 1 # base + done
        BY <1>1, <2>1, <2>3
      <3>2. reg[base + i - 1] = new[i]
        BY <1>1, <3>1 DEF IInv, Written
      <3> QED BY <1>1, <2>1, <3>1, <3>2
    <2> QED BY <2>2, <2>3
  <1>7. Written'
    BY <1>1, <1>4, <1>6 DEF IInv, Written
  <1>8. ASSUME N = 1, Kept PROVE Kept'
    <2>1. done = 0 /\ done' = 1 /\ UNCHANGED <<pc, base, new, before>>
      BY <1>1, <1>8
    <2>2. CASE base = Second
      <3>1. Valid(First) /\ Stored = before
        BY <1>1, <1>8, <2>2 DEF IInv, Written, Kept
      <3>2. Stored' = Stored
        BY <1>4, <2>2, <3>1 DEF Stored
      <3>3. base # First
        BY <1>1, <2>2 DEF First, Second
      <3> QED BY <1>1, <2>1, <2>2, <3>1, <3>2, <3>3 DEF Kept
    <2>3. CASE base = First
      <3>1. ~Valid(First) /\ Stored = before
        BY <1>1, <1>8, <2>1, <2>3 DEF Kept
      <3>2. Data(First)' = new
        <4>1. reg'[0] = new[1]
          BY <1>1, <2>1, <2>3 DEF First
        <4>2. Data(First)' = [k \in 1 .. 1 |-> reg'[0 + k - 1]]
          BY <1>8 DEF Data, First
        <4>3. \A k \in 1 .. 1 : 0 + k - 1 = 0 /\ k = 1
          OBVIOUS
        <4> QED BY <1>1, <1>8, <4>1, <4>2, <4>3 DEF Value
      <3>3. CASE Valid(First)'
        BY <1>1, <2>1, <2>3, <3>2, <3>3 DEF Kept, OldOrNew, Stored, First, Second
      <3>4. CASE ~Valid(First)'
        <4>1. Stored' = Stored
          BY <1>5, <2>3, <3>1, <3>4 DEF Stored
        <4> QED BY <1>1, <2>1, <2>3, <3>1, <4>1 DEF Kept, OldOrNew, First, Second
      <3> QED BY <3>3, <3>4
    <2> QED BY <1>1, <2>2, <2>3
  <1> QED BY <1>3, <1>7, <1>8 DEF IInv

LEMMA ChecksumStep ==
  ASSUME IInv, StoreChecksum
  PROVE  /\ IInv'
         /\ N = 1 /\ Kept => Kept'
  <1> USE DEF StoreChecksum
  <1>1. /\ TypeOK /\ N \in Nat /\ N > 0 /\ done = N /\ base \in {First, Second}
        /\ new \in Value /\ pc = "write" /\ reg \in [Registers -> Word]
        /\ base + N \in Registers /\ base \in Nat
        /\ Checksum(new) \in Word
        /\ UNCHANGED <<base, new, done, before, on>>
    BY RegsAssumption, Apart DEF IInv, TypeOK, Registers, First, Second
  <1>2. TypeOK'
    BY <1>1 DEF TypeOK, Registers
  <1>3. Data(base)' = new
    <2>1. \A k \in 1 .. N : reg'[base + k - 1] = new[k]
      <3> TAKE k \in 1 .. N
      <3>1. base + k - 1 \in Registers /\ base + k - 1 # base + N
        BY <1>1 DEF First, Second, Registers
      <3>2. reg[base + k - 1] = new[k]
        BY <1>1 DEF IInv, Written
      <3> QED BY <1>1, <3>1, <3>2
    <2>2. Data(base)' = [k \in 1 .. N |-> reg'[base + k - 1]]
      BY <1>1 DEF Data
    <2> QED BY <1>1, <2>1, <2>2 DEF Value
  <1>4. Valid(base)'
    BY <1>1, <1>3 DEF Valid
  <1>5. CASE base = Second
    <2>1. Data(First)' = Data(First) /\ Valid(First)' = Valid(First)
      <3>1. base + N \notin First .. First + N
        BY <1>1, <1>5, Apart
      <3> QED BY <1>1, <3>1, CopyUntouched
    <2>2. Valid(First)
      BY <1>1, <1>5 DEF IInv, Written
    <2>3. Written'
      BY <1>1, <1>3, <1>4, <1>5, <2>1, <2>2 DEF Written
    <2>4. Kept => Kept'
      <3>1. Stored' = Stored
        BY <2>1, <2>2 DEF Stored
      <3>2. pc' = "destroy"
        BY <1>5
      <3> QED BY <1>1, <1>5, <3>1, <3>2 DEF Kept
    <2> QED BY <1>2, <2>3, <2>4 DEF IInv
  <1>6. CASE base = First
    <2>1. base # Second /\ pc' = "return"
      BY <1>1, <1>6 DEF First, Second
    <2>2. Stored' = new'
      BY <1>1, <1>3, <1>4, <1>6 DEF Stored
    <2> QED BY <1>2, <2>1, <2>2 DEF IInv, Written, Kept
  <1> QED BY <1>1, <1>5, <1>6

LEMMA DestroyStep ==
  ASSUME IInv, StoreDestroy
  PROVE  IInv' /\ Kept'
  <1> USE DEF StoreDestroy
  <1>1. /\ TypeOK /\ N \in Nat /\ N > 0 /\ reg \in [Registers -> Word] /\ pc = "destroy"
        /\ First + N \in Registers /\ reg[First + N] \in Word
        /\ UNCHANGED <<base, new, done, before, on>>
    BY RegsAssumption, Apart DEF IInv, TypeOK, Registers
  <1>2. reg'[First + N] = Incr(reg[First + N])
        /\ Incr(reg[First + N]) \in Word /\ Incr(reg[First + N]) # reg[First + N]
    BY <1>1, RegsAssumption DEF Destroyed
  <1>3. TypeOK'
    BY <1>1, <1>2 DEF TypeOK, Registers, Destroyed
  <1>4. Data(Second)' = Data(Second) /\ Valid(Second)' = Valid(Second)
    <2>1. First + N \notin Second .. Second + N
      BY <1>1, Apart
    <2> QED BY <1>1, <2>1, CopyUntouched
  <1>5. Data(First)' = Data(First)
    <2>1. \A k \in 1 .. N : First + k - 1 \in Registers /\ First + k - 1 # First + N
      BY <1>1, DataType DEF First
    <2>2. [k \in 1 .. N |-> reg'[First + k - 1]] = [k \in 1 .. N |-> reg[First + k - 1]]
      BY <1>1, <2>1
    <2> QED BY <2>2 DEF Data
  <1>6. Valid(First) /\ Valid(Second) /\ Data(Second) = new
    BY <1>1 DEF IInv, Written
  <1>7. ~Valid(First)'
    BY <1>2, <1>5, <1>6 DEF Valid
  <1>8. Stored' = new'
    BY <1>1, <1>4, <1>6, <1>7 DEF Stored
  <1> QED BY <1>3, <1>8 DEF IInv, Written, Kept

LEMMA OtherSteps ==
  ASSUME IInv, StoreReturn \/ PowerLoss \/ PowerUp
  PROVE  IInv' /\ (Kept => Kept')
  <1>1. TypeOK'
    <2>1. CASE NoStore
      <3>1. pc' = "idle" /\ new' \in {Idle} /\ base' \in {First, Second} /\ done' \in 0 .. N
            /\ before' \in Value \cup {NoValue}
        BY <2>1, RegsAssumption DEF NoStore
      <3>2. reg' \in [0 .. 2 * N + 1 -> Word] /\ on' \in BOOLEAN
        BY DEF IInv, TypeOK, StoreReturn, PowerLoss, PowerUp
      <3> QED BY <3>1, <3>2 DEF TypeOK
    <2>2. CASE StoreReturn \/ PowerLoss
      BY <2>1, <2>2 DEF StoreReturn, PowerLoss
    <2>3. CASE PowerUp
      BY <2>3 DEF IInv, TypeOK, PowerUp, storeVars
    <2> QED BY <2>2, <2>3
  <1>2. Stored' = Stored /\ \A b : Valid(b)' = Valid(b) /\ Data(b)' = Data(b)
    BY DEF StoreReturn, PowerLoss, PowerUp, Stored, Valid, Data
  <1>3. CASE NoStore
    BY <1>1, <1>3 DEF NoStore, IInv, Written, Kept
  <1>4. CASE PowerUp
    BY <1>1, <1>2, <1>4 DEF PowerUp, storeVars, IInv, Written, Kept, OldOrNew
  <1> QED BY <1>3, <1>4 DEF StoreReturn, PowerLoss

LEMMA StepInv == IInv /\ [Next]_regsVars => IInv'
  <1> SUFFICES ASSUME IInv, [Next]_regsVars PROVE IInv'
    OBVIOUS
  <1>1. CASE UNCHANGED regsVars
    BY <1>1 DEF regsVars, storeVars, IInv, TypeOK, Written, Stored, Valid, Data
  <1> QED BY <1>1, BeginStep, WordStep, ChecksumStep, DestroyStep, OtherSteps DEF Next, StoreOn

LEMMA StepKept == N = 1 /\ IInv /\ Kept /\ [Next]_regsVars => Kept'
  <1> SUFFICES ASSUME N = 1, IInv, Kept, [Next]_regsVars PROVE Kept'
    OBVIOUS
  <1>1. CASE UNCHANGED regsVars
    BY <1>1 DEF regsVars, storeVars, Kept, OldOrNew, Stored, Valid, Data
  <1> QED BY <1>1, BeginStep, WordStep, ChecksumStep, DestroyStep, OtherSteps DEF Next, StoreOn

(* The inductive invariant holds in every behaviour. *)
THEOREM Invariance == Spec => []IInv
  BY InitInv, StepInv, PTL DEF Spec

(* The registers and the locals of burtc_regs_store keep to their types. *)
THEOREM TypeCorrect == Spec => []TypeOK
  <1>1. IInv => TypeOK
    BY DEF IInv
  <1> QED BY <1>1, Invariance, PTL

(* Whatever the length of the value, it can be read once the store is done. *)
THEOREM StoreIsDurable == Spec => []Durable
  <1>1. IInv => Durable
    BY DEF IInv, Written, Durable
  <1> QED BY <1>1, Invariance, PTL

-----------------------------------------------------------------------------
LEMMA KeptIsAtomic == IInv /\ Kept => OldOrNew
  <1> SUFFICES ASSUME IInv, Kept PROVE OldOrNew
    OBVIOUS
  <1>1. pc \in {"idle", "write", "destroy", "return"} /\ base \in {First, Second}
    BY DEF IInv, TypeOK
  <1>2. CASE pc = "write" /\ done # 0 /\ base = First
    BY <1>2 DEF Kept
  <1> QED BY <1>1, <1>2 DEF IInv, Written, Kept, OldOrNew

(* A power loss in the store of a value of one word, at whatever register   *)
(* write, leaves the value from before or the new one.                      *)
THEOREM StoreIsAtomic ==
  ASSUME N = 1
  PROVE  Spec => []OldOrNew
  <1>1. IInv /\ Kept /\ [Next]_regsVars => IInv' /\ Kept'
    BY StepInv, StepKept
  <1> QED BY <1>1, InitInv, KeptIsAtomic, PTL DEF Spec

LEMMA InitRefines == Init => Cell!Init
  BY InitInv, StoredType DEF Init, IInv, Cell!Init

(* Every step of the registers is a step of the cell, or changes nothing   *)
(* that can be read.                                                        *)
LEMMA StepRefines ==
  ASSUME N = 1, IInv, Kept, IInv', Kept', [Next]_regsVars
  PROVE  [Cell!Next]_(Cell!cellVars)
  <1>1. OldOrNew'
    <2>1. (IInv /\ Kept)' => OldOrNew'
      BY KeptIsAtomic, PTL
    <2> QED BY <2>1
  <1>2. CASE UNCHANGED regsVars
    BY <1>2 DEF regsVars, storeVars, Cell!cellVars, Stored, Valid, Data
  <1>3. ASSUME NEW v \in Value, StoreBegin(v)
        PROVE  Cell!Begin
    <2>1. Stored' = Stored
      BY <1>3 DEF StoreBegin, Stored, Valid, Data
    <2>2. new = Idle
      BY <1>3 DEF StoreBegin, IInv, TypeOK
    <2> QED BY <1>3, <2>1, <2>2 DEF StoreBegin, Cell!Begin
  <1>4. CASE StoreOn
    <2>1. UNCHANGED <<on, base, new, before>> /\ new # Idle /\ base \in {First, Second}
      BY <1>4, RegsAssumption DEF StoreOn, StoreWord, StoreChecksum, StoreDestroy, IInv, TypeOK
    <2>2. Stored' = new \/ (Stored = before /\ Stored' = before)
      <3>1. CASE StoreWord
        <4>1. done = 0 /\ pc = "write" /\ pc' = "write"
          BY <3>1 DEF StoreWord, IInv, TypeOK
        <4>2. Stored = before
          BY <2>1, <4>1 DEF Kept
        <4> QED BY <1>1, <2>1, <4>1, <4>2 DEF OldOrNew
      <3>2. CASE StoreChecksum /\ base = Second
        <4>1. Stored = before
          BY <3>2 DEF StoreChecksum, Kept
        <4>2. Stored' = before'
          BY <3>2 DEF StoreChecksum, Kept
        <4> QED BY <2>1, <4>1, <4>2
      <3>3. CASE (StoreChecksum /\ base = First) \/ StoreDestroy
        <4>1. First # Second
          BY RegsAssumption DEF First, Second
        <4>2. pc' = "return"
          BY <3>3, <4>1 DEF StoreChecksum, StoreDestroy
        <4> QED BY <2>1, <4>2 DEF IInv, Written
      <3> QED BY <1>4, <2>1, <3>1, <3>2, <3>3 DEF StoreOn
    <2> QED BY <2>1, <2>2 DEF Cell!Commit, Cell!Next, Cell!cellVars
  <1>5. CASE StoreReturn
    <2>1. Stored' = Stored
      BY <1>5 DEF StoreReturn, Stored, Valid, Data
    <2>2. Stored = new
      BY <1>5 DEF StoreReturn, IInv, Written
    <2> QED BY <1>5, <2>1, <2>2 DEF StoreReturn, NoStore, Cell!Return, Cell!Next
  <1>6. CASE PowerLoss \/ PowerUp
    <2>1. Stored' = Stored
      BY <1>6 DEF PowerLoss, PowerUp, Stored, Valid, Data
    <2>2. PowerUp => new' = new
      BY DEF PowerUp, storeVars
    <2> QED BY <1>6, <2>1, <2>2 DEF PowerLoss, PowerUp, NoStore, Cell!PowerLoss, Cell!PowerUp,
                                    Cell!Next
  <1> QED BY <1>2, <1>3, <1>4, <1>5, <1>6 DEF Next, Cell!Next

(* A register pair of burtc-regs.c is the cell that its header describes.   *)
THEOREM RefinesCell ==
  ASSUME N = 1
  PROVE  Spec => ImplementsCell
  <1>1. IInv /\ Kept /\ [Next]_regsVars => IInv' /\ Kept'
    BY StepInv, StepKept
  <1>2. IInv /\ Kept /\ IInv' /\ Kept' /\ [Next]_regsVars => [Cell!Next]_(Cell!cellVars)
    BY StepRefines
  <1> QED BY <1>1, <1>2, InitInv, InitRefines, PTL DEF Spec, ImplementsCell, Cell!Spec

-----------------------------------------------------------------------------
(* What a power loss can find in the middle of a store, for values of every *)
(* length.                                                                   *)

(* What burtc_regs_retrieve finds while the first copy is not valid. *)
InSecond == IF Valid(Second) THEN Data(Second) ELSE NoValue

Readable ==
  /\ pc = "write" /\ base = Second => Stored = before
  /\ pc = "write" /\ base = First => before = InSecond /\ (done = 0 => ~Valid(First))
  /\ pc = "destroy" => Stored = before

(* The first copy is half written and happens to match its old checksum. *)
Mixture ==
  /\ pc = "write" /\ base = First /\ Valid(First)
  /\ done \in 1 .. N - 1
  /\ \A i \in 1 .. done : Stored[i] = new[i]

TornOnlyByChance == pc # "idle" => Stored \in {before, new} \/ Mixture

LEMMA ReadableStep ==
  ASSUME IInv, Readable, [Next]_regsVars
  PROVE  Readable'
<1> USE RegsAssumption
<1>1. First # Second  BY DEF First, Second
<1>2. ASSUME NEW v \in Value, StoreBegin(v) PROVE Readable'
  <2>1. UNCHANGED reg /\ Stored' = Stored /\ Valid(First)' = Valid(First)
        /\ InSecond' = InSecond
    BY <1>2 DEF StoreBegin, Stored, InSecond, Valid, Data
  <2>2. (base' = First => ~Valid(First)) /\ pc' = "write" /\ before' = Stored
    BY <1>1, <1>2 DEF StoreBegin, Target
  <2>3. ~Valid(First) => Stored = InSecond  BY DEF Stored, InSecond
  <2> QED  BY <2>1, <2>2, <2>3 DEF Readable
<1>3. ASSUME StoreWord \/ (StoreChecksum /\ base = Second), base = Second
      PROVE  Readable'
  <2>1. PICK i \in 0 .. N : \E w : reg' = [reg EXCEPT ![Second + i] = w]
    <3>1. StoreWord => reg' = [reg EXCEPT ![Second + done] = new[done + 1]] /\ done \in 0 .. N
      BY <1>3 DEF StoreWord, IInv, TypeOK
    <3>2. StoreChecksum => reg' = [reg EXCEPT ![Second + N] = Checksum(new)] /\ N \in 0 .. N
      BY <1>3 DEF StoreChecksum
    <3> QED  BY <1>3, <3>1, <3>2
  <2>2. Second + i \in Registers /\ Second + i \notin First .. First + N
    BY Apart
  <2>3. Data(First)' = Data(First) /\ Valid(First)' = Valid(First)
    BY <2>1, <2>2, CopyUntouched DEF IInv
  <2>4. Valid(First) /\ Stored = before /\ UNCHANGED <<before, base>> /\ pc' \in {"write", "destroy"}
    BY <1>1, <1>3 DEF StoreWord, StoreChecksum, IInv, Written, Readable
  <2>5. Stored' = Stored  BY <2>3, <2>4 DEF Stored
  <2> QED  BY <1>1, <1>3, <2>4, <2>5 DEF Readable
<1>4. ASSUME StoreWord, base = First PROVE Readable'
  <2>1. reg' = [reg EXCEPT ![First + done] = new[done + 1]] /\ done \in 0 .. N
    BY <1>4 DEF StoreWord, IInv, TypeOK
  <2>2. First + done \in Registers /\ First + done \notin Second .. Second + N
    BY <2>1, Apart
  <2>3. Data(Second)' = Data(Second) /\ Valid(Second)' = Valid(Second)
    BY <2>1, <2>2, CopyUntouched DEF IInv
  <2>4. InSecond' = InSecond  BY <2>3 DEF InSecond
  <2>5. done' # 0  BY <1>4, <2>1 DEF StoreWord
  <2> QED  BY <1>1, <1>4, <2>4, <2>5 DEF Readable, StoreWord
<1>5. ASSUME (StoreChecksum /\ base # Second) \/ StoreDestroy \/ StoreReturn \/ PowerLoss
      PROVE  Readable'
  BY <1>5 DEF StoreChecksum, StoreDestroy, StoreReturn, PowerLoss, NoStore, Readable
<1>6. ASSUME PowerUp \/ UNCHANGED regsVars PROVE Readable'
  BY <1>6 DEF PowerUp, regsVars, storeVars, Readable, Stored, InSecond, Valid, Data
<1>7. base \in {First, Second}  BY DEF IInv, TypeOK
<1> QED  BY <1>2, <1>3, <1>4, <1>5, <1>6, <1>7 DEF Next, StoreOn

LEMMA ReadableIsNotTorn == IInv /\ Readable => TornOnlyByChance
<1> SUFFICES ASSUME IInv, Readable, pc # "idle"
             PROVE  Stored \in {before, new} \/ Mixture
  BY DEF TornOnlyByChance
<1>1. /\ pc \in {"write", "destroy", "return"} /\ base \in {First, Second}
      /\ done \in 0 .. N /\ N \in Nat /\ N > 0 /\ new \in Value
  BY RegsAssumption DEF IInv, TypeOK
<1>2. CASE pc = "destroy" \/ pc = "return" \/ base = Second
  BY <1>1, <1>2 DEF Readable, IInv, Written
<1>3. CASE pc = "write" /\ base = First /\ ~Valid(First)
  BY <1>3 DEF Readable, Stored, InSecond
<1>4. CASE pc = "write" /\ base = First /\ Valid(First)
  <2>1. Stored = Data(First) /\ done # 0  BY <1>4 DEF Stored, Readable
  <2>2. \A i \in 1 .. done : Stored[i] = new[i]
    <3> TAKE i \in 1 .. done
    <3>1. i \in 1 .. N  BY <1>1
    <3>2. Data(First)[i] = reg[First + i - 1]  BY <3>1, DataType DEF IInv
    <3>3. reg[base + i - 1] = new[i]  BY <1>4 DEF IInv, Written
    <3> QED  BY <1>4, <2>1, <3>2, <3>3
  <2>3. CASE done = N
    <3>1. Data(First) \in Value  BY DataType DEF IInv
    <3> QED  BY <1>1, <2>1, <2>2, <2>3, <3>1 DEF Value
  <2>4. CASE done # N
    BY <1>1, <1>4, <2>1, <2>2, <2>4 DEF Mixture
  <2> QED  BY <2>3, <2>4
<1> QED  BY <1>1, <1>2, <1>3, <1>4

(* For values of every length: a power loss in burtc_regs_store leaves the  *)
(* old value or the new one to be read, but for one case: the first copy was *)
(* not valid, is being overwritten, and half of the new value matches the    *)
(* checksum that is still there.  A store that spares a valid first copy     *)
(* is atomic.                                                                *)
THEOREM TornOnlyByMatch == Spec => []TornOnlyByChance
<1>1. Init => Readable  BY DEF Init, Readable
<1>2. IInv /\ Readable /\ [Next]_regsVars => Readable'  BY ReadableStep
<1>3. IInv /\ Readable => TornOnlyByChance  BY ReadableIsNotTorn
<1> QED  BY <1>1, <1>2, <1>3, Invariance, PTL DEF Spec
=============================================================================
