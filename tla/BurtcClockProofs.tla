-------------------------- MODULE BurtcClockProofs --------------------------
(***************************************************************************)
(* Proofs about BurtcClock, for counters and registers of every width: a   *)
(* clock that resumes after losses of power, or starts anew, accounts for  *)
(* every wrap but those that a power loss found uncommitted, and           *)
(* rtc_get64 returns the exact tick count.                                 *)
(***************************************************************************)
EXTENDS BurtcClock, TLAPS

(* The two copies of high64 in slice 0 of the retention registers. *)
One(x) == [k \in 1 .. 1 |-> x]
Valid1 == W - 1 - reg[0] = reg[1]
Valid2 == W - 1 - reg[2] = reg[3]
Read == IF Valid1 THEN One(reg[0]) ELSE IF Valid2 THEN One(reg[2]) ELSE NoValue

Now == wraps - lost

(* Which parts of the state belong to which place. *)
Place ==
  /\ on <=> at # "off"
  /\ pc # "idle" <=> at \in {"resetting", "storing"}
  /\ ~ready => at \in {"off", "setup", "init"} /\ Read = NoValue
  /\ at = "init" => ~ready
  /\ at # "erase" => erased = 0
  /\ at \in {"off", "setup", "init", "overflow", "retrieve", "erase", "reset", "resetting",
             "forget", "enable"} =>
       ~masked /\ \A r \in Readers : rd[r] = NoRead
  /\ wraps <= MaxWraps
  /\ of /\ Serving => counter <= Latency

(* What burtc_regs_store has done of its writes. *)
Storing ==
  /\ pc # "idle" => new \in Regs!Value /\ Read \in {before, new}
  /\ pc = "write" =>
       \/ base = 2 /\ Valid1 /\ Read = before /\ (done = 1 => reg[2] = new[1])
       \/ base = 0 /\ done = 0 /\ ~Valid1 /\ Read = before
       \/ base = 0 /\ done = 1 /\ reg[0] = new[1]
  /\ pc = "destroy" =>
       base = 2 /\ Valid1 /\ Valid2 /\ reg[2] = new[1] /\ Read = before
  /\ pc = "return" => Read = new

(* Which count is in the registers, and in high64. *)
Committed == at \in {"enable", "main", "mask", "clear", "unmask"}

Counting ==
  /\ Committed => Read = One(high64) /\ high64 + Flag = Now
  /\ at = "increment" => Read = One(high64) /\ high64 + 1 + Flag = Now
  /\ at \in {"store", "storing"} => high64 > 0 /\ high64 + Flag = Now
  /\ at = "store" => Read = One(high64 - 1)
  /\ at = "storing" => before = One(high64 - 1) /\ new = One(high64)
  /\ at \in {"mask", "clear"} => of

(* What rtc_setup would find if the power went: a count that is right, or    *)
(* none, unless the overflow flag says that it is not to be trusted.         *)
Trusted == IF Read = NoValue THEN Now = 0 ELSE Read = One(Now)

Resuming ==
  /\ at \in {"off", "setup", "overflow"} /\ ready /\ ~of => Trusted
  /\ at = "retrieve" => IF Read = NoValue THEN Now = Flag ELSE Read[1] + Flag = Now
  /\ at \in {"erase", "reset", "resetting", "forget"} /\ ~of => Now = 0

Erasing ==
  /\ at = "erase" =>
       /\ \A i \in 0 .. 3 : i < erased => reg[i] = 0
       /\ ~of => (Valid1 => reg[0] = 0) /\ (Valid2 => reg[2] = 0)
  /\ at = "reset" => \A i \in 0 .. 3 : reg[i] = 0
  /\ at = "resetting" => before = NoValue /\ new = One(0)
  /\ at = "forget" => Read = One(0)
  /\ at \in {"resetting", "forget"} => high64 = 0

(* CPSID is never nested: whoever has masked the interrupts is alone. *)
HandlerMasks == at \in {"clear", "increment", "store", "storing", "unmask"}
Masks(r) == rd[r].pc \in {"first", "high", "flag", "unmask"}

Masking ==
  /\ masked <=> HandlerMasks \/ \E r \in Readers : Masks(r)
  /\ HandlerMasks => rd["irq"].pc = "idle" /\ ~Masks("main")
  /\ Masks("main") => rd["irq"].pc = "idle" /\ at = "main"

(* What a reading knows: Then is what it has to return the wraps of, if no   *)
(* wrap has come since it first looked.                                      *)
Then(r) == IF counter < rd[r].first THEN Now - 1 ELSE Now

Behind(r, n) ==
  \/ n = Then(r)
  \/ n = Then(r) - 1 /\ rd[r].first <= Latency

ReadingOf(r) ==
  /\ ~Timed(r) => rd[r].age = 0
  /\ Timed(r) => \/ counter = rd[r].first + rd[r].age
                 \/ counter = rd[r].first + rd[r].age - M
  /\ rd[r].pc \in {"high", "flag"} => Behind(r, high64)
  /\ rd[r].pc = "flag" => rd[r].high = high64
  /\ rd[r].pc \in {"unmask", "second"} =>
       /\ Behind(r, rd[r].high)
       /\ rd[r].high # Then(r) => rd[r].overflew
       /\ rd[r].overflew => rd[r].high # Then(r) \/ counter < rd[r].first

Reading == \A r \in Readers : ReadingOf(r)

IInv == TypeOK /\ Place /\ Storing /\ Counting /\ Resuming /\ Erasing /\ Masking /\ Reading

-----------------------------------------------------------------------------
Quiet == {"off", "setup", "init", "overflow", "retrieve", "erase", "reset", "resetting",
          "forget", "enable"}

ReadState == [pc : {"idle", "first", "high", "flag", "unmask", "second"},
              first : 0 .. M - 1, high : Word, overflew : BOOLEAN, age : 0 .. Duration]

(* What BurtcRegs comes to for values of one word. *)
LEMMA OneWord ==
  /\ Regs!First = 0 /\ Regs!Second = 2
  /\ Regs!Data(0) = One(reg[0]) /\ Regs!Data(2) = One(reg[2])
  /\ Regs!Valid(0) = Valid1 /\ Regs!Valid(2) = Valid2
  /\ Regs!Stored = Read
  /\ Regs!Value = [1 .. 1 -> Word]
  <1>1. Regs!First = 0 /\ Regs!Second = 2 /\ Regs!Value = [1 .. 1 -> Word]
    BY DEF Regs!First, Regs!Second, Regs!Value
  <1>2. Regs!Data(0) = One(reg[0]) /\ Regs!Data(2) = One(reg[2])
    BY DEF Regs!Data, One
  <1>3. One(reg[0])[1] = reg[0] /\ One(reg[2])[1] = reg[2]
    BY DEF One
  <1>4. Regs!Valid(0) = Valid1 /\ Regs!Valid(2) = Valid2
    BY <1>2, <1>3 DEF Regs!Valid, Checksum, Valid1, Valid2
  <1> QED BY <1>1, <1>2, <1>4 DEF Regs!Stored, Read

LEMMA OneWordNext ==
  /\ Regs!Data(0)' = One(reg'[0]) /\ Regs!Data(2)' = One(reg'[2])
  /\ Regs!Valid(0)' = Valid1' /\ Regs!Valid(2)' = Valid2'
  /\ Regs!Stored' = Read'
  <1>1. Regs!First = 0 /\ Regs!Second = 2
    BY OneWord
  <1>2. Regs!Data(0)' = One(reg'[0]) /\ Regs!Data(2)' = One(reg'[2])
    BY DEF Regs!Data, One
  <1>3. One(reg'[0])[1] = reg'[0] /\ One(reg'[2])[1] = reg'[2]
    BY DEF One
  <1>4. Regs!Valid(0)' = Valid1' /\ Regs!Valid(2)' = Valid2'
    BY <1>2, <1>3 DEF Regs!Valid, Checksum, Valid1, Valid2
  <1> QED BY <1>1, <1>2, <1>4 DEF Regs!Stored, Read

(* A value of one word is what it holds, and never the absence of one. *)
LEMMA Ones ==
  /\ \A x : One(x)[1] = x
  /\ \A x, y : One(x) = One(y) => x = y
  /\ \A x \in Word : One(x) \in Regs!Value /\ One(x) # NoValue
  /\ \A v \in Regs!Value : v[1] \in Word /\ v = One(v[1])
  <1>1. \A x : One(x)[1] = x
    BY DEF One
  <1>2. \A x \in Word : One(x) \in Regs!Value /\ One(x) # NoValue
    BY BurtcAssumption, OneWord DEF One, Word
  <1>3. \A v \in Regs!Value : v[1] \in Word /\ v = One(v[1])
    BY OneWord DEF One
  <1>4. \A x, y : One(x) = One(y) => x = y
    BY <1>1
  <1> QED BY <1>1, <1>2, <1>3, <1>4

LEMMA InitInv == Init => IInv
  <1> SUFFICES ASSUME Init PROVE IInv
    OBVIOUS
  <1>1. /\ reg \in [0 .. 3 -> Word] /\ Read = NoValue
        /\ on = FALSE /\ pc = "idle" /\ base = 0 /\ done = 0 /\ new = Idle /\ before = NoValue
    BY OneWord DEF Init, Regs!Init
  <1>2. TypeOK
    <2>1. reg \in [0 .. 2 * 1 + 1 -> Word] /\ done \in 0 .. 1 /\ base \in {Regs!First, Regs!Second}
      BY <1>1, OneWord
    <2>2. Regs!TypeOK
      <3>1. on \in BOOLEAN /\ new \in IF pc = "idle" THEN {Idle} ELSE Regs!Value
        BY <1>1
      <3> QED BY <1>1, <2>1, <3>1 DEF Regs!TypeOK
    <2>3. counter \in 0 .. M - 1 /\ high64 \in Word /\ erased \in 0 .. 3
          /\ wraps \in Nat /\ lost \in Nat
      BY BurtcAssumption DEF Init, Word
    <2>4. NoRead \in ReadState
      BY BurtcAssumption DEF NoRead, ReadState, Word
    <2>5. {ready, of, masked} \subseteq BOOLEAN /\ rd \in [Readers -> ReadState]
      BY <2>4 DEF Init
    <2> QED BY <2>2, <2>3, <2>5 DEF Init, TypeOK, ReadState
  <1>3. Place /\ Masking /\ Reading
    BY <1>1, BurtcAssumption DEF Init, Place, Serving, InHandler, Masking, HandlerMasks, Masks,
                                 Reading, ReadingOf, Timed, NoRead, Readers
  <1>4. Storing /\ Counting /\ Resuming /\ Erasing
    BY <1>1 DEF Init, Storing, Counting, Committed, Resuming, Erasing
  <1> QED BY <1>2, <1>3, <1>4 DEF IInv

-----------------------------------------------------------------------------
(* TypeOK in the terms of values of one word. *)
Typed ==
  /\ reg \in [0 .. 3 -> Word] /\ on \in BOOLEAN
  /\ pc \in {"idle", "write", "destroy", "return"}
  /\ base \in {0, 2} /\ done \in 0 .. 1
  /\ new \in IF pc = "idle" THEN {Idle} ELSE Regs!Value
  /\ before \in Regs!Value \cup {NoValue}
  /\ counter \in 0 .. M - 1 /\ {ready, of, masked} \subseteq BOOLEAN
  /\ high64 \in Word
  /\ at \in Quiet \cup {"main", "mask", "clear", "increment", "store", "storing", "unmask"}
  /\ erased \in 0 .. 3
  /\ rd \in [Readers -> ReadState]
  /\ wraps \in Nat /\ lost \in Nat

LEMMA SameType == TypeOK <=> Typed
  <1>1. 2 * 1 + 1 = 3
    OBVIOUS
  <1> QED BY <1>1, OneWord DEF TypeOK, Typed, Regs!TypeOK, ReadState, Quiet

LEMMA SameTypeNext == TypeOK' <=> Typed'
  BY SameType, PTL

LEMMA Numbers ==
  ASSUME IInv
  PROVE  /\ M \in Nat /\ W \in Nat /\ W > 1 /\ Latency \in Nat /\ Duration \in Nat
         /\ MaxWraps \in Nat /\ Latency + Duration < M /\ MaxWraps < W /\ 0 \in Word
         /\ Now \in Int /\ wraps \in Nat /\ lost \in Nat /\ Now <= MaxWraps
         /\ Flag \in {0, 1} /\ high64 \in Nat /\ counter \in Nat /\ counter < M
         /\ of \in BOOLEAN /\ ready \in BOOLEAN /\ on \in BOOLEAN
  <1>1. Typed /\ Place
    BY SameType DEF IInv
  <1>2. of \in BOOLEAN /\ ready \in BOOLEAN /\ on \in BOOLEAN
    BY <1>1 DEF Typed
  <1> QED BY <1>1, <1>2, BurtcAssumption DEF Typed, Place, Now, Flag, Word

LEMMA SameRegisters ==
  ASSUME UNCHANGED reg
  PROVE  Valid1' = Valid1 /\ Valid2' = Valid2 /\ Read' = Read /\ Regs!Stored' = Regs!Stored
  <1>1. Valid1' = Valid1 /\ Valid2' = Valid2 /\ Read' = Read
    BY DEF Valid1, Valid2, Read
  <1> QED BY <1>1, OneWord, OneWordNext

LEMMA SameStore ==
  ASSUME IInv, UNCHANGED <<reg, storeVars>>
  PROVE  Storing'
  BY SameRegisters, OneWord DEF IInv, Storing, storeVars, Regs!Value

LEMMA NoStoreStep ==
  ASSUME pc' = "idle"
  PROVE  Storing'
  BY DEF Storing

(* Where nothing reads the clock, there is nothing to show about readings. *)
LEMMA QuietStep ==
  ASSUME at' \in Quiet \cup {"main"}, ~masked', \A r \in Readers : rd'[r] = NoRead
  PROVE  Masking' /\ Reading'
  <1>1. ~HandlerMasks' /\ \A r \in Readers : ~Masks(r)' /\ rd'[r].pc = "idle" /\ rd'[r].age = 0
    BY DEF HandlerMasks, Quiet, Masks, NoRead
  <1>2. "main" \in Readers /\ "irq" \in Readers
    BY DEF Readers
  <1>3. Masking'
    BY <1>1, <1>2 DEF Masking
  <1> QED BY <1>1, <1>3 DEF Reading, ReadingOf, Timed

LEMMA ReadType == IInv => Read \in Regs!Value \cup {NoValue}
  <1> SUFFICES ASSUME IInv PROVE Read \in Regs!Value \cup {NoValue}
    OBVIOUS
  <1>1. reg[0] \in Word /\ reg[2] \in Word
    BY SameType DEF IInv, Typed
  <1> QED BY <1>1, Ones DEF Read

(* If the power goes now, the next rtc_setup finds a count that is right. *)
LEMMA Recoverable ==
  ASSUME IInv, ready, ~of
  PROVE  LET left == IF Uncommitted THEN Now - 1 ELSE Now
         IN  IF Read = NoValue THEN left = 0 ELSE Read = One(left)
  <1> USE DEF IInv
  <1>1. /\ Flag = 0 /\ Now \in Int /\ W > 1 /\ W \in Nat /\ high64 \in Word /\ 0 \in Word
        /\ high64 \in Nat /\ reg \in [0 .. 3 -> Word]
    BY Numbers, SameType DEF Flag, Typed
  <1>2. CASE at \in {"off", "setup", "overflow", "init"}
    BY <1>2 DEF Place, Resuming, Trusted, Uncommitted
  <1>3. CASE at = "retrieve"
    <2>1. ~Uncommitted
      BY <1>3 DEF Uncommitted
    <2>2. IF Read = NoValue THEN Now = Flag ELSE Read[1] + Flag = Now
      BY <1>3 DEF Resuming
    <2>3. Read # NoValue => Read = One(Read[1]) /\ Read[1] \in Int
      BY ReadType, Ones, Numbers DEF Word
    <2> QED BY <1>1, <2>1, <2>2, <2>3
  <1>4. CASE at \in {"erase", "reset", "resetting", "forget"}
    <2>1. Now = 0 /\ ~Uncommitted
      BY <1>4 DEF Resuming, Uncommitted
    <2>2. Read \in {NoValue, One(0)}
      <3>1. CASE at = "erase"
        BY <3>1 DEF Erasing, Read
      <3>2. CASE at = "reset"
        <4>1. reg[0] = 0 /\ reg[1] = 0 /\ reg[2] = 0 /\ reg[3] = 0
          BY <3>2 DEF Erasing
        <4>2. ~Valid1 /\ ~Valid2
          BY <1>1, <4>1 DEF Valid1, Valid2
        <4> QED BY <4>2 DEF Read
      <3>3. CASE at = "resetting"
        BY <3>3 DEF Erasing, Storing, Place
      <3>4. CASE at = "forget"
        BY <3>4 DEF Erasing
      <3> QED BY <1>4, <3>1, <3>2, <3>3, <3>4
    <2> QED BY <2>1, <2>2
  <1>5. CASE Committed
    <2>1. Read = One(high64) /\ high64 = Now /\ ~Uncommitted
      BY <1>1, <1>5 DEF Counting, Committed, Uncommitted
    <2> QED BY <1>1, <2>1, Ones
  <1>6. CASE at = "increment"
    <2>1. Read = One(high64) /\ high64 = Now - 1 /\ Uncommitted
      BY <1>1, <1>6 DEF Counting, Uncommitted
    <2> QED BY <1>1, <2>1, Ones
  <1>7. CASE at \in {"store", "storing"}
    <2>1. high64 > 0 /\ high64 = Now /\ high64 - 1 \in Word
      BY <1>1, <1>7 DEF Counting, Word
    <2>2. CASE at = "store"
      <3>1. Read = One(high64 - 1) /\ Uncommitted
        BY <2>2 DEF Counting, Uncommitted
      <3> QED BY <1>1, <2>1, <3>1, Ones
    <2>3. CASE at = "storing"
      <3>1. Read \in {One(high64 - 1), One(high64)} /\ new = One(high64)
        BY <2>3 DEF Counting, Storing, Place
      <3>2. One(high64 - 1) # One(high64)
        BY <1>1, Ones
      <3>3. Uncommitted <=> Read # new
        BY <2>3, OneWord DEF Uncommitted
      <3> QED BY <1>1, <2>1, <3>1, <3>2, <3>3, Ones
    <2> QED BY <1>7, <2>2, <2>3
  <1> QED BY <1>2, <1>3, <1>4, <1>5, <1>6, <1>7, SameType DEF Typed, Quiet, Committed

-----------------------------------------------------------------------------
(* Loss and return of the power. *)

LEMMA PowerUpStep ==
  ASSUME IInv, PowerUp
  PROVE  IInv'
  <1> USE DEF PowerUp, Regs!PowerUp, IInv, historyVars, storeVars
  <1>1. Typed'
    BY SameType DEF Typed, Quiet, Regs!storeVars
  <1>2. UNCHANGED <<reg, storeVars, ready, of, wraps, lost>> /\ Read' = Read /\ at = "off"
    BY SameRegisters DEF Regs!storeVars
  <1>3. Place'
    BY <1>2 DEF Place, Serving, InHandler
  <1>4. Storing'
    BY <1>2, SameStore
  <1>5. Masking' /\ Reading'
    <2>1. ~masked' /\ \A r \in Readers : rd'[r] = NoRead
      BY <1>2 DEF Place
    <2> QED BY <2>1, QuietStep DEF Quiet
  <1>6. Counting' /\ Resuming' /\ Erasing'
    BY <1>2 DEF Counting, Committed, Resuming, Erasing, Trusted, Now
  <1> QED BY <1>1, <1>3, <1>4, <1>5, <1>6, SameTypeNext

LEMMA PowerLossStep ==
  ASSUME IInv, PowerLoss
  PROVE  IInv'
  <1> USE DEF PowerLoss, Regs!PowerLoss, Regs!NoStore, IInv
  <1>1. /\ UNCHANGED <<reg, ready, of, counter, wraps>> /\ Read' = Read
        /\ pc' = "idle" /\ base' = 0 /\ done' = 0 /\ new' = Idle /\ before' = NoValue
        /\ ~on' /\ at' = "off" /\ ~masked' /\ erased' = 0 /\ high64' = 0
    BY SameRegisters, OneWord
  <1>2. NoRead \in ReadState /\ \A r \in Readers : rd'[r] = NoRead
    BY BurtcAssumption DEF NoRead, ReadState, Word
  <1>3. Typed'
    <2>1. rd' \in [Readers -> ReadState] /\ 0 \in Word /\ lost' \in Nat
      BY <1>2, Numbers
    <2>2. masked' \in BOOLEAN /\ on' \in BOOLEAN /\ of' \in BOOLEAN /\ ready' \in BOOLEAN
      BY <1>1, Numbers
    <2> QED BY <1>1, <2>1, <2>2, SameType DEF Typed, Quiet
  <1>4. Place'
    BY <1>1, <1>2 DEF Place, Serving, InHandler
  <1>5. Storing' /\ Masking' /\ Reading'
    BY <1>1, <1>2, NoStoreStep, QuietStep DEF Quiet
  <1>6. Resuming'
    <2> SUFFICES ASSUME ready, ~of PROVE Trusted'
      BY <1>1 DEF Resuming
    <2>1. Now' = IF Uncommitted THEN Now - 1 ELSE Now
      BY <1>1, Numbers DEF Now
    <2> QED BY <1>1, <2>1, Recoverable DEF Trusted
  <1>7. Counting' /\ Erasing'
    BY <1>1 DEF Counting, Committed, Erasing
  <1> QED BY <1>3, <1>4, <1>5, <1>6, <1>7, SameTypeNext

LEMMA BackupLossStep ==
  ASSUME IInv, BackupLoss
  PROVE  IInv'
  <1> USE DEF BackupLoss, IInv
  <1>1. /\ UNCHANGED <<on, storeVars, high64, masked, at, erased, rd>> /\ at = "off"
        /\ ~ready' /\ ~of' /\ counter' = 0 /\ wraps' = 0 /\ lost' = 0
        /\ reg' \in [0 .. 3 -> Word] /\ Read' = NoValue /\ pc = "idle"
    BY OneWordNext DEF Place
  <1>2. Typed'
    <2>1. counter' \in 0 .. M - 1 /\ wraps' \in Nat /\ lost' \in Nat
      BY <1>1, Numbers
    <2>2. ready' \in BOOLEAN /\ of' \in BOOLEAN
      BY <1>1
    <2> QED BY <1>1, <2>1, <2>2, SameType DEF Typed, storeVars
  <1>3. Place'
    BY <1>1, BurtcAssumption DEF Place, storeVars
  <1>4. Storing'
    BY <1>1, NoStoreStep DEF storeVars
  <1>5. Masking' /\ Reading'
    <2>1. ~masked' /\ \A r \in Readers : rd'[r] = NoRead
      BY <1>1 DEF Place
    <2> QED BY <1>1, <2>1, QuietStep DEF Quiet
  <1>6. Counting' /\ Resuming' /\ Erasing'
    BY <1>1 DEF Counting, Committed, Resuming, Erasing
  <1> QED BY <1>2, <1>3, <1>4, <1>5, <1>6, SameTypeNext

-----------------------------------------------------------------------------
(* rtc_setup. *)

(* A step of it that writes no register: what is left to show of it. *)
LEMMA SetupStep ==
  ASSUME IInv, at \in Quiet \ {"off"}, at' \in (Quiet \ {"off", "resetting"}) \cup {"main"},
         pc = "idle",
         UNCHANGED <<reg, on, storeVars, masked, rd>>,
         ready' \in BOOLEAN, of' \in BOOLEAN, counter' \in 0 .. M - 1, high64' \in Word,
         erased' \in 0 .. 3, wraps' \in 0 .. MaxWraps, lost' \in Nat
  PROVE  /\ TypeOK' /\ Storing' /\ Masking' /\ Reading'
         /\ Read' = Read /\ Valid1' = Valid1 /\ Valid2' = Valid2 /\ reg' = reg
         /\ (/\ ~ready' => at' \in {"setup", "init"} /\ Read = NoValue
             /\ at' = "init" => ~ready'
             /\ at' # "erase" => erased' = 0
             /\ of' /\ Serving' => counter' <= Latency) => Place'
  <1> USE DEF IInv
  <1>1. Read' = Read /\ Valid1' = Valid1 /\ Valid2' = Valid2
    BY SameRegisters
  <1>2. Typed'
    BY SameType, BurtcAssumption DEF Typed, storeVars, Quiet
  <1>3. ~masked' /\ (\A r \in Readers : rd'[r] = NoRead) /\ on'
    BY DEF Place, Quiet
  <1>4. Masking' /\ Reading'
    BY <1>3, QuietStep DEF Quiet
  <1>5. wraps' <= MaxWraps
    BY BurtcAssumption
  <1>6. pc' = "idle" /\ at' \notin {"off", "resetting", "storing"}
    BY DEF storeVars, Quiet
  <1> QED BY <1>1, <1>2, <1>3, <1>4, <1>5, <1>6, NoStoreStep, SameTypeNext DEF Place

LEMMA SetupTestStep ==
  ASSUME IInv, SetupTest
  PROVE  IInv'
  <1> USE DEF SetupTest, goTo, backupVars, historyVars, IInv
  <1>1. pc = "idle" /\ erased = 0 /\ wraps \in 0 .. MaxWraps
    BY SameType, BurtcAssumption DEF Place, Typed
  <1>2. /\ TypeOK' /\ Storing' /\ Masking' /\ Reading' /\ Read' = Read
        /\ Place'
    <2>1. at' \in {"overflow", "init"} /\ (at' = "init" <=> ~ready)
      OBVIOUS
    <2>2. ~Serving'
      BY <2>1 DEF Serving, InHandler
    <2> QED BY <1>1, <2>1, <2>2, SetupStep, SameType, Numbers DEF Typed, Quiet, Place
  <1>3. Counting' /\ Resuming' /\ Erasing'
    <2>1. CASE ready
      BY <1>1, <1>2, <2>1 DEF Counting, Committed, Resuming, Erasing, Trusted, Now, Flag
    <2>2. CASE ~ready
      BY <1>1, <1>2, <2>2 DEF Counting, Committed, Resuming, Erasing, Trusted, Now, Flag
    <2> QED BY <2>1, <2>2
  <1> QED BY <1>2, <1>3

LEMMA SetupInitStep ==
  ASSUME IInv, SetupInit
  PROVE  IInv'
  <1> USE DEF SetupInit, goTo, IInv
  <1>1. pc = "idle" /\ erased = 0 /\ Read = NoValue /\ ready' \in BOOLEAN /\ of' \in BOOLEAN
    BY DEF Place
  <1>0. counter' \in 0 .. M - 1 /\ wraps' \in 0 .. MaxWraps /\ lost' \in Nat
    BY Numbers
  <1>2. /\ TypeOK' /\ Storing' /\ Masking' /\ Reading' /\ Read' = Read /\ Place'
        /\ Valid1' = Valid1 /\ Valid2' = Valid2
    <2>1. ~Serving'
      BY DEF Serving, InHandler
    <2> QED BY <1>0, <1>1, <2>1, SetupStep, SameType DEF Typed, Quiet
  <1>3. ~Valid1 /\ ~Valid2
    <2>1. reg[0] \in Word /\ reg[2] \in Word
      BY SameType DEF Typed
    <2> QED BY <1>1, <2>1, Ones DEF Read
  <1>4. Counting' /\ Resuming' /\ Erasing'
    BY <1>1, <1>2, <1>3 DEF Counting, Committed, Resuming, Erasing, Now
  <1> QED BY <1>2, <1>4

LEMMA SetupOverflowStep ==
  ASSUME IInv, SetupOverflow
  PROVE  IInv'
  <1> USE DEF SetupOverflow, goTo, backupVars, historyVars, IInv
  <1>1. pc = "idle" /\ erased = 0 /\ wraps \in 0 .. MaxWraps /\ ready
    BY SameType, BurtcAssumption DEF Place, Typed
  <1>2. /\ TypeOK' /\ Storing' /\ Masking' /\ Reading' /\ Read' = Read /\ Place'
        /\ Valid1' = Valid1 /\ Valid2' = Valid2
    <2>1. at' = IF of THEN "erase" ELSE "retrieve"
      BY DEF AfterOverflow
    <2>2. of' /\ Serving' => FALSE
      BY <2>1 DEF Serving, InHandler
    <2> QED BY <1>1, <2>1, <2>2, SetupStep, SameType, Numbers DEF Typed, Quiet
  <1>3. Counting' /\ Resuming' /\ Erasing'
    <2>1. CASE of
      BY <1>1, <1>2, <2>1, SameType DEF AfterOverflow, Counting, Committed, Resuming, Erasing, Typed
    <2>2. CASE ~of
      <3>1. Trusted /\ Flag' = 0 /\ Now' = Now /\ at' = "retrieve"
        BY <1>1, <2>2 DEF Resuming, Flag, Now, AfterOverflow
      <3>2. One(Now)[1] = Now /\ Now \in Int
        BY Ones, Numbers
      <3> QED BY <1>2, <3>1, <3>2 DEF Counting, Committed, Resuming, Erasing, Trusted
    <2> QED BY <2>1, <2>2
  <1> QED BY <1>2, <1>3

LEMMA SetupRetrieveStep ==
  ASSUME IInv, SetupRetrieve
  PROVE  IInv'
  <1> USE DEF SetupRetrieve, goTo, backupVars, historyVars, IInv
  <1>1. pc = "idle" /\ erased = 0 /\ wraps \in 0 .. MaxWraps /\ ready
    BY SameType, BurtcAssumption DEF Place, Typed
  <1>2. high64' \in Word /\ Regs!Stored = Read /\ (Read # NoValue => Read = One(high64') /\ high64' = Read[1])
    BY ReadType, OneWord, Ones, SameType DEF Typed
  <1>3. /\ TypeOK' /\ Storing' /\ Masking' /\ Reading' /\ Read' = Read /\ Place'
        /\ Valid1' = Valid1 /\ Valid2' = Valid2
    <2>1. Serving' /\ of' => counter' <= Latency
      BY DEF Place, Serving
    <2> QED BY <1>1, <1>2, <2>1, SetupStep, SameType, Numbers DEF Typed, Quiet
  <1>4. Flag' = Flag /\ Now' = Now
    BY DEF Flag, Now
  <1>5. Counting' /\ Resuming' /\ Erasing'
    <2>1. CASE Read = NoValue
      <3>1. ~Valid1 /\ ~Valid2
        <4>1. reg[0] \in Word /\ reg[2] \in Word
          BY SameType DEF Typed
        <4> QED BY <2>1, <4>1, Ones DEF Read
      <3>2. at' = "erase" /\ Now = Flag
        BY <1>2, <2>1 DEF Resuming
      <3>3. ~of => Now = 0
        BY <3>2 DEF Flag
      <3> QED BY <1>1, <1>3, <1>4, <3>1, <3>2, <3>3, SameType
               DEF Counting, Committed, Resuming, Erasing, Typed
    <2>2. CASE Read # NoValue
      <3>1. at' = "enable" /\ Read[1] + Flag = Now
        BY <1>2, <2>2 DEF Resuming
      <3> QED BY <1>2, <1>3, <1>4, <2>2, <3>1 DEF Counting, Committed, Resuming, Erasing
    <2> QED BY <2>1, <2>2
  <1> QED BY <1>3, <1>5

LEMMA SetupEraseStep ==
  ASSUME IInv, SetupErase
  PROVE  IInv'
  <1> USE DEF SetupErase, goTo, EraseEnd, IInv
  <1>1. /\ pc = "idle" /\ ready /\ erased \in 0 .. 3 /\ reg \in [0 .. 3 -> Word]
        /\ wraps <= MaxWraps /\ ~masked /\ on /\ \A r \in Readers : rd[r] = NoRead
    BY SameType DEF Place, Typed
  <1>2. /\ UNCHANGED <<ready, counter, of, high64, on, masked, rd, pc, base, done, new, before,
                       wraps, lost>>
        /\ at' = IF erased < 3 THEN "erase" ELSE "reset"
        /\ erased' = IF erased < 3 THEN erased + 1 ELSE 0
    BY <1>1 DEF storeVars, historyVars
  <1>3. /\ reg' \in [0 .. 3 -> Word] /\ reg'[erased] = 0
        /\ \A i \in 0 .. 3 : i # erased => reg'[i] = reg[i]
    BY <1>1, Numbers
  <1>4. Typed'
    <2>1. erased' \in 0 .. 3 /\ at' \in Quiet
      BY <1>1, <1>2 DEF Quiet
    <2> QED BY <1>2, <1>3, <2>1, SameType DEF Typed
  <1>5. Place'
    BY <1>1, <1>2 DEF Place, Serving, InHandler
  <1>6. Storing' /\ Masking' /\ Reading'
    BY <1>1, <1>2, NoStoreStep, QuietStep DEF Quiet
  <1>7. Counting'
    BY <1>2 DEF Counting, Committed
  <1>8. Resuming'
    BY <1>2 DEF Resuming, Now
  <1>9. Erasing'
    <2>1. /\ \A i \in 0 .. 3 : i < erased => reg[i] = 0
          /\ ~of => (Valid1 => reg[0] = 0) /\ (Valid2 => reg[2] = 0)
      BY DEF Erasing
    <2>2. \A i \in 0 .. 3 : i < erased + 1 => reg'[i] = 0
      BY <1>1, <1>3, <2>1
    <2>3. ASSUME ~of PROVE (Valid1' => reg'[0] = 0) /\ (Valid2' => reg'[2] = 0)
      <3>1. CASE erased = 0
        BY <1>3, <2>1, <2>3, <3>1 DEF Valid1, Valid2
      <3>2. CASE erased > 0
        <4>1. reg'[0] = 0
          BY <1>1, <2>2, <3>2
        <4>2. Valid2' => reg'[2] = 0
          <5>1. CASE erased = 1
            BY <1>3, <2>1, <2>3, <5>1 DEF Valid2
          <5>2. CASE erased > 1
            BY <1>1, <2>2, <5>2
          <5> QED BY <1>1, <3>2, <5>1, <5>2
        <4> QED BY <4>1, <4>2
      <3> QED BY <1>1, <3>1, <3>2
    <2>4. CASE erased < 3
      BY <1>2, <2>2, <2>3, <2>4 DEF Erasing
    <2>5. CASE ~(erased < 3)
      <3>1. \A i \in 0 .. 3 : reg'[i] = 0
        BY <1>1, <2>2, <2>5
      <3> QED BY <1>2, <2>5, <3>1 DEF Erasing
    <2> QED BY <2>4, <2>5
  <1> QED BY <1>4, <1>5, <1>6, <1>7, <1>8, <1>9, SameTypeNext

LEMMA SetupResetStep ==
  ASSUME IInv, SetupReset
  PROVE  IInv'
  <1> USE DEF SetupReset, IInv
  <1>1. /\ pc = "idle" /\ ready /\ erased = 0 /\ reg \in [0 .. 3 -> Word]
        /\ wraps <= MaxWraps /\ ~masked /\ on /\ \A r \in Readers : rd[r] = NoRead
    BY SameType DEF Place, Typed
  <1>2. ~Valid1 /\ ~Valid2 /\ Read = NoValue
    <2>1. reg[0] = 0 /\ reg[1] = 0 /\ reg[2] = 0 /\ reg[3] = 0
      BY DEF Erasing
    <2> QED BY <2>1, Numbers DEF Valid1, Valid2, Read
  <1>3. One(0) = <<0>>
    BY DEF One
  <1>4. /\ UNCHANGED <<reg, on, ready, counter, of, masked, erased, rd, wraps, lost>>
        /\ high64' = 0 /\ at' = "resetting"
        /\ pc' = "write" /\ base' = 0 /\ done' = 0 /\ new' = One(0) /\ before' = NoValue
    BY <1>2, <1>3, OneWord DEF Regs!StoreBegin, Regs!Target, historyVars
  <1>5. Valid1' = Valid1 /\ Read' = NoValue
    BY <1>2, <1>4, SameRegisters
  <1>6. One(0) \in Regs!Value /\ 0 \in Word
    BY Numbers, Ones
  <1>7. Typed'
    BY <1>4, <1>6, SameType DEF Typed, Quiet, Regs!Value
  <1>8. Place'
    BY <1>1, <1>4 DEF Place, Serving, InHandler
  <1>9. Storing'
    <2>1. Regs!Value' = Regs!Value
      BY DEF Regs!Value
    <2> QED BY <1>2, <1>4, <1>5, <1>6, <2>1 DEF Storing
  <1>10. Masking' /\ Reading'
    BY <1>1, <1>4, QuietStep DEF Quiet
  <1>11. Counting' /\ Resuming' /\ Erasing'
    BY <1>4 DEF Counting, Committed, Resuming, Erasing, Now
  <1> QED BY <1>7, <1>8, <1>9, <1>10, <1>11, SameTypeNext

-----------------------------------------------------------------------------
(* A step of burtc_regs_store, called from rtc_setup or from the handler. *)
LEMMA RegisterWrite ==
  ASSUME IInv, Regs!StoreOn
  PROVE  /\ Storing' /\ reg' \in [0 .. 3 -> Word] /\ done' \in 0 .. 1
         /\ pc' \in {"write", "destroy", "return"}
         /\ UNCHANGED <<on, base, new, before>>
  <1> USE DEF IInv
  <1>1. /\ reg \in [0 .. 3 -> Word] /\ done \in 0 .. 1 /\ base \in {0, 2}
        /\ new \in Regs!Value /\ new[1] \in Word /\ new = One(new[1])
        /\ Read \in {before, new} /\ pc # "idle" /\ Regs!Value' = Regs!Value
        /\ W \in Nat /\ W > 1
    <2>1. pc # "idle"
      BY DEF Regs!StoreOn, Regs!StoreWord, Regs!StoreChecksum, Regs!StoreDestroy
    <2>2. new \in Regs!Value
      BY <2>1 DEF Storing
    <2>3. Regs!Value' = Regs!Value
      BY DEF Regs!Value
    <2> QED BY <2>1, <2>2, <2>3, Ones, SameType, Numbers DEF Typed, Storing
  <1>2. CASE Regs!StoreWord
    <2>1. /\ pc = "write" /\ pc' = "write" /\ done = 0 /\ done' = 1
          /\ UNCHANGED <<on, base, new, before>>
          /\ reg' = [reg EXCEPT ![base] = new[1]]
      <3>1. done = 0
        BY <1>1, <1>2 DEF Regs!StoreWord
      <3>2. base + done = base /\ done + 1 = 1
        BY <1>1, <3>1
      <3> QED BY <1>2, <3>1, <3>2 DEF Regs!StoreWord
    <2>2. reg' \in [0 .. 3 -> Word]
      BY <1>1, <2>1
    <2>3. CASE base = 2
      <3>1. Valid1 /\ Read = before
        BY <2>1, <2>3 DEF Storing
      <3>2. reg'[0] = reg[0] /\ reg'[1] = reg[1] /\ reg'[2] = new[1]
        BY <1>1, <2>1, <2>3
      <3>3. Valid1' /\ Read' = before
        BY <3>1, <3>2 DEF Valid1, Read
      <3> QED BY <1>1, <2>1, <2>2, <2>3, <3>2, <3>3 DEF Storing
    <2>4. CASE base = 0
      <3>1. ~Valid1 /\ Read = before
        BY <2>1, <2>4 DEF Storing
      <3>2. reg'[0] = new[1] /\ reg'[2] = reg[2] /\ reg'[3] = reg[3]
        BY <1>1, <2>1, <2>4
      <3>3. Valid2' = Valid2
        BY <3>2 DEF Valid2
      <3>4. Read' \in {before, new}
        BY <1>1, <3>1, <3>2, <3>3 DEF Read
      <3> QED BY <1>1, <2>1, <2>2, <2>4, <3>2, <3>4 DEF Storing
    <2> QED BY <1>1, <2>3, <2>4
  <1>3. CASE Regs!StoreChecksum
    <2>1. /\ pc = "write" /\ done = 1 /\ UNCHANGED <<on, done, base, new, before>>
          /\ reg' = [reg EXCEPT ![base + 1] = W - 1 - new[1]]
          /\ pc' = IF base = 2 THEN "destroy" ELSE "return"
      BY <1>3, OneWord DEF Regs!StoreChecksum, Checksum
    <2>2. W - 1 - new[1] \in Word
      BY <1>1 DEF Word
    <2>3. reg' \in [0 .. 3 -> Word]
      BY <1>1, <2>1, <2>2
    <2>4. CASE base = 2
      <3>1. Valid1 /\ Read = before /\ reg[2] = new[1]
        BY <2>1, <2>4 DEF Storing
      <3>2. reg'[0] = reg[0] /\ reg'[1] = reg[1] /\ reg'[2] = reg[2]
            /\ reg'[3] = W - 1 - new[1]
        BY <1>1, <2>1, <2>4
      <3>3. Valid1' /\ Valid2' /\ Read' = before
        BY <3>1, <3>2 DEF Valid1, Valid2, Read
      <3> QED BY <1>1, <2>1, <2>3, <2>4, <3>1, <3>2, <3>3 DEF Storing
    <2>5. CASE base = 0
      <3>1. reg[0] = new[1]
        BY <2>1, <2>5 DEF Storing
      <3>2. reg'[0] = new[1] /\ reg'[1] = W - 1 - new[1]
        BY <1>1, <2>1, <2>5, <3>1
      <3>3. Read' = new
        BY <1>1, <3>2 DEF Valid1, Read
      <3> QED BY <1>1, <2>1, <2>3, <2>5, <3>3 DEF Storing
    <2> QED BY <1>1, <2>4, <2>5
  <1>4. CASE Regs!StoreDestroy
    <2>1. /\ pc = "destroy" /\ pc' = "return" /\ UNCHANGED <<on, done, base, new, before>>
          /\ reg' = [reg EXCEPT ![1] = Incr(reg[1])]
      BY <1>4, OneWord DEF Regs!StoreDestroy, Regs!Destroyed
    <2>2. base = 2 /\ Valid1 /\ Valid2 /\ reg[2] = new[1]
      BY <2>1 DEF Storing
    <2>3. reg[1] \in Word /\ Incr(reg[1]) \in Word /\ Incr(reg[1]) # reg[1]
      <3>1. reg[1] \in 0 .. W - 1
        BY <1>1 DEF Word
      <3>2. CASE reg[1] + 1 < W
        <4>1. Incr(reg[1]) = reg[1] + 1
          BY <1>1, <3>1, <3>2 DEF Incr
        <4> QED BY <1>1, <3>1, <3>2, <4>1 DEF Word
      <3>3. CASE reg[1] + 1 = W
        <4>1. Incr(reg[1]) = 0
          BY <1>1, <3>3 DEF Incr
        <4> QED BY <1>1, <3>1, <3>3, <4>1 DEF Word
      <3> QED BY <1>1, <3>1, <3>2, <3>3
    <2>4. /\ reg' \in [0 .. 3 -> Word] /\ reg'[0] = reg[0] /\ reg'[1] # reg[1]
          /\ reg'[2] = reg[2] /\ reg'[3] = reg[3]
      BY <1>1, <2>1, <2>3
    <2>5. ~Valid1' /\ Valid2'
      BY <2>2, <2>4 DEF Valid1, Valid2
    <2>6. Read' = new
      BY <1>1, <2>2, <2>4, <2>5 DEF Read
    <2> QED BY <1>1, <2>1, <2>4, <2>6 DEF Storing
  <1> QED BY <1>2, <1>3, <1>4 DEF Regs!StoreOn

LEMMA StoreOnStep ==
  ASSUME IInv, StoreOn
  PROVE  IInv'
  <1> USE DEF StoreOn, IInv
  <1>1. /\ UNCHANGED <<ready, counter, of, high64, masked, at, erased, rd, wraps, lost, on,
                       base, new, before>>
        /\ Storing' /\ reg' \in [0 .. 3 -> Word] /\ done' \in 0 .. 1
        /\ pc' \in {"write", "destroy", "return"}
    BY RegisterWrite DEF historyVars
  <1>2. pc # "idle" /\ at \in {"resetting", "storing"} /\ ready
    BY DEF Regs!StoreOn, Regs!StoreWord, Regs!StoreChecksum, Regs!StoreDestroy, Place
  <1>3. new \in Regs!Value
    BY <1>2 DEF Storing
  <1>4. Typed'
    <2>1. Regs!Value' = Regs!Value
      BY DEF Regs!Value
    <2> QED BY <1>1, <1>3, <2>1, SameType DEF Typed
  <1>5. Place'
    BY <1>1, <1>2 DEF Place, Serving, InHandler
  <1>6. Counting' /\ Resuming' /\ Erasing'
    BY <1>1, <1>2 DEF Counting, Committed, Resuming, Erasing, Now, Flag
  <1>7. Masking' /\ Reading'
    BY <1>1 DEF Masking, HandlerMasks, Masks, Reading, ReadingOf, Timed, Behind, Then, Now
  <1> QED BY <1>1, <1>4, <1>5, <1>6, <1>7, SameTypeNext

LEMMA SetupStoredStep ==
  ASSUME IInv, SetupStored
  PROVE  IInv'
  <1> USE DEF SetupStored, Regs!StoreReturn, Regs!NoStore, IInv
  <1>1. /\ UNCHANGED <<reg, on, ready, counter, of, high64, masked, erased, rd, wraps, lost>>
        /\ at' = "forget" /\ pc' = "idle" /\ base' = 0 /\ done' = 0 /\ new' = Idle
        /\ before' = NoValue /\ at = "resetting" /\ pc = "return"
    BY OneWord DEF historyVars
  <1>2. Read' = One(0) /\ ready /\ on /\ ~masked /\ \A r \in Readers : rd[r] = NoRead
    BY <1>1, SameRegisters DEF Storing, Erasing, Place
  <1>3. Typed'
    BY <1>1, SameType DEF Typed, Quiet
  <1>4. Place'
    BY <1>1, <1>2 DEF Place, Serving, InHandler
  <1>5. Storing' /\ Masking' /\ Reading'
    BY <1>1, <1>2, NoStoreStep, QuietStep DEF Quiet
  <1>6. Counting' /\ Resuming' /\ Erasing'
    BY <1>1, <1>2 DEF Counting, Committed, Resuming, Erasing, Now
  <1> QED BY <1>3, <1>4, <1>5, <1>6, SameTypeNext

LEMMA SetupForgetStep ==
  ASSUME IInv, SetupForget
  PROVE  IInv'
  <1> USE DEF SetupForget, goTo, IInv
  <1>1. pc = "idle" /\ erased = 0 /\ ready /\ Read = One(0) /\ high64 = 0
    BY DEF Place, Erasing
  <1>0. of' \in BOOLEAN /\ ~of'
    OBVIOUS
  <1>2. counter' \in 0 .. M - 1 /\ wraps' \in 0 .. MaxWraps
        /\ lost' \in Nat /\ high64' = 0 /\ wraps' = 0 /\ lost' = 0
    BY <1>1, Numbers
  <1>3. /\ TypeOK' /\ Storing' /\ Masking' /\ Reading' /\ Read' = Read /\ Place'
    BY <1>0, <1>1, <1>2, SetupStep, SameType DEF Typed, Quiet
  <1>4. Flag' = 0 /\ Now' = 0
    BY <1>0, <1>2 DEF Flag, Now
  <1>5. Counting' /\ Resuming' /\ Erasing'
    BY <1>1, <1>2, <1>3, <1>4 DEF Counting, Committed, Resuming, Erasing
  <1> QED BY <1>3, <1>5

LEMMA SetupEnableStep ==
  ASSUME IInv, SetupEnable
  PROVE  IInv'
  <1> USE DEF SetupEnable, goTo, backupVars, historyVars, IInv
  <1>1. pc = "idle" /\ erased = 0 /\ ready /\ wraps \in 0 .. MaxWraps /\ (of => counter <= Latency)
    BY SameType, Numbers DEF Place, Typed, Serving
  <1>2. /\ TypeOK' /\ Storing' /\ Masking' /\ Reading' /\ Read' = Read /\ Place'
    BY <1>1, SetupStep, SameType, Numbers DEF Typed, Quiet
  <1>3. Flag' = Flag /\ Now' = Now
    BY DEF Flag, Now
  <1>4. Counting' /\ Resuming' /\ Erasing'
    BY <1>1, <1>2, <1>3 DEF Counting, Committed, Resuming, Erasing
  <1> QED BY <1>2, <1>4

LEMMA SetupSteps == IInv /\ Setup => IInv'
  BY SetupTestStep, SetupInitStep, SetupOverflowStep, SetupRetrieveStep, SetupEraseStep,
     SetupResetStep, SetupStoredStep, SetupForgetStep, SetupEnableStep DEF Setup

-----------------------------------------------------------------------------
(* The counter goes on. *)
LEMMA TickStep ==
  ASSUME IInv, Tick
  PROVE  IInv'
  <1> USE DEF Tick, IInv
  <1>1. /\ M \in Nat /\ M > 0 /\ Latency \in Nat /\ Duration \in Nat /\ Latency + Duration < M
        /\ counter \in 0 .. M - 1 /\ wraps \in Nat /\ lost \in Nat /\ MaxWraps \in Nat
        /\ Now \in Int /\ wraps <= MaxWraps
    BY SameType, Numbers DEF Typed, Place
  <1>2. /\ UNCHANGED <<reg, on, storeVars, high64, masked, at, erased, lost>> /\ ready
        /\ UNCHANGED ready /\ Read' = Read /\ Valid1' = Valid1 /\ Valid2' = Valid2
    BY SameRegisters
  <1>3. ASSUME NEW r \in Readers
        PROVE  /\ rd'[r].pc = rd[r].pc /\ rd'[r].first = rd[r].first
               /\ rd'[r].high = rd[r].high /\ rd'[r].overflew = rd[r].overflew
               /\ Timed(r) => rd'[r].age = rd[r].age + 1 /\ rd[r].age < Duration
               /\ ~Timed(r) => rd'[r] = rd[r]
    BY SameType DEF Typed, ReadState
  <1>4. Typed'
    <2>1. counter' \in 0 .. M - 1 /\ wraps' \in Nat
      BY <1>1
    <2>2. of' \in BOOLEAN
      OBVIOUS
    <2>3. rd' \in [Readers -> ReadState]
      BY <1>1, SameType DEF Typed, ReadState
    <2>4. Regs!Value' = Regs!Value
      BY DEF Regs!Value
    <2> QED BY <1>2, <2>1, <2>2, <2>3, <2>4, SameType DEF Typed, storeVars
  <1>5. Serving => /\ \/ Now' = Now /\ Flag' = Flag
                      \/ Now' = Now + 1 /\ Flag = 0 /\ Flag' = 1
                   /\ of' => counter' <= Latency
    <2> SUFFICES ASSUME Serving
                 PROVE  /\ \/ Now' = Now /\ Flag' = Flag
                           \/ Now' = Now + 1 /\ Flag = 0 /\ Flag' = 1
                        /\ of' => counter' <= Latency
      OBVIOUS
    <2>1. CASE counter = M - 1
      <3>1. ~of
        BY <1>1, <2>1
      <3>2. of' /\ counter' = 0 /\ wraps' = wraps + 1
        BY <2>1
      <3> QED BY <1>1, <1>2, <3>1, <3>2 DEF Flag, Now
    <2>2. CASE counter # M - 1
      <3>1. of' = of /\ counter' = counter + 1 /\ wraps' = wraps
        BY <2>2, Numbers
      <3> QED BY <1>1, <1>2, <3>1 DEF Flag, Now
    <2> QED BY <2>1, <2>2
  <1>6. ~of' => ~of /\ Now' = Now
    BY <1>1, <1>2 DEF Now
  <1>7. Place'
    <2>1. of' /\ Serving' => counter' <= Latency
      BY <1>2, <1>5 DEF Serving, InHandler
    <2>2. \A r \in Readers : rd[r] = NoRead => rd'[r] = NoRead
      BY <1>3 DEF Timed, NoRead
    <2>3. wraps' <= MaxWraps
      BY <1>1
    <2> QED BY <1>2, <2>1, <2>2, <2>3 DEF Place, storeVars
  <1>8. Storing'
    BY <1>2, SameStore
  <1>9. Counting'
    <2>1. Committed \/ at \in {"increment", "store", "storing"} => Serving
      BY DEF Committed, Serving, InHandler
    <2>2. high64 \in Nat /\ Flag \in {0, 1}
      BY Numbers
    <2>3. Committed' = Committed
      BY <1>2 DEF Committed
    <2>4. /\ Serving /\ high64 + Flag = Now => high64' + Flag' = Now'
          /\ Serving /\ high64 + 1 + Flag = Now => high64' + 1 + Flag' = Now'
      BY <1>1, <1>2, <1>5, <2>2
    <2>5. of => of'
      OBVIOUS
    <2>6. /\ UNCHANGED <<at, high64, before, new>> /\ Read' = Read
      BY <1>2 DEF storeVars
    <2> HIDE DEF Tick
    <2> QED BY <2>1, <2>3, <2>4, <2>5, <2>6 DEF Counting, IInv
  <1>10. Resuming'
    <2>1. at = "retrieve" => Serving
      BY DEF Serving
    <2>2. Read # NoValue => Read[1] \in Word
      BY ReadType, Ones
    <2>3. Trusted' \/ Now' # Now \/ ~Trusted
      BY <1>2 DEF Trusted
    <2>4. Flag \in {0, 1}
      BY Numbers
    <2>5. at = "retrieve" => IF Read = NoValue THEN Now' = Flag' ELSE Read[1] + Flag' = Now'
      <3> SUFFICES ASSUME at = "retrieve"
                   PROVE  IF Read = NoValue THEN Now' = Flag' ELSE Read[1] + Flag' = Now'
        OBVIOUS
      <3>1. IF Read = NoValue THEN Now = Flag ELSE Read[1] + Flag = Now
        BY DEF Resuming
      <3> QED BY <1>1, <1>5, <2>1, <2>2, <2>4, <3>1 DEF Word
    <2> QED BY <1>2, <1>6, <2>3, <2>5 DEF Resuming
  <1>11. Erasing'
    BY <1>2, <1>6 DEF Erasing, storeVars
  <1>12. Masking'
    <2>1. \A r \in Readers : Masks(r)' <=> Masks(r)
      BY <1>3 DEF Masks
    <2>2. "main" \in Readers /\ "irq" \in Readers /\ HandlerMasks' = HandlerMasks
      BY <1>2 DEF Readers, HandlerMasks
    <2> QED BY <1>2, <1>3, <2>1, <2>2 DEF Masking
  <1>13. ASSUME NEW r \in Readers PROVE ReadingOf(r)'
    <2>1. ReadingOf(r) /\ rd[r] \in ReadState
      BY SameType DEF Reading, Typed
    <2>2. Timed(r)' <=> Timed(r)
      BY <1>3 DEF Timed
    <2>3. CASE ~Timed(r)
      BY <1>3, <2>1, <2>2, <2>3 DEF ReadingOf, Timed
    <2>4. CASE Timed(r)
      <3>1. /\ rd[r].age \in Nat /\ rd[r].first \in 0 .. M - 1 /\ rd[r].age < Duration
            /\ rd'[r].age = rd[r].age + 1 /\ rd'[r].first = rd[r].first
            /\ \/ counter = rd[r].first + rd[r].age
               \/ counter = rd[r].first + rd[r].age - M
        BY <1>3, <2>1, <2>4 DEF ReadingOf, ReadState
      <3>2. /\ \/ counter' = rd'[r].first + rd'[r].age
               \/ counter' = rd'[r].first + rd'[r].age - M
            /\ Then(r)' = Then(r)
            /\ counter < rd[r].first => counter' < rd'[r].first
        <4>1. CASE counter = M - 1
          <5>1. counter = rd[r].first + rd[r].age /\ rd[r].first > 0 /\ counter' = 0
                /\ Now' = Now + 1
            BY <1>1, <1>2, <3>1, <4>1 DEF Now
          <5> QED BY <1>1, <3>1, <4>1, <5>1 DEF Then
        <4>2. CASE counter # M - 1
          <5>1. counter' = counter + 1 /\ Now' = Now
            BY <1>1, <1>2, <4>2 DEF Now
          <5> QED BY <1>1, <3>1, <4>2, <5>1 DEF Then
        <4> QED BY <4>1, <4>2
      <3>3. \A n : Behind(r, n) => (n = Then(r)' \/ (n = Then(r)' - 1 /\ rd'[r].first <= Latency))
        BY <3>1, <3>2 DEF Behind
      <3>4. /\ rd'[r].pc \in {"high", "flag"} => Behind(r, high64)'
            /\ rd'[r].pc = "flag" => rd'[r].high = high64'
        BY <1>2, <1>3, <2>1, <3>3 DEF ReadingOf, Behind
      <3>5. rd'[r].pc \in {"unmask", "second"} => Behind(r, rd[r].high)'
        BY <1>3, <2>1, <3>1, <3>2 DEF ReadingOf, Behind
      <3> QED BY <1>3, <2>1, <2>2, <2>4, <3>2, <3>4, <3>5 DEF ReadingOf
    <2> QED BY <2>3, <2>4
  <1> QED BY <1>4, <1>7, <1>8, <1>9, <1>10, <1>11, <1>12, <1>13, SameTypeNext DEF Reading

-----------------------------------------------------------------------------
(* The steps of the handler: no reading is within its masked section, and   *)
(* none but the handler changes high64.                                      *)

LEMMA HandlerAlone ==
  ASSUME IInv, at \in {"main", "mask"} \cup {"clear", "increment", "store", "storing", "unmask"},
         at \in {"main", "mask"} => rd["irq"].pc = "idle" /\ (at = "main" => ~masked)
  PROVE  \A r \in Readers : ~Masks(r)
  <1> USE DEF IInv
  <1>1. ~Masks("irq")
    BY DEF Masks, Masking, HandlerMasks
  <1>2. ~Masks("main")
    BY DEF Masking, HandlerMasks, Readers
  <1> QED BY <1>1, <1>2 DEF Readers

LEMMA SameReading ==
  ASSUME IInv, UNCHANGED <<rd, counter, wraps, lost>>,
         \A r \in Readers : ~Masks(r)
  PROVE  Reading'
  <1>1. \A r \in Readers : rd[r].pc \notin {"high", "flag"}
    BY DEF Masks
  <1> QED BY <1>1 DEF IInv, Reading, ReadingOf, Timed, Behind, Then, Now

(* What is left to show of a step of the handler. *)
LEMMA HandlerStep ==
  ASSUME IInv, \A r \in Readers : ~Masks(r),
         UNCHANGED <<on, ready, counter, erased, rd, wraps, lost>>,
         at \in {"main", "mask", "clear", "increment", "store", "storing", "unmask"},
         at' \in {"main", "mask", "clear", "increment", "store", "storing", "unmask"},
         of' \in BOOLEAN, of' => of, masked' \in BOOLEAN, masked' <=> HandlerMasks',
         HandlerMasks' => rd["irq"].pc = "idle",
         pc' # "idle" <=> at' = "storing"
  PROVE  Place' /\ Resuming' /\ Erasing' /\ Masking' /\ Reading'
  <1> USE DEF IInv
  <1>1. Place'
    <2>1. ready /\ on /\ Serving /\ erased = 0
      BY DEF Place, Serving, InHandler
    <2> QED BY <2>1 DEF Place
  <1>2. Resuming' /\ Erasing'
    BY DEF Resuming, Erasing
  <1>3. Masking'
    <2>1. \A r \in Readers : ~Masks(r)'
      BY DEF Masks
    <2>2. "main" \in Readers /\ "irq" \in Readers
      BY DEF Readers
    <2> QED BY <2>1, <2>2 DEF Masking
  <1> QED BY <1>1, <1>2, <1>3, SameReading

LEMMA IsrEnterStep ==
  ASSUME IInv, IsrEnter
  PROVE  IInv'
  <1> USE DEF IsrEnter, goTo, backupVars, historyVars, IInv
  <1>1. pc = "idle" /\ \A r \in Readers : ~Masks(r)
    BY HandlerAlone DEF IsrRuns, Place
  <1>2. Typed'
    BY SameType DEF Typed, storeVars
  <1>3. Storing' /\ Read' = Read
    BY SameStore, SameRegisters
  <1>4. Place' /\ Resuming' /\ Erasing' /\ Masking' /\ Reading'
    BY <1>1, HandlerStep, SameType DEF Typed, HandlerMasks, IsrRuns, storeVars
  <1>5. Counting'
    BY <1>3 DEF Counting, Committed, Flag, Now
  <1> QED BY <1>2, <1>3, <1>4, <1>5, SameTypeNext

LEMMA IsrMaskStep ==
  ASSUME IInv, IsrMask
  PROVE  IInv'
  <1> USE DEF IsrMask, IsrMasks, backupVars, historyVars, IInv
  <1>1. pc = "idle" /\ \A r \in Readers : ~Masks(r)
    BY HandlerAlone DEF IsrRuns, Place
  <1>2. Typed'
    BY SameType DEF Typed, storeVars
  <1>3. Storing' /\ Read' = Read
    BY SameStore, SameRegisters
  <1>4. Place' /\ Resuming' /\ Erasing' /\ Masking' /\ Reading'
    BY <1>1, HandlerStep, SameType DEF Typed, HandlerMasks, IsrRuns, storeVars
  <1>5. Counting'
    BY <1>3 DEF Counting, Committed, Flag, Now
  <1> QED BY <1>2, <1>3, <1>4, <1>5, SameTypeNext

LEMMA IsrClearStep ==
  ASSUME IInv, IsrClear
  PROVE  IInv'
  <1> USE DEF IsrClear, goTo, historyVars, IInv
  <1>1. pc = "idle" /\ of /\ \A r \in Readers : ~Masks(r)
    BY HandlerAlone DEF IsrRuns, Place, Counting
  <1>2. Typed'
    BY SameType DEF Typed, storeVars
  <1>3. Storing' /\ Read' = Read
    BY SameStore, SameRegisters
  <1>4. masked
    BY DEF Masking, HandlerMasks
  <1>5. Place' /\ Resuming' /\ Erasing' /\ Masking' /\ Reading'
    BY <1>1, <1>4, HandlerStep, SameType DEF Typed, HandlerMasks, IsrRuns, storeVars
  <1>6. Counting'
    <2>1. Flag = 1 /\ Flag' = 0 /\ Now' = Now
      BY <1>1 DEF Flag, Now
    <2>2. Read = One(high64) /\ high64 + 1 = Now
      BY <2>1 DEF Counting, Committed
    <2>3. high64 + 1 + 0 = high64 + 1
      BY Numbers
    <2> QED BY <1>3, <2>1, <2>2, <2>3 DEF Counting, Committed
  <1> QED BY <1>2, <1>3, <1>5, <1>6, SameTypeNext

LEMMA IsrIncrementStep ==
  ASSUME IInv, IsrIncrement
  PROVE  IInv'
  <1> USE DEF IsrIncrement, goTo, backupVars, historyVars, IInv
  <1>1. pc = "idle" /\ masked /\ \A r \in Readers : ~Masks(r)
    <2>1. masked
      BY DEF Masking, HandlerMasks
    <2> QED BY <2>1, HandlerAlone DEF IsrRuns, Place
  <1>2. Read = One(high64) /\ high64 + 1 + Flag = Now
    BY DEF Counting
  <1>3. high64' = high64 + 1 /\ high64 \in Nat /\ high64' \in Word
    <2>1. high64 + 1 < W /\ high64 \in Nat /\ W \in Nat
      BY <1>2, Numbers
    <2>2. high64 + 1 \in 0 .. W - 1
      BY <2>1
    <2>3. (high64 + 1) % W = high64 + 1
      BY <2>1
    <2> QED BY <2>1, <2>2, <2>3 DEF Incr, Word
  <1>4. Typed'
    BY <1>3, SameType DEF Typed, storeVars
  <1>5. Storing' /\ Read' = Read
    BY SameStore, SameRegisters
  <1>6. Place' /\ Resuming' /\ Erasing' /\ Masking' /\ Reading'
    BY <1>1, HandlerStep, SameType DEF Typed, HandlerMasks, IsrRuns, storeVars
  <1>7. Counting'
    <2>1. Flag' = Flag /\ Now' = Now /\ high64' - 1 = high64 /\ high64' > 0
          /\ high64' + Flag' = Now'
      <3>1. Flag' = Flag /\ Now' = Now
        BY DEF Flag, Now
      <3> QED BY <1>2, <1>3, <3>1, Numbers
    <2> QED BY <1>2, <1>5, <2>1 DEF Counting, Committed
  <1> QED BY <1>4, <1>5, <1>6, <1>7, SameTypeNext

LEMMA IsrStoreStep ==
  ASSUME IInv, IsrStore
  PROVE  IInv'
  <1> USE DEF IsrStore, historyVars, IInv
  <1>1. pc = "idle" /\ masked /\ \A r \in Readers : ~Masks(r)
    <2>1. masked
      BY DEF Masking, HandlerMasks
    <2> QED BY <2>1, HandlerAlone DEF IsrRuns, Place
  <1>2. One(high64) = <<high64>>
    BY DEF One
  <1>3. Read = One(high64 - 1) /\ high64 > 0 /\ high64 + Flag = Now
    BY DEF Counting
  <1>4. /\ UNCHANGED <<reg, on, ready, counter, of, high64, masked, erased, rd, wraps, lost>>
        /\ pc' = "write" /\ base' = (IF Valid1 THEN 2 ELSE 0) /\ done' = 0
        /\ new' = One(high64) /\ before' = Read /\ at' = "storing"
    BY <1>2, OneWord DEF Regs!StoreBegin, Regs!Target
  <1>5. Read' = Read /\ Valid1' = Valid1
    BY <1>4, SameRegisters
  <1>6. One(high64) \in Regs!Value /\ Regs!Value' = Regs!Value
    BY Ones, SameType DEF Typed, Regs!Value
  <1>7. Typed'
    BY <1>4, <1>6, ReadType, SameType DEF Typed
  <1>8. Storing'
    BY <1>4, <1>5, <1>6 DEF Storing
  <1>9. Place' /\ Resuming' /\ Erasing' /\ Masking' /\ Reading'
    BY <1>1, <1>4, HandlerStep, SameType DEF Typed, HandlerMasks, IsrRuns
  <1>10. Counting'
    BY <1>3, <1>4, <1>5 DEF Counting, Committed, Flag, Now
  <1> QED BY <1>7, <1>8, <1>9, <1>10, SameTypeNext

LEMMA IsrStoredStep ==
  ASSUME IInv, IsrStored
  PROVE  IInv'
  <1> USE DEF IsrStored, Regs!StoreReturn, Regs!NoStore, historyVars, IInv
  <1>1. masked /\ rd["irq"].pc = "idle" /\ \A r \in Readers : ~Masks(r)
    <2>1. masked /\ rd["irq"].pc = "idle"
      BY DEF Masking, HandlerMasks
    <2> QED BY <2>1, HandlerAlone
  <1>2. /\ UNCHANGED <<reg, on, ready, counter, of, high64, masked, erased, rd, wraps, lost>>
        /\ pc' = "idle" /\ base' = 0 /\ done' = 0 /\ new' = Idle /\ before' = NoValue
        /\ at' = "unmask"
    BY OneWord
  <1>3. Read' = One(high64) /\ high64 + Flag = Now
    BY <1>2, SameRegisters DEF Storing, Counting
  <1>4. Typed'
    BY <1>2, SameType DEF Typed
  <1>5. Place' /\ Resuming' /\ Erasing' /\ Masking' /\ Reading'
    BY <1>1, <1>2, HandlerStep, SameType DEF Typed, HandlerMasks
  <1>6. Counting'
    BY <1>2, <1>3 DEF Counting, Committed, Flag, Now
  <1> QED BY <1>2, <1>4, <1>5, <1>6, NoStoreStep, SameTypeNext

LEMMA IsrUnmaskStep ==
  ASSUME IInv, IsrUnmask
  PROVE  IInv'
  <1> USE DEF IsrUnmask, backupVars, historyVars, IInv
  <1>1. pc = "idle" /\ \A r \in Readers : ~Masks(r)
    BY HandlerAlone DEF IsrRuns, Place
  <1>2. Typed'
    BY SameType DEF Typed, storeVars
  <1>3. Storing' /\ Read' = Read
    BY SameStore, SameRegisters
  <1>4. Place' /\ Resuming' /\ Erasing' /\ Masking' /\ Reading'
    BY <1>1, HandlerStep, SameType DEF Typed, HandlerMasks, IsrRuns, storeVars
  <1>5. Counting'
    BY <1>3 DEF Counting, Committed, Flag, Now
  <1> QED BY <1>2, <1>3, <1>4, <1>5, SameTypeNext

LEMMA IsrSteps == IInv /\ (IsrEnter \/ Isr) => IInv'
  BY IsrEnterStep, IsrMaskStep, IsrClearStep, IsrIncrementStep, IsrStoreStep, IsrStoredStep,
     IsrUnmaskStep DEF Isr

-----------------------------------------------------------------------------
(* The readings. *)

(* A step of one reading changes nothing but its locals and the mask. *)
LEMMA ReaderStep ==
  ASSUME IInv, NEW r \in Readers, getOnly,
         \A s \in Readers : s # r => rd'[s] = rd[s],
         rd' \in [Readers -> ReadState], masked' \in BOOLEAN,
         at = "main" \/ InHandler,
         Masking', ReadingOf(r)'
  PROVE  IInv'
  <1> USE DEF getOnly, backupVars, historyVars, IInv
  <1>1. Typed'
    BY SameType DEF Typed, storeVars
  <1>2. Storing' /\ Read' = Read
    BY SameStore, SameRegisters
  <1>3. Place'
    <2>1. at \notin {"off", "setup", "init", "overflow", "retrieve", "erase", "reset",
                     "resetting", "forget", "enable"}
      BY DEF InHandler
    <2>2. Serving' = Serving
      BY DEF Serving, InHandler
    <2>3. UNCHANGED <<on, pc, ready, erased, at, wraps, of, counter>>
      BY DEF storeVars
    <2> HIDE DEF getOnly
    <2> QED BY <1>2, <2>1, <2>2, <2>3 DEF Place
  <1>4. Counting' /\ Resuming' /\ Erasing'
    BY <1>2 DEF Counting, Committed, Resuming, Erasing, Flag, Now, InHandler, storeVars
  <1>5. Reading'
    <2>1. ASSUME NEW s \in Readers, s # r
          PROVE  ReadingOf(s)'
      BY <2>1 DEF Reading, ReadingOf, Timed, Behind, Then, Now
    <2> QED BY <2>1 DEF Reading
  <1> QED BY <1>1, <1>2, <1>3, <1>4, <1>5, SameTypeNext

LEMMA StillMasking ==
  ASSUME IInv, NEW r \in Readers, UNCHANGED <<masked, at>>, Masks(r), Masks(r)',
         \A s \in Readers : s # r => rd'[s] = rd[s]
  PROVE  Masking'
  <1> USE DEF IInv
  <1>1. HandlerMasks' = HandlerMasks /\ "main" \in Readers /\ "irq" \in Readers
    BY DEF HandlerMasks, Readers
  <1>2. \A s \in Readers : Masks(s)' <=> Masks(s)
    BY DEF Masks
  <1>3. r = "irq" => ~HandlerMasks /\ ~Masks("main")
    BY DEF Masking, Masks
  <1>4. r = "main" => rd'["irq"] = rd["irq"]
    BY <1>1
  <1> QED BY <1>1, <1>2, <1>3, <1>4 DEF Masking, Readers

(* Within the masked section of a reading the handler is not within its own. *)
LEMMA CountedWhileMasked ==
  ASSUME IInv, NEW r \in Readers, Masks(r)
  PROVE  /\ at \in {"main", "mask"} /\ high64 + Flag = Now
         /\ ~HandlerMasks /\ \A s \in Readers : s # r => ~Masks(s)
  <1> USE DEF IInv
  <1>1. ~HandlerMasks /\ \A s \in Readers : s # r => ~Masks(s)
    BY DEF Masking, Readers, Masks
  <1>2. at \in {"main", "mask"}
    <2>1. at \notin Quiet
      BY DEF Place, Quiet, Masks, NoRead
    <2> QED BY <1>1, <2>1, SameType DEF HandlerMasks, Typed
  <1> QED BY <1>1, <1>2 DEF Counting, Committed

LEMMA GetMaskStep ==
  ASSUME IInv, NEW r \in Readers, GetMask(r)
  PROVE  IInv'
  <1> USE DEF GetMask, IInv
  <1>1. rd \in [Readers -> ReadState] /\ rd[r].pc = "idle" /\ ~masked
    BY SameType DEF Typed
  <1>2. /\ rd' \in [Readers -> ReadState] /\ rd'[r].pc = "first" /\ rd'[r].age = rd[r].age
        /\ \A s \in Readers : s # r => rd'[s] = rd[s]
    BY <1>1 DEF ReadState
  <1>3. Masking'
    <2>1. ~HandlerMasks /\ \A s \in Readers : ~Masks(s)
      BY <1>1 DEF Masking
    <2>2. ~HandlerMasks' /\ Masks(r)' /\ \A s \in Readers : s # r => ~Masks(s)'
      BY <1>2, <2>1 DEF HandlerMasks, Masks, getOnly
    <2>3. r = "main" => at' = "main" /\ rd'["irq"].pc = "idle"
      BY <1>2 DEF Runs, IsrRuns, getOnly, Readers
    <2>4. "main" \in Readers /\ "irq" \in Readers
      BY DEF Readers
    <2> QED BY <2>2, <2>3, <2>4 DEF Masking
  <1>4. ReadingOf(r)'
    <2>1. rd[r].age = 0
      BY <1>1 DEF Reading, ReadingOf, Timed
    <2> QED BY <1>2, <2>1 DEF ReadingOf, Timed
  <1>5. masked' \in BOOLEAN
    OBVIOUS
  <1> QED BY <1>2, <1>3, <1>4, <1>5, ReaderStep

LEMMA GetFirstStep ==
  ASSUME IInv, NEW r \in Readers, GetFirst(r)
  PROVE  IInv'
  <1> USE DEF GetFirst, IInv
  <1>1. rd \in [Readers -> ReadState] /\ rd[r].pc = "first" /\ counter \in 0 .. M - 1
        /\ masked' \in BOOLEAN
    BY SameType DEF Typed
  <1>2. /\ rd' \in [Readers -> ReadState] /\ rd'[r].pc = "high" /\ rd'[r].age = rd[r].age
        /\ rd'[r].first = counter
        /\ \A s \in Readers : s # r => rd'[s] = rd[s]
    BY <1>1 DEF ReadState
  <1>3. Masks(r) /\ Masks(r)'
    BY <1>1, <1>2 DEF Masks
  <1>4. Masking'
    BY <1>2, <1>3, StillMasking DEF getOnly
  <1>5. at \in {"main", "mask"} /\ high64 + Flag = Now
    BY <1>3, CountedWhileMasked
  <1>6. ReadingOf(r)'
    <2>1. rd[r].age = 0 /\ counter' = counter /\ high64' = high64 /\ Now' = Now
      BY <1>1 DEF Reading, ReadingOf, Timed, getOnly, backupVars, historyVars, Now
    <2>2. of => counter <= Latency
      BY <1>5 DEF Place, Serving, InHandler
    <2>3. Then(r)' = Now
      BY <1>1, <1>2, <2>1 DEF Then
    <2>4. Behind(r, high64)'
      <3>1. high64 = Now \/ (high64 = Now - 1 /\ of)
        BY <1>5, Numbers DEF Flag
      <3> QED BY <1>2, <2>1, <2>2, <2>3, <3>1 DEF Behind
    <2>5. counter' = rd'[r].first + rd'[r].age
      BY <1>1, <1>2, <2>1
    <2> QED BY <1>2, <2>4, <2>5 DEF ReadingOf, Timed
  <1>7. at = "main" \/ InHandler
    BY <1>5 DEF InHandler
  <1> QED BY <1>1, <1>2, <1>4, <1>6, <1>7, ReaderStep

LEMMA GetHighStep ==
  ASSUME IInv, NEW r \in Readers, GetHigh(r)
  PROVE  IInv'
  <1> USE DEF GetHigh, IInv
  <1>1. rd \in [Readers -> ReadState] /\ rd[r].pc = "high" /\ high64 \in Word
        /\ masked' \in BOOLEAN
    BY SameType DEF Typed
  <1>2. /\ rd' \in [Readers -> ReadState] /\ rd'[r].pc = "flag" /\ rd'[r].age = rd[r].age
        /\ rd'[r].first = rd[r].first /\ rd'[r].high = high64
        /\ \A s \in Readers : s # r => rd'[s] = rd[s]
    BY <1>1 DEF ReadState
  <1>3. Masks(r) /\ Masks(r)'
    BY <1>1, <1>2 DEF Masks
  <1>4. Masking'
    BY <1>2, <1>3, StillMasking DEF getOnly
  <1>5. at = "main" \/ InHandler
    BY <1>3, CountedWhileMasked DEF InHandler
  <1>6. ReadingOf(r)'
    <2>1. counter' = counter /\ high64' = high64 /\ Now' = Now
      BY DEF getOnly, backupVars, historyVars, Now
    <2>2. Then(r)' = Then(r)
      BY <1>2, <2>1 DEF Then
    <2> QED BY <1>1, <1>2, <2>1, <2>2 DEF Reading, ReadingOf, Timed, Behind
  <1> QED BY <1>1, <1>2, <1>4, <1>5, <1>6, ReaderStep

LEMMA GetFlagStep ==
  ASSUME IInv, NEW r \in Readers, GetFlag(r)
  PROVE  IInv'
  <1> USE DEF GetFlag, IInv
  <1>1. rd \in [Readers -> ReadState] /\ rd[r].pc = "flag" /\ of \in BOOLEAN
        /\ masked' \in BOOLEAN
    BY SameType, Numbers DEF Typed
  <1>2. /\ rd' \in [Readers -> ReadState] /\ rd'[r].pc = "unmask" /\ rd'[r].age = rd[r].age
        /\ rd'[r].first = rd[r].first /\ rd'[r].high = rd[r].high /\ rd'[r].overflew = of
        /\ \A s \in Readers : s # r => rd'[s] = rd[s]
    BY <1>1 DEF ReadState
  <1>3. Masks(r) /\ Masks(r)'
    BY <1>1, <1>2 DEF Masks
  <1>4. Masking'
    BY <1>2, <1>3, StillMasking DEF getOnly
  <1>5. at \in {"main", "mask"} /\ high64 + Flag = Now
    BY <1>3, CountedWhileMasked
  <1>6. ReadingOf(r)'
    <2>1. counter' = counter /\ Now' = Now
      BY DEF getOnly, backupVars, historyVars, Now
    <2>2. Then(r)' = Then(r)
      BY <1>2, <2>1 DEF Then
    <2>3. ReadingOf(r)
      BY DEF Reading
    <2>4. Behind(r, rd[r].high) /\ rd[r].high = high64
      BY <1>1, <2>3 DEF ReadingOf
    <2>5. /\ \/ counter < rd[r].first /\ Then(r) = Now - 1
             \/ ~(counter < rd[r].first) /\ Then(r) = Now
          /\ \/ of /\ high64 = Now - 1
             \/ ~of /\ high64 = Now
          /\ high64 = Then(r) \/ high64 = Then(r) - 1
          /\ Now \in Int
      BY <1>1, <1>5, <2>4, Numbers DEF Then, Flag, Behind
    <2>6. high64 # Then(r) => of
      BY <2>5
    <2>7. of => high64 # Then(r) \/ counter < rd[r].first
      BY <2>5
    <2>8. Behind(r, rd[r].high)'
      BY <1>2, <2>2, <2>4 DEF Behind
    <2>9. /\ ~Timed(r)' => rd'[r].age = 0
          /\ Timed(r)' => \/ counter' = rd'[r].first + rd'[r].age
                          \/ counter' = rd'[r].first + rd'[r].age - M
      BY <1>1, <1>2, <2>1, <2>3 DEF ReadingOf, Timed
    <2> QED BY <1>2, <2>1, <2>2, <2>4, <2>6, <2>7, <2>8, <2>9 DEF ReadingOf
  <1>7. at = "main" \/ InHandler
    BY <1>5 DEF InHandler
  <1> QED BY <1>1, <1>2, <1>4, <1>6, <1>7, ReaderStep

LEMMA GetUnmaskStep ==
  ASSUME IInv, NEW r \in Readers, GetUnmask(r)
  PROVE  IInv'
  <1> USE DEF GetUnmask, IInv
  <1>1. rd \in [Readers -> ReadState] /\ rd[r].pc = "unmask" /\ ~masked'
    BY SameType DEF Typed
  <1>2. /\ rd' \in [Readers -> ReadState] /\ rd'[r].pc = "second" /\ rd'[r].age = rd[r].age
        /\ rd'[r].first = rd[r].first /\ rd'[r].high = rd[r].high
        /\ rd'[r].overflew = rd[r].overflew
        /\ \A s \in Readers : s # r => rd'[s] = rd[s]
    BY <1>1 DEF ReadState
  <1>3. Masks(r)
    BY <1>1 DEF Masks
  <1>4. at \in {"main", "mask"} /\ ~HandlerMasks /\ \A s \in Readers : s # r => ~Masks(s)
    BY <1>3, CountedWhileMasked
  <1>5. Masking'
    <2>1. ~HandlerMasks' /\ \A s \in Readers : ~Masks(s)'
      BY <1>2, <1>4 DEF HandlerMasks, Masks, getOnly
    <2> QED BY <1>1, <2>1 DEF Masking, Readers
  <1>6. ReadingOf(r)'
    <2>1. counter' = counter /\ Now' = Now
      BY DEF getOnly, backupVars, historyVars, Now
    <2>2. Then(r)' = Then(r)
      BY <1>2, <2>1 DEF Then
    <2> QED BY <1>1, <1>2, <2>1, <2>2 DEF Reading, ReadingOf, Timed, Behind
  <1>7. at = "main" \/ InHandler
    BY <1>4 DEF InHandler
  <1>8. masked' \in BOOLEAN
    BY <1>1
  <1> QED BY <1>2, <1>5, <1>6, <1>7, <1>8, ReaderStep

LEMMA GetSecondStep ==
  ASSUME IInv, NEW r \in Readers, GetSecond(r)
  PROVE  IInv'
  <1> USE DEF GetSecond, IInv
  <1>1. rd \in [Readers -> ReadState] /\ rd[r].pc = "second" /\ masked' \in BOOLEAN
    BY SameType DEF Typed
  <1>2. NoRead \in ReadState
    BY Numbers DEF NoRead, ReadState
  <1>3. /\ rd' \in [Readers -> ReadState] /\ rd'[r] = NoRead
        /\ \A s \in Readers : s # r => rd'[s] = rd[s]
    BY <1>1, <1>2
  <1>4. at \notin Quiet
    BY <1>1 DEF Place, Quiet, NoRead
  <1>5. at = "main" \/ InHandler
    BY <1>4, SameType DEF InHandler, Typed
  <1>6. Masking'
    <2>1. \A s \in Readers : Masks(s)' <=> Masks(s)
      BY <1>1, <1>3 DEF Masks, NoRead
    <2>2. HandlerMasks' = HandlerMasks /\ at' = at /\ masked' = masked
      BY DEF HandlerMasks, getOnly
    <2>3. "main" \in Readers /\ "irq" \in Readers
      BY DEF Readers
    <2>4. rd["irq"].pc = "idle" => rd'["irq"].pc = "idle"
      BY <1>3, <2>3 DEF NoRead
    <2> QED BY <2>1, <2>2, <2>3, <2>4 DEF Masking
  <1>7. ReadingOf(r)'
    BY <1>3 DEF ReadingOf, Timed, NoRead
  <1> QED BY <1>1, <1>3, <1>5, <1>6, <1>7, ReaderStep

-----------------------------------------------------------------------------
LEMMA StepInv == IInv /\ [Next]_vars => IInv'
  <1> SUFFICES ASSUME IInv, [Next]_vars PROVE IInv'
    OBVIOUS
  <1>1. CASE Tick \/ PowerUp \/ PowerLoss \/ BackupLoss
    BY <1>1, TickStep, PowerUpStep, PowerLossStep, BackupLossStep
  <1>2. CASE Setup \/ StoreOn
    BY <1>2, SetupSteps, StoreOnStep
  <1>3. CASE IsrEnter \/ Isr
    BY <1>3, IsrSteps
  <1>4. ASSUME NEW r \in Readers, GetMask(r) \/ GetOn(r)
        PROVE  IInv'
    BY <1>4, GetMaskStep, GetFirstStep, GetHighStep, GetFlagStep, GetUnmaskStep,
       GetSecondStep DEF GetOn
  <1>5. CASE UNCHANGED vars
    <2>1. UNCHANGED <<reg, on, pc, base, done, new, before, ready, counter, of, high64, masked,
                      at, erased, rd, wraps, lost>>
      BY <1>5 DEF vars, backupVars, storeVars, historyVars
    <2>2. Typed' /\ Storing' /\ Read' = Read /\ Valid1' = Valid1 /\ Valid2' = Valid2
      <3>1. Regs!Value' = Regs!Value
        BY DEF Regs!Value
      <3> QED BY <2>1, <3>1, SameType, SameStore, SameRegisters DEF Typed, IInv, storeVars
    <2>3. Place' /\ Counting' /\ Resuming' /\ Erasing'
      BY <2>1, <2>2 DEF IInv, Place, Serving, InHandler, Counting, Committed, Resuming, Trusted,
                        Erasing, Flag, Now
    <2>4. Masking' /\ Reading'
      BY <2>1 DEF IInv, Masking, HandlerMasks, Masks, Reading, ReadingOf, Timed, Behind, Then, Now
    <2> QED BY <2>2, <2>3, <2>4, SameTypeNext DEF IInv
  <1> QED BY <1>1, <1>2, <1>3, <1>4, <1>5 DEF Next

(* The inductive invariant holds in every behaviour. *)
THEOREM Invariance == Spec => []IInv
  BY InitInv, StepInv, PTL DEF Spec

(* Every variable of the clock keeps to its type; high64 never overflows    *)
(* within the bound on the wraps.                                            *)
THEOREM TypeCorrect == Spec => []TypeOK
  <1>1. IInv => TypeOK
    BY DEF IInv
  <1> QED BY <1>1, Invariance, PTL

(* However often the power fails, rtc_setup and BURTC_IRQHandler account    *)
(* for every wrap but those that a power loss found uncommitted.             *)
THEOREM AccountsForEveryWrap == Spec => []Accounted
  <1>1. IInv => Accounted
    BY DEF IInv, Counting, Committed, Accounted, Now
  <1> QED BY <1>1, Invariance, PTL

(* What a reading returns is the present count. *)
LEMMA ReadingExact ==
  ASSUME IInv, NEW r \in Readers, rd[r].pc = "second"
  PROVE  High(rd[r]) = Now
  <1>1. /\ rd[r].high \in Nat /\ rd[r].overflew \in BOOLEAN /\ rd[r].first \in 0 .. M - 1
        /\ rd[r].age \in 0 .. Duration /\ counter \in Nat
    BY SameType, Numbers DEF IInv, Typed, ReadState, Word
  <1>2. M \in Nat /\ Latency \in Nat /\ Duration \in Nat /\ Latency + Duration < M /\ Now \in Int
    BY Numbers
  <1>3. /\ \/ counter = rd[r].first + rd[r].age
           \/ counter = rd[r].first + rd[r].age - M
        /\ \/ rd[r].high = Then(r)
           \/ rd[r].high = Then(r) - 1 /\ rd[r].first <= Latency
        /\ rd[r].high # Then(r) => rd[r].overflew
        /\ rd[r].overflew => rd[r].high # Then(r) \/ counter < rd[r].first
    BY DEF IInv, Reading, ReadingOf, Timed, Behind
  <1>4. CASE counter < rd[r].first
    <2>1. Then(r) = Now - 1 /\ counter = rd[r].first + rd[r].age - M
      BY <1>1, <1>3, <1>4 DEF Then
    <2>2. ~(rd[r].first <= Latency)
      BY <1>1, <1>2, <2>1
    <2>3. rd[r].high = Now - 1
      BY <1>3, <2>1, <2>2
    <2> QED BY <1>2, <1>4, <2>3 DEF High
  <1>5. CASE ~(counter < rd[r].first)
    <2>1. Then(r) = Now
      BY <1>5 DEF Then
    <2>2. CASE rd[r].high = Now
      <3>1. ~rd[r].overflew
        BY <1>3, <1>5, <2>1, <2>2
      <3> QED BY <1>1, <1>5, <2>2, <3>1 DEF High
    <2>3. CASE rd[r].high = Now - 1
      <3>1. rd[r].overflew
        BY <1>2, <1>3, <2>1, <2>3
      <3> QED BY <1>2, <2>3, <3>1 DEF High
    <2> QED BY <1>3, <2>1, <2>2, <2>3
  <1> QED BY <1>4, <1>5

(* rtc_get64 returns the tick count of its second reading, whatever comes   *)
(* between its readings, but for the wraps that a power loss has swallowed.  *)
THEOREM GetsExactly == Spec => []ReadExact
  <1>1. IInv => ReadExact
    BY ReadingExact DEF ReadExact, Now
  <1> QED BY <1>1, Invariance, PTL

-----------------------------------------------------------------------------
(* What the clock makes of the retention registers. *)

RegsStep == Regs!Next \/ BackupLoss \/ (SetupErase /\ pc = "idle")

LEMMA OneIsTuple ==
  ASSUME NEW x \in Word
  PROVE  <<x>> \in Regs!Value
  BY OneWord

LEMMA StepOfRegs == IInv /\ [Next]_vars => [RegsStep]_(Regs!regsVars)
  <1> SUFFICES ASSUME IInv, [Next]_vars PROVE [RegsStep]_(Regs!regsVars)
    OBVIOUS
  <1>1. CASE PowerUp \/ PowerLoss \/ StoreOn \/ SetupStored \/ IsrStored
    BY <1>1 DEF PowerUp, PowerLoss, StoreOn, SetupStored, IsrStored, Regs!Next, RegsStep
  <1>2. CASE BackupLoss
    BY <1>2 DEF RegsStep
  <1>3. CASE SetupErase
    BY <1>3 DEF SetupErase, IInv, Place, RegsStep
  <1>4. CASE SetupReset \/ IsrStore
    <2>1. 0 \in Word /\ high64 \in Word
      BY Numbers, SameType DEF IInv, Typed
    <2>2. PICK v \in Regs!Value : Regs!StoreBegin(v)
      BY <1>4, <2>1, OneIsTuple DEF SetupReset, IsrStore
    <2> QED BY <2>2 DEF Regs!Next, RegsStep
  <1>5. CASE Tick \/ SetupTest \/ SetupInit \/ SetupOverflow \/ SetupRetrieve \/ SetupForget
             \/ SetupEnable \/ IsrEnter \/ IsrMask \/ IsrClear \/ IsrIncrement \/ IsrUnmask
             \/ (\E r \in Readers : GetMask(r) \/ GetOn(r)) \/ UNCHANGED vars
    <2>1. UNCHANGED <<reg, on, pc, base, done, new, before>>
      BY <1>5 DEF Tick, SetupTest, SetupInit, SetupOverflow, SetupRetrieve, SetupForget,
         SetupEnable, IsrEnter, IsrMask, IsrClear, IsrIncrement, IsrUnmask, goTo, GetMask, GetOn,
         GetFirst, GetHigh, GetFlag, GetUnmask, GetSecond, getOnly, vars, backupVars, storeVars
    <2> QED BY <2>1 DEF Regs!regsVars, Regs!storeVars
  <1> QED BY <1>1, <1>2, <1>3, <1>4, <1>5 DEF Next, Setup, Isr

(* The clock keeps to the protocol of burtc-regs.c: every step is one of     *)
(* burtc_regs_store, called for one value at a time, or the loss of the      *)
(* backup power, or a word that rtc_setup zeroes while no store is under way. *)
(* A store of the handler or of rtc_setup, cut short at any register write,  *)
(* leaves the old count or the new one, and one that returns leaves the new. *)
THEOREM StoresByTheProtocol ==
  Spec => /\ [][RegsStep]_(Regs!regsVars)
          /\ [](Regs!OldOrNew /\ Regs!Durable)
  <1>1. IInv => Regs!OldOrNew /\ Regs!Durable
    BY OneWord DEF IInv, Storing, Regs!OldOrNew, Regs!Durable
  <1>2. IInv /\ [Next]_vars => [RegsStep]_(Regs!regsVars)
    BY StepOfRegs
  <1> QED BY <1>1, <1>2, Invariance, PTL DEF Spec

-----------------------------------------------------------------------------
(* What the next rtc_setup would find if the power went now, the flag being *)
(* clear: with it set, it would start anew.                                  *)
ResumesRight ==
  ready /\ ~of =>
    LET left == IF Uncommitted THEN wraps - lost - 1 ELSE wraps - lost
    IN  IF Regs!Stored = NoValue THEN left = 0 ELSE Regs!Stored[1] = left

(* At every moment, in the middle of the handler, of rtc_setup or of a store, *)
(* the registers hold the count of all wraps but the one the handler is at    *)
(* and has not committed; or nothing, and then nothing is to be counted.      *)
THEOREM AlwaysResumable == Spec => []ResumesRight
  <1>1. IInv => ResumesRight
    <2> SUFFICES ASSUME IInv, ready, ~of
        PROVE  LET left == IF Uncommitted THEN Now - 1 ELSE Now
               IN  IF Read = NoValue THEN left = 0 ELSE Read[1] = left
      BY OneWord DEF ResumesRight, Now
    <2> QED BY Recoverable, Ones
  <1> QED BY <1>1, Invariance, PTL

-----------------------------------------------------------------------------
(* The ticks that a reading finishing now returns, by GetsExactly. *)
Ticks == (Now * M) + counter

ReadsTicks == \A r \in Readers : rd[r].pc = "second" => (High(rd[r]) * M) + counter = Ticks

(* When the clock may go back. *)
SetBack ==
  \/ BackupLoss \/ SetupInit
  \/ SetupForget /\ of
  \/ PowerLoss /\ Uncommitted

LEMMA TicksAdvance == IInv /\ [Next]_vars => Ticks' >= Ticks \/ SetBack
  <1> SUFFICES ASSUME IInv, [Next]_vars, ~SetBack PROVE Ticks' >= Ticks
    OBVIOUS
  <1>1. Now \in Int /\ M \in Nat /\ M > 0 /\ counter \in Nat /\ wraps \in Nat /\ lost \in Nat
        /\ Now * M \in Int
    BY Numbers
  <1>2. CASE Tick
    <2>1. /\ wraps' = IF counter = M - 1 THEN wraps + 1 ELSE wraps
          /\ counter' = IF counter = M - 1 THEN 0 ELSE counter + 1
          /\ lost' = lost
      BY <1>2 DEF Tick
    <2>2. CASE counter = M - 1
      <3>1. Now' = Now + 1 /\ counter' = 0
        BY <1>1, <2>1, <2>2 DEF Now
      <3>2. (Now + 1) * M = (Now * M) + M
        BY <1>1
      <3> QED BY <1>1, <2>2, <3>1, <3>2 DEF Ticks
    <2>3. CASE counter # M - 1
      <3>1. Now' = Now /\ counter' = counter + 1
        BY <2>1, <2>3 DEF Now
      <3> QED BY <1>1, <3>1 DEF Ticks
    <2> QED BY <2>2, <2>3
  <1>3. CASE PowerLoss
    <2>1. ~Uncommitted
      BY <1>3 DEF SetBack
    <2>2. UNCHANGED <<wraps, lost, counter>>
      BY <1>3, <2>1 DEF PowerLoss
    <2> QED BY <1>1, <2>2 DEF Ticks, Now
  <1>4. CASE SetupForget
    <2>1. ~of /\ at = "forget"
      BY <1>4 DEF SetBack, SetupForget
    <2>2. Now = 0 /\ Now' = 0 /\ counter' = counter
      BY <1>4, <2>1 DEF SetupForget, IInv, Resuming, Now
    <2> QED BY <1>1, <2>2 DEF Ticks
  <1>5. CASE PowerUp \/ SetupTest \/ SetupOverflow \/ SetupRetrieve \/ SetupErase \/ SetupReset
             \/ SetupStored \/ SetupEnable \/ StoreOn \/ IsrEnter \/ Isr
             \/ (\E r \in Readers : GetMask(r) \/ GetOn(r)) \/ UNCHANGED vars
    <2>1. UNCHANGED <<wraps, lost, counter>>
      BY <1>5 DEF PowerUp, SetupTest, SetupOverflow, SetupRetrieve, SetupErase, SetupReset,
         SetupStored, SetupEnable, StoreOn, IsrEnter, Isr, IsrMask, IsrClear, IsrIncrement,
         IsrStore, IsrStored, IsrUnmask, GetMask, GetOn, GetFirst, GetHigh, GetFlag, GetUnmask,
         GetSecond, getOnly, vars, backupVars, historyVars
    <2> QED BY <1>1, <2>1 DEF Ticks, Now
  <1> QED BY <1>2, <1>3, <1>4, <1>5 DEF Next, Setup, SetBack

(* rtc_get64 returns Ticks, and Ticks never goes back while the clock runs,  *)
(* restarts included, but for the cases it cannot help: the BURTC is set up  *)
(* anew, it overflowed while nobody looked, or the power failed between the  *)
(* handler's clearing of the flag and its store.                             *)
THEOREM NeverGoesBack == Spec => []ReadsTicks /\ [][Ticks' >= Ticks \/ SetBack]_vars
  <1>1. IInv => ReadsTicks
    BY ReadingExact DEF ReadsTicks, Ticks
  <1>2. IInv /\ [Next]_vars => [Ticks' >= Ticks \/ SetBack]_vars
    BY TicksAdvance
  <1> QED BY <1>1, <1>2, Invariance, PTL DEF Spec
=============================================================================
