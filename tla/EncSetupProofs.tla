--------------------------- MODULE EncSetupProofs ---------------------------
(***************************************************************************)
(* Proofs about EncSetup, for every size of memory, every ring, every kind *)
(* of address decoder and every number of restarts.                        *)
(***************************************************************************)
EXTENDS EncSetup, TLAPS

(* Which part of the set-up each place lies behind. *)
ReadSet  == {"mac", "phy", "enable"}
Sized    == {"read"} \cup ReadSet
Started  == {"end"} \cup Sized
Drained  == {"release", "start"} \cup Started
Still    == {"drain"} \cup Drained
Released == {"start", "pull", "up"} \cup Started
Tested   == {"halt", "pull", "up"} \cup Still
Places   == {"setup", "wait", "revid", "whole", "fill", "verify"} \cup Failed \cup Tested

(* What the set-up has achieved, by place. *)
Progress ==
  /\ pc \in Places
  /\ pc \in {"revid", "whole", "fill", "verify"} \cup Tested => awake
  /\ pc = "whole" => cache = Unset
  /\ pc \in {"fill", "verify"} \cup Tested => cache = erxnd
  /\ pc \in Still => ~rxen /\ ~txrts
  /\ pc \in Drained => pktcnt = 0
  /\ pc \in Released => ~rxrst /\ ~txrst
  /\ pc \in Started => erxst = 0 /\ wrpt = 0
  /\ pc \in Sized => erxnd = rxbufsize
  /\ pc \in ReadSet => rdpt = 0 /\ nfl = 0
  /\ pc \in {"phy", "enable", "pull", "up"} => marxen
  /\ pc \in {"pull", "up"} => rxen

(* What the self test has found out.  A block whose pattern was replaced by  *)
(* that of a later block cannot get it back: frames only destroy patterns.   *)
Filled(b) == pc = "verify" \/ (pc = "fill" /\ b < block)

Overwritten ==
  \A a, b \in Block : a < b /\ alias[a] = alias[b] /\ Filled(b) => mem[alias[a]] # a

Verified ==
  pc = "verify" => \A a, b \in Block : a < b /\ a < block => alias[a] # alias[b]

Passed == pc \in Tested => Sound(alias)

Tests == Overwritten /\ Verified /\ Passed

IInv == TypeOK /\ Progress /\ Tests

-----------------------------------------------------------------------------
(* Arithmetic in the blocks. *)

(* The size of the memory is a number above 1. *)
LEMMA SizeFacts ==
  /\ RamBlocks \in Nat /\ RamBlocks > 1
  /\ rxbufsize \in Block
  /\ 0 \in Block /\ RamBlocks - 1 \in Block /\ ErxstAtReset \in Block
BY SetupAssumption DEF Block, ErxstAtReset

(* The chip's pointers stay in the memory. *)
LEMMA NextBlockType ==
  ASSUME NEW b \in Block, erxst \in Block, erxnd \in Block
  PROVE  NextBlock(b) \in Block
<1>1. RamBlocks \in Nat /\ RamBlocks > 1
  BY SizeFacts
<1>2. (b + 1) % RamBlocks \in 0 .. RamBlocks - 1
  BY <1>1 DEF Block
<1> QED
  BY <1>2 DEF NextBlock, Block

(* Storing into a block keeps the type of the memory, whatever the decoder. *)
LEMMA StoreType ==
  ASSUME TypeOK, NEW b \in Block, NEW v \in Block \cup {Other}
  PROVE  [mem EXCEPT ![alias[b]] = v] \in [Block -> Block \cup {Other}]
BY DEF TypeOK

(* An address decoder maps blocks to blocks. *)
LEMMA DecoderType == TypeOK => alias \in [Block -> Block]
BY SetupAssumption DEF TypeOK

-----------------------------------------------------------------------------
(* Typing. *)

LEMMA TypeInit == Init => TypeOK
<1> SUFFICES ASSUME Init PROVE TypeOK
  OBVIOUS
<1> USE DEF Init
<1>1. /\ erxst \in Block /\ erxnd \in Block /\ wrpt \in Block /\ rdpt \in Block
      /\ nfl \in Block /\ block \in Block /\ cache \in Block \cup {Unset}
  BY SizeFacts
<1>2. /\ awake \in BOOLEAN /\ marxen \in BOOLEAN
      /\ rxen \in BOOLEAN /\ rxrst \in BOOLEAN /\ txrst \in BOOLEAN /\ txrts \in BOOLEAN
      /\ known \in BOOLEAN /\ resetPin \in BOOLEAN
  BY Zenon
<1>3. /\ pktcnt \in 0 .. MaxPackets /\ reads \in 0 .. MaxReads /\ stable \in 0 .. reads
      /\ restarts \in 0 .. MaxRestarts
  BY SetupAssumption
<1> QED
  BY <1>1, <1>2, <1>3 DEF TypeOK

LEMMA TypeStep == TypeOK /\ [Next]_vars => TypeOK'
<1> SUFFICES ASSUME TypeOK, [Next]_vars PROVE TypeOK'
  OBVIOUS
<1> USE DEF board, chipVars, econVars, ringVars, waitVars, devVars
<1>1. CASE ChipWakes
  BY <1>1 DEF ChipWakes, TypeOK
<1>2. CASE ChipReceive
  <2>1. pktcnt' \in 0 .. MaxPackets
    BY <1>2, SetupAssumption DEF ChipReceive, TypeOK
  <2>2. wrpt' \in Block
    BY <1>2, NextBlockType DEF ChipReceive, TypeOK
  <2>3. mem' \in [Block -> Block \cup {Other}]
    BY <1>2, StoreType DEF ChipReceive, TypeOK
  <2> QED
    BY <1>2, <2>1, <2>2, <2>3 DEF ChipReceive, TypeOK
<1>3. CASE ChipSent
  <2>1. mem' \in [Block -> Block \cup {Other}]
    <3>1. PICK b \in rxbufsize .. RamBlocks - 1 : mem' = [mem EXCEPT ![alias[b]] = Other]
      BY <1>3 DEF ChipSent
    <3>2. b \in Block
      BY SizeFacts DEF Block
    <3> QED
      BY <3>1, <3>2, StoreType
  <2> QED
    BY <1>3, <2>1 DEF ChipSent, TypeOK
<1>4. CASE EnchwSetup
  <2>1. CASE resetPin
    <3>1. /\ awake' \in BOOLEAN /\ marxen' \in BOOLEAN
          /\ rxen' \in BOOLEAN /\ rxrst' \in BOOLEAN
          /\ txrst' \in BOOLEAN /\ txrts' \in BOOLEAN
      BY <1>4, <2>1, Zenon DEF EnchwSetup
    <3>2. /\ erxst' \in Block /\ erxnd' \in Block /\ wrpt' \in Block /\ rdpt' \in Block
          /\ pktcnt' \in 0 .. MaxPackets
      BY <1>4, <2>1, SizeFacts, SetupAssumption DEF EnchwSetup
    <3>3. UNCHANGED <<mem, board, waitVars, block, devVars, restarts>>
      BY <1>4, <2>1, Zenon DEF EnchwSetup
    <3> QED
      BY <3>1, <3>2, <3>3 DEF TypeOK
  <2>2. CASE ~resetPin
    BY <1>4, <2>2 DEF EnchwSetup, TypeOK
  <2> QED
    BY <2>1, <2>2
<1>5. CASE WaitIgnored \/ WaitRead
  <2>1. reads' \in 0 .. MaxReads /\ stable' \in 0 .. reads'
    BY <1>5, SetupAssumption DEF WaitIgnored, WaitRead, WaitOver, TypeOK
  <2> QED
    BY <1>5, <2>1 DEF WaitIgnored, WaitRead, TypeOK
<1>6. CASE WaitTimeout
  BY <1>6 DEF WaitTimeout, TypeOK
<1>7. CASE CheckRevision
  BY <1>7, SetupAssumption DEF CheckRevision, TypeOK
<1>8. CASE Bist
  <2>1. CASE WholeRing
    BY <2>1, SizeFacts DEF WholeRing, set_erxnd, TypeOK
  <2>2. CASE Fill
    <3>1. mem' \in [Block -> Block \cup {Other}]
      BY <2>2, StoreType DEF Fill, Pattern, TypeOK
    <3>2. block' \in Block
      BY <2>2, SizeFacts DEF Fill, LastBlock, Block, TypeOK
    <3> QED
      BY <2>2, <3>1, <3>2 DEF Fill, TypeOK
  <2>3. CASE VerifyFails
    BY <2>3, SizeFacts DEF VerifyFails, TypeOK
  <2>4. CASE Verify
    <3>1. block' \in Block
      BY <2>4, SizeFacts DEF Verify, LastBlock, Block, TypeOK
    <3> QED
      BY <2>4, <3>1 DEF Verify, TypeOK
  <2> QED
    BY <1>8, <2>1, <2>2, <2>3, <2>4 DEF Bist
<1>9. CASE EthernetSetup
  <2>1. CASE Halt \/ DrainDone \/ Release
    BY <2>1 DEF Halt, DrainDone, Release, TypeOK
  <2>2. CASE DrainPacket
    <3>1. pktcnt' \in 0 .. MaxPackets
      BY <2>2, SetupAssumption DEF DrainPacket, TypeOK
    <3> QED
      BY <2>2, <3>1 DEF DrainPacket, TypeOK
  <2>3. CASE RingStart \/ RingEnd \/ RingRead
    BY <2>3, SizeFacts DEF RingStart, RingEnd, set_erxnd, RingRead, TypeOK
  <2>4. CASE MacSetup \/ EnableReception \/ PullOut
    BY <2>4 DEF MacSetup, EnableReception, PullOut, TypeOK
  <2> QED
    BY <1>9, <2>1, <2>2, <2>3, <2>4 DEF EthernetSetup
<1>10. CASE Serve
  <2>1. pktcnt' \in 0 .. MaxPackets
    BY <1>10, SetupAssumption DEF Serve, TypeOK
  <2>2. nfl' \in Block
    BY <1>10, NextBlockType DEF Serve, TypeOK
  <2>3. rdpt' \in Block
    BY <1>10, <2>2, SizeFacts DEF Serve, Block, TypeOK
  <2> QED
    BY <1>10, <2>1, <2>2, <2>3 DEF Serve, TypeOK
<1>11. CASE Send
  BY <1>11 DEF Send, TypeOK
<1>12. CASE MainLoop \/ PhyBusy \/ PhyReady \/ UNCHANGED vars
  BY <1>12 DEF MainLoop, PhyBusy, PhyReady, vars, TypeOK
<1>13. CASE Restart
  BY <1>13, SizeFacts, SetupAssumption DEF Restart, TypeOK
<1> QED
  BY <1>1, <1>2, <1>3, <1>4, <1>5, <1>6, <1>7, <1>8, <1>9, <1>10, <1>11, <1>12, <1>13
  DEF Next, Driver, Chip

-----------------------------------------------------------------------------
(* Progress. *)

LEMMA ProgressInit == Init => Progress
BY DEF Init, Progress, Places, Tested, Still, Drained, Released, Started, Sized, ReadSet, Failed

(* However the readings of a chip that sleeps come out, there are too few of *)
(* them with CLKRDY for enc_wait.                                            *)
LEMMA RevisionAskedAwake == TypeOK /\ WaitRead /\ pc' = "revid" => awake
<1> SUFFICES ASSUME TypeOK, WaitRead, pc' = "revid", ~awake PROVE FALSE
  OBVIOUS
<1>1. PICK estat \in Readings \ {255} :
        /\ stable' = IF estat = last THEN stable + 1 ELSE stable
        /\ pc' = IF stable' >= StableRequired /\ ClockReady(estat) THEN "revid" ELSE "wait"
  BY DEF WaitRead
<1>2. stable' >= StableRequired /\ ClockReady(estat)
  BY <1>1
<1>3. reads \in Nat /\ stable \in 0 .. reads
  BY SetupAssumption DEF TypeOK
<1>4. reads < PowerUpReads
  <2> SUFFICES ASSUME ~(reads < PowerUpReads) PROVE FALSE
    OBVIOUS
  <2>1. reads >= PowerUpReads
    BY <1>3, SetupAssumption
  <2>2. Readings = {0}
    BY <2>1 DEF Readings
  <2> QED
    BY <1>2, <2>2 DEF ClockReady
<1>5. stable' <= reads + 1
  BY <1>1, <1>3
<1> QED
  BY <1>1, <1>2, <1>3, <1>4, <1>5, SetupAssumption

LEMMA ProgressStep == TypeOK /\ Progress /\ [Next]_vars => Progress'
<1> SUFFICES ASSUME TypeOK, Progress, [Next]_vars PROVE Progress'
  OBVIOUS
<1> USE DEF board, chipVars, econVars, ringVars, waitVars, devVars, Progress, Places, Tested, Still,
            Drained, Released, Started, Sized, ReadSet, Failed
<1>1. CASE ChipWakes
  BY <1>1 DEF ChipWakes
<1>2. CASE ChipReceive
  BY <1>2 DEF ChipReceive
<1>3. CASE ChipSent
  BY <1>3 DEF ChipSent
<1>4. CASE EnchwSetup
  BY <1>4 DEF EnchwSetup
<1>5. CASE WaitIgnored \/ WaitRead \/ WaitTimeout
  <2>1. pc' = "revid" => awake
    BY <1>5, RevisionAskedAwake DEF WaitIgnored, WaitTimeout
  <2> QED
    BY <1>5, <2>1 DEF WaitIgnored, WaitRead, WaitTimeout
<1>6. CASE CheckRevision
  BY <1>6 DEF CheckRevision
<1>7. CASE WholeRing
  <2>1. RamBlocks - 1 # Unset
    BY SizeFacts DEF Unset
  <2>2. cache' = erxnd'
    BY <1>7, <2>1 DEF WholeRing, set_erxnd
  <2> QED
    BY <1>7, <2>2 DEF WholeRing
<1>8. CASE Fill \/ VerifyFails \/ Verify
  BY <1>8 DEF Fill, VerifyFails, Verify
<1>9. CASE Halt
  BY <1>9 DEF Halt
<1>10. CASE DrainPacket \/ DrainDone
  BY <1>10 DEF DrainPacket, DrainDone
<1>11. CASE Release
  BY <1>11 DEF Release
<1>12. CASE RingStart
  BY <1>12 DEF RingStart
<1>13. CASE RingEnd
  BY <1>13 DEF RingEnd, set_erxnd
<1>14. CASE RingRead
  BY <1>14 DEF RingRead
<1>15. CASE MacSetup
  BY <1>15 DEF MacSetup
<1>16. CASE EnableReception
  BY <1>16 DEF EnableReception
<1>17. CASE PullOut
  BY <1>17 DEF PullOut
<1>18. CASE Serve
  BY <1>18 DEF Serve
<1>19. CASE Send
  BY <1>19 DEF Send
<1>20. CASE MainLoop \/ PhyBusy \/ PhyReady \/ UNCHANGED vars
  BY <1>20 DEF MainLoop, PhyBusy, PhyReady, vars
<1>21. CASE Restart
  BY <1>21 DEF Restart
<1> QED
  BY <1>1, <1>2, <1>3, <1>4, <1>5, <1>6, <1>7, <1>8, <1>9, <1>10, <1>11, <1>12, <1>13, <1>14,
     <1>15, <1>16, <1>17, <1>18, <1>19, <1>20, <1>21
  DEF Next, Driver, Chip, Bist, EthernetSetup

-----------------------------------------------------------------------------
(* The self test. *)

LEMMA TestsInit == Init => Tests
BY DEF Init, Tests, Overwritten, Verified, Passed, Filled, Tested, Still, Drained, Released,
       Started, Sized, ReadSet

(* Steps of the driver that leave self test, memory and decoder alone. *)
LEMMA TestsKept ==
  ASSUME Tests, UNCHANGED <<mem, alias, block>>,
         \/ pc' = pc
         \/ pc' \notin {"fill", "verify"} \cup Tested
         \/ pc \in Tested /\ pc' \in Tested
  PROVE  Tests'
<1>1. Overwritten'
  BY DEF Tests, Overwritten, Filled, Tested, Still, Drained, Released, Started, Sized, ReadSet
<1>2. Verified'
  BY DEF Tests, Verified, Tested, Still, Drained, Released, Started, Sized, ReadSet
<1>3. Passed'
  BY DEF Tests, Passed, Sound
<1> QED
  BY <1>1, <1>2, <1>3 DEF Tests

(* What the chip stores never brings a pattern back. *)
LEMMA TestsDamaged ==
  ASSUME TypeOK, Tests, NEW b \in Block, mem' = [mem EXCEPT ![alias[b]] = Other],
         UNCHANGED <<alias, block, pc>>
  PROVE  Tests'
<1>1. Overwritten'
  <2> SUFFICES ASSUME NEW x \in Block, NEW y \in Block, x < y, alias[x] = alias[y],
                      Filled(y)
               PROVE  mem'[alias[x]] # x
    BY DEF Overwritten, Filled
  <2>1. mem[alias[x]] # x
    BY DEF Tests, Overwritten
  <2>2. x # Other
    BY SizeFacts DEF Block, Other
  <2>3. alias[x] \in Block /\ mem \in [Block -> Block \cup {Other}]
    BY DecoderType DEF TypeOK
  <2> QED
    BY <2>1, <2>2, <2>3
<1>2. Verified' /\ Passed'
  BY DEF Tests, Verified, Passed, Sound
<1> QED
  BY <1>1, <1>2 DEF Tests

LEMMA FillStep == TypeOK /\ Tests /\ Fill => Tests'
<1> SUFFICES ASSUME TypeOK, Tests, Fill PROVE Tests'
  OBVIOUS
<1> USE DEF board
<1>1. Overwritten'
  <2> SUFFICES ASSUME NEW x \in Block, NEW y \in Block, x < y, alias[x] = alias[y],
                      Filled(y)'
               PROVE  mem'[alias[x]] # x
    BY DEF Overwritten, Fill
  <2>1. alias[x] \in Block /\ alias[block] \in Block /\ mem \in [Block -> Block \cup {Other}]
    BY DecoderType DEF TypeOK
  <2>2. y <= block
    BY SizeFacts DEF Fill, Filled, LastBlock, Block, TypeOK
  <2>3. CASE alias[x] = alias[block]
    BY <2>1, <2>2, <2>3, SizeFacts DEF Fill, Pattern, Block, TypeOK
  <2>4. CASE alias[x] # alias[block]
    <3>1. y < block
      BY <2>2, <2>4, SizeFacts DEF Block, TypeOK
    <3>2. mem[alias[x]] # x
      BY <3>1 DEF Tests, Overwritten, Filled, Fill
    <3>3. mem'[alias[x]] = mem[alias[x]]
      BY <2>1, <2>4 DEF Fill
    <3> QED
      BY <3>2, <3>3
  <2> QED
    BY <2>3, <2>4
<1>2. Verified'
  BY SizeFacts DEF Fill, Verified, LastBlock, Block
<1>3. Passed'
  BY DEF Fill, Passed, Tested, Still, Drained, Released, Started, Sized, ReadSet
<1> QED
  BY <1>1, <1>2, <1>3 DEF Tests

LEMMA VerifyStep == TypeOK /\ Tests /\ Verify => Tests'
<1> SUFFICES ASSUME TypeOK, Tests, Verify PROVE Tests'
  OBVIOUS
<1> USE DEF board, chipVars
<1>1. ASSUME NEW y \in Block, block < y PROVE alias[block] # alias[y]
  BY <1>1 DEF Tests, Overwritten, Filled, Verify, Pattern, TypeOK
<1>2. ASSUME NEW x \in Block, NEW y \in Block, x < y, x <= block
      PROVE  alias[x] # alias[y]
  <2>1. CASE x = block
    BY <1>1, <1>2, <2>1
  <2>2. CASE x # block
    <3>1. x < block
      BY <1>2, <2>2, SizeFacts DEF Block, TypeOK
    <3> QED
      BY <1>2, <3>1 DEF Tests, Verified, Verify
  <2> QED
    BY <2>1, <2>2
<1>3. Overwritten'
  BY DEF Tests, Overwritten, Filled, Verify
<1>4. Verified'
  BY <1>2, SizeFacts DEF Verified, Verify, LastBlock, Block, TypeOK
<1>5. Passed'
  <2> SUFFICES ASSUME block = RamBlocks - 1 PROVE Sound(alias)
    BY DEF Passed, Sound, Verify, LastBlock, Tested, Still, Drained, Released, Started, Sized,
           ReadSet
  <2>1. ASSUME NEW x \in Block, NEW y \in Block, x < y PROVE alias[x] # alias[y]
    <3>1. x <= block
      BY SizeFacts DEF Block
    <3> QED
      BY <1>2, <2>1, <3>1
  <2>2. \A x, y \in Block : x = y \/ x < y \/ y < x
    BY SizeFacts DEF Block
  <2> QED
    BY <2>1, <2>2 DEF Sound
<1> QED
  BY <1>3, <1>4, <1>5 DEF Tests

LEMMA TestsStep == TypeOK /\ Tests /\ [Next]_vars => Tests'
<1> SUFFICES ASSUME TypeOK, Tests, [Next]_vars PROVE Tests'
  OBVIOUS
<1> USE DEF board, chipVars, econVars, ringVars, waitVars, devVars
<1>1. CASE ChipWakes
  BY <1>1, TestsKept DEF ChipWakes
<1>2. CASE ChipReceive
  BY <1>2, TestsDamaged DEF ChipReceive, TypeOK
<1>3. CASE ChipSent
  <2>1. PICK b \in rxbufsize .. RamBlocks - 1 : mem' = [mem EXCEPT ![alias[b]] = Other]
    BY <1>3 DEF ChipSent
  <2>2. b \in Block
    BY SizeFacts DEF Block
  <2> QED
    BY <1>3, <2>1, <2>2, TestsDamaged DEF ChipSent
<1>4. CASE EnchwSetup
  <2>1. pc' = "wait" /\ UNCHANGED <<mem, alias, block>>
    BY <1>4 DEF EnchwSetup
  <2> QED
    BY <2>1, TestsKept DEF Tested, Still, Drained, Released, Started, Sized, ReadSet
<1>5. CASE WaitIgnored \/ WaitRead \/ WaitTimeout \/ CheckRevision
  <2>1. pc' \in {"wait", "revid", "timeout", "whole", "refused"} /\ UNCHANGED <<mem, alias, block>>
    BY <1>5 DEF WaitIgnored, WaitRead, WaitTimeout, CheckRevision
  <2> QED
    BY <2>1, TestsKept DEF Tested, Still, Drained, Released, Started, Sized, ReadSet
<1>6. CASE WholeRing
  <2>1. pc' = "fill" /\ block' = 0
    BY <1>6 DEF WholeRing
  <2>2. \A b \in Block : ~(b < 0)
    BY SizeFacts DEF Block
  <2> QED
    BY <2>1, <2>2
    DEF Tests, Overwritten, Verified, Passed, Filled, Tested, Still, Drained, Released, Started,
        Sized, ReadSet
<1>7. CASE Fill
  BY <1>7, FillStep
<1>8. CASE VerifyFails
  BY <1>8
  DEF VerifyFails, Tests, Overwritten, Verified, Passed, Filled, Tested, Still, Drained,
      Released, Started, Sized, ReadSet
<1>9. CASE Verify
  BY <1>9, VerifyStep
<1>10. CASE EthernetSetup
  <2>1. pc \in Tested /\ pc' \in Tested /\ UNCHANGED <<mem, alias, block>>
    BY <1>10
    DEF EthernetSetup, Halt, DrainPacket, DrainDone, Release, RingStart, RingEnd, RingRead,
        MacSetup, EnableReception, PullOut, Tested, Still, Drained, Released,
        Started, Sized, ReadSet
  <2> QED
    BY <2>1, TestsKept
<1>11. CASE Serve \/ Send \/ MainLoop \/ PhyBusy \/ UNCHANGED vars
  BY <1>11, TestsKept DEF Serve, Send, MainLoop, PhyBusy, vars
<1>12. CASE Restart
  BY <1>12
  DEF Restart, Tests, Overwritten, Verified, Passed, Filled, Tested, Still, Drained, Released,
      Started, Sized, ReadSet
<1>13. CASE PhyReady
  <2>1. pc \in Tested /\ pc' \in Tested /\ UNCHANGED <<mem, alias, block>>
    BY <1>13 DEF PhyReady, Tested, Still, Drained, Started, Sized, ReadSet
  <2> QED
    BY <2>1, TestsKept
<1> QED
  BY <1>1, <1>2, <1>3, <1>4, <1>5, <1>6, <1>7, <1>8, <1>9, <1>10, <1>11, <1>12, <1>13
  DEF Next, Driver, Chip, Bist

-----------------------------------------------------------------------------
(* The theorems. *)

(* The inductive invariant of enc_setup_basic, self test and                *)
(* enc_ethernet_setup, over any number of restarts.                         *)
THEOREM Invariance == Spec => []IInv
<1>1. Init => IInv
  BY TypeInit, ProgressInit, TestsInit DEF IInv
<1>2. IInv /\ [Next]_vars => IInv'
  BY TypeStep, ProgressStep, TestsStep DEF IInv
<1> QED
  BY <1>1, <1>2, PTL DEF Spec

(* Chip registers, loop counters and the driver's copies keep to their types. *)
THEOREM TypeCorrect == Spec => []TypeOK
<1>1. IInv => TypeOK
  BY DEF IInv
<1> QED
  BY <1>1, Invariance, PTL

(* In whatever state a restart finds the chip, enc_ethernet_setup has the    *)
(* ring empty and every pointer at its beginning when it enables reception.  *)
THEOREM StartsFromScratch == Spec => []HandsOver
<1>1. IInv => HandsOver
  BY DEF IInv, Progress, HandsOver, Places, Tested, Still, Drained, Released, Started, Sized,
         ReadSet
<1> QED
  BY <1>1, Invariance, PTL

(* When mchdrv_init reports success, the chip does receive. *)
THEOREM UpMeansReceiving == Spec => []ReceivesWhenUp
<1>1. IInv => ReceivesWhenUp
  BY DEF IInv, Progress, ReceivesWhenUp, Tested, Released
<1> QED
  BY <1>1, Invariance, PTL

(* No address decoder that maps two blocks to one passes enc_bist_manual,    *)
(* though frames may arrive during the test.                                 *)
THEOREM SelfTestIsSound == Spec => []BistFindsFaults
<1>1. IInv => BistFindsFaults
  BY DEF IInv, Progress, Tests, Passed, BistFindsFaults, Places
<1> QED
  BY <1>1, Invariance, PTL

(* set_erxnd never skips a write that the chip needs. *)
THEOREM CacheIsCoherent == Spec => []CacheCoherent
<1>1. IInv => CacheCoherent
  BY DEF IInv, Progress, CacheCoherent, Places
<1> QED
  BY <1>1, Invariance, PTL
-----------------------------------------------------------------------------
(* With a reset pin, nothing disturbs the self test. *)

Testing == {"wait", "revid", "whole", "fill", "verify"}

Undisturbed == pc \in Testing => ~rxen /\ ~txrts

PatternsKept == Sound(alias) => \A b \in Block : Filled(b) => mem[alias[b]] = b

NoFalseAlarm == Undisturbed /\ PatternsKept /\ OnlyBrokenChipsFail

LEMMA NoFalseAlarmInit == Init => NoFalseAlarm
BY DEF Init, NoFalseAlarm, Undisturbed, PatternsKept, OnlyBrokenChipsFail, Filled, Testing

LEMMA NoFalseAlarmFill == TypeOK /\ NoFalseAlarm /\ Fill => PatternsKept'
<1> SUFFICES ASSUME TypeOK, NoFalseAlarm, Fill, Sound(alias)', NEW b \in Block, Filled(b)'
             PROVE  mem'[alias'[b]] = b
  BY DEF PatternsKept
<1> USE DEF board
<1>1. Sound(alias) /\ alias' = alias
  BY DEF Fill, Sound
<1>2. alias[b] \in Block /\ alias[block] \in Block /\ mem \in [Block -> Block \cup {Other}]
  BY DecoderType DEF TypeOK
<1>3. b <= block
  BY SizeFacts DEF Fill, Filled, LastBlock, Block, TypeOK
<1>4. CASE b = block
  BY <1>1, <1>2, <1>4 DEF Fill, Pattern
<1>5. CASE b # block
  <2>1. b < block
    BY <1>3, <1>5, SizeFacts DEF Block, TypeOK
  <2>2. mem[alias[b]] = b
    BY <1>1, <2>1 DEF NoFalseAlarm, PatternsKept, Filled, Fill
  <2>3. alias[b] # alias[block]
    BY <1>1, <1>5 DEF Sound, TypeOK
  <2> QED
    BY <1>1, <1>2, <2>2, <2>3 DEF Fill
<1> QED
  BY <1>4, <1>5

(* Steps that leave memory, decoder and the chip's activity alone. *)
LEMMA NoFalseAlarmKept ==
  ASSUME NoFalseAlarm, UNCHANGED <<rxen, txrts, mem, alias>>,
         \/ pc' = pc /\ block' = block
         \/ pc' \notin Testing \cup {"bist_failed"}
         \/ pc \in Testing /\ pc' \in {"wait", "revid", "whole"}
  PROVE  NoFalseAlarm'
<1>1. Undisturbed'
  BY DEF NoFalseAlarm, Undisturbed, Testing
<1>2. PatternsKept'
  BY DEF NoFalseAlarm, PatternsKept, Filled, Testing, Sound
<1>3. OnlyBrokenChipsFail'
  BY DEF NoFalseAlarm, OnlyBrokenChipsFail, Sound
<1> QED
  BY <1>1, <1>2, <1>3 DEF NoFalseAlarm

LEMMA NoFalseAlarmStep ==
  ASSUME resetPin, IInv, NoFalseAlarm, [Next]_vars
  PROVE  NoFalseAlarm'
<1> USE DEF board, chipVars, econVars, ringVars, waitVars, devVars
<1>1. CASE ChipWakes
  BY <1>1, NoFalseAlarmKept DEF ChipWakes
<1>2. CASE ChipReceive \/ ChipSent
  <2>1. pc \notin Testing /\ pc' = pc /\ alias' = alias
    BY <1>2 DEF ChipReceive, ChipSent, NoFalseAlarm, Undisturbed
  <2> QED
    BY <2>1
    DEF NoFalseAlarm, Undisturbed, PatternsKept, OnlyBrokenChipsFail, Filled, Testing, Sound
<1>3. CASE EnchwSetup
  <2>1. pc' = "wait" /\ UNCHANGED <<mem, alias>>
    BY <1>3, Zenon DEF EnchwSetup
  <2>2. ~rxen' /\ ~txrts'
    BY <1>3, Zenon DEF EnchwSetup
  <2> QED
    BY <2>1, <2>2 DEF NoFalseAlarm, Undisturbed, PatternsKept, OnlyBrokenChipsFail, Filled
<1>4. CASE WaitIgnored \/ WaitRead \/ WaitTimeout \/ CheckRevision
  BY <1>4, NoFalseAlarmKept DEF WaitIgnored, WaitRead, WaitTimeout, CheckRevision, Testing
<1>5. CASE WholeRing
  <2>1. pc = "whole" /\ pc' = "fill" /\ block' = 0 /\ UNCHANGED <<rxen, txrts, mem, alias>>
    BY <1>5 DEF WholeRing
  <2>2. \A b \in Block : ~(b < 0)
    BY SizeFacts DEF Block
  <2> QED
    BY <2>1, <2>2
    DEF NoFalseAlarm, Undisturbed, PatternsKept, OnlyBrokenChipsFail, Filled, Testing
<1>6. CASE Fill
  <2>1. PatternsKept'
    BY <1>6, NoFalseAlarmFill DEF IInv
  <2>2. Undisturbed' /\ OnlyBrokenChipsFail'
    BY <1>6 DEF Fill, NoFalseAlarm, Undisturbed, OnlyBrokenChipsFail, Testing
  <2> QED
    BY <2>1, <2>2 DEF NoFalseAlarm
<1>7. CASE VerifyFails
  <2>1. block \in Block /\ Filled(block)
    BY <1>7 DEF VerifyFails, Filled, IInv, TypeOK
  <2>2. ~Sound(alias)
    BY <1>7, <2>1 DEF VerifyFails, Pattern, NoFalseAlarm, PatternsKept
  <2> QED
    BY <1>7, <2>2
    DEF VerifyFails, NoFalseAlarm, Undisturbed, PatternsKept, OnlyBrokenChipsFail, Testing, Sound
<1>8. CASE Verify
  BY <1>8
  DEF Verify, NoFalseAlarm, Undisturbed, PatternsKept, OnlyBrokenChipsFail, Filled, Testing, Sound
<1>9. CASE EthernetSetup
  <2>1. pc' \notin Testing \cup {"bist_failed"} /\ alias' = alias
    BY <1>9
    DEF EthernetSetup, Halt, DrainPacket, DrainDone, Release, RingStart, RingEnd, RingRead,
        MacSetup, EnableReception, PullOut, Testing
  <2> QED
    BY <2>1 DEF NoFalseAlarm, Undisturbed, PatternsKept, OnlyBrokenChipsFail, Filled, Testing
<1>10. CASE Serve \/ Send
  <2>1. pc = "up" /\ pc' = "up"
    BY <1>10 DEF Serve, Send
  <2> QED
    BY <2>1 DEF NoFalseAlarm, Undisturbed, PatternsKept, OnlyBrokenChipsFail, Filled, Testing
<1>11. CASE MainLoop \/ PhyBusy \/ PhyReady \/ UNCHANGED vars
  BY <1>11, NoFalseAlarmKept DEF MainLoop, PhyBusy, PhyReady, vars, Testing
<1>12. CASE Restart
  BY <1>12
  DEF Restart, NoFalseAlarm, Undisturbed, PatternsKept, OnlyBrokenChipsFail, Filled, Testing
<1> QED
  BY <1>1, <1>2, <1>3, <1>4, <1>5, <1>6, <1>7, <1>8, <1>9, <1>10, <1>11, <1>12
  DEF Next, Driver, Chip, Bist

(* The board stays what it is. *)
LEMMA BoardFixed == [Next]_vars => resetPin' = resetPin
<1> SUFFICES ASSUME [Next]_vars PROVE resetPin' = resetPin
  OBVIOUS
<1> USE DEF board, chipVars, econVars, ringVars, waitVars, devVars
<1>1. CASE Chip
  BY <1>1 DEF Chip, ChipWakes, ChipReceive, ChipSent
<1>2. CASE EnchwSetup
  BY <1>2, Zenon DEF EnchwSetup
<1>3. CASE WaitIgnored \/ WaitRead \/ WaitTimeout \/ CheckRevision
  BY <1>3 DEF WaitIgnored, WaitRead, WaitTimeout, CheckRevision
<1>4. CASE Bist
  BY <1>4 DEF Bist, WholeRing, Fill, VerifyFails, Verify
<1>5. CASE EthernetSetup
  BY <1>5
  DEF EthernetSetup, Halt, DrainPacket, DrainDone, Release, RingStart, RingEnd, RingRead,
      MacSetup, EnableReception, PullOut
<1>6. CASE PhyBusy \/ PhyReady \/ Serve \/ Send \/ MainLoop \/ Restart \/ UNCHANGED vars
  BY <1>6 DEF PhyBusy, PhyReady, Serve, Send, MainLoop, Restart, vars
<1> QED
  BY <1>1, <1>2, <1>3, <1>4, <1>5, <1>6 DEF Next, Driver

(* On a board that can reset the chip, enc_bist_manual never refuses a chip  *)
(* whose memory works, however often the processor restarts.                 *)
THEOREM ResetMakesTheTestFair == Spec => []ResetAvoidsFalseAlarms
<1>1. Init => (resetPin => NoFalseAlarm)
  BY NoFalseAlarmInit
<1>2. IInv /\ (resetPin => NoFalseAlarm) /\ [Next]_vars => (resetPin => NoFalseAlarm)'
  <2> SUFFICES ASSUME IInv, resetPin => NoFalseAlarm, [Next]_vars, resetPin'
               PROVE  NoFalseAlarm'
    OBVIOUS
  <2>1. resetPin
    BY BoardFixed
  <2> QED
    BY <2>1, NoFalseAlarmStep
<1>3. (resetPin => NoFalseAlarm) => ResetAvoidsFalseAlarms
  BY DEF NoFalseAlarm, ResetAvoidsFalseAlarms
<1> QED
  BY <1>1, <1>2, <1>3, Invariance, PTL DEF Spec

-----------------------------------------------------------------------------
(* How long mchdrv_init takes at most, turns of the wait for the PHY aside. *)

SelfTest == MaxPackets + (2 * RamBlocks)

StepsLeft ==
  CASE pc \in {"up"} \cup Failed -> 0
    [] pc = "pull"    -> 1
    [] pc = "enable"  -> 2
    [] pc = "phy"     -> 3
    [] pc = "mac"     -> 4
    [] pc = "read"    -> 5
    [] pc = "end"     -> 6
    [] pc = "start"   -> 7
    [] pc = "release" -> 8
    [] pc = "drain"   -> 9 + pktcnt
    [] pc = "halt"    -> 10 + MaxPackets
    [] pc = "verify"  -> 10 + MaxPackets + RamBlocks - block
    [] pc = "fill"    -> 10 + SelfTest - block
    [] pc = "whole"   -> 11 + SelfTest
    [] pc = "revid"   -> 12 + SelfTest
    [] pc = "wait"    -> 13 + SelfTest + MaxReads - reads
    [] pc = "setup"   -> 14 + SelfTest + MaxReads

Bounded ==
  /\ StepsLeft \in 0 .. 14 + SelfTest + MaxReads
  /\ StepsLeft = 0 <=> pc \in {"up"} \cup Failed

(* A step of mchdrv_init leaves fewer of them; no frame that arrives and no  *)
(* frame that is sent meanwhile adds to them.  Only a restart begins anew.   *)
DriverAdvances ==
  IF Driver \/ PhyReady THEN StepsLeft' < StepsLeft
                        ELSE Restart \/ StepsLeft' = StepsLeft

LEMMA Numbers ==
  ASSUME IInv
  PROVE  /\ RamBlocks \in Nat /\ RamBlocks > 1 /\ MaxPackets \in Nat /\ MaxReads \in Nat
         /\ block \in 0 .. RamBlocks - 1 /\ pktcnt \in 0 .. MaxPackets
         /\ reads \in 0 .. MaxReads
         /\ SelfTest = MaxPackets + RamBlocks + RamBlocks
BY SizeFacts, SetupAssumption DEF IInv, TypeOK, Block, SelfTest

LEMMA BoundedSteps == IInv => Bounded
<1> SUFFICES ASSUME IInv PROVE Bounded
  OBVIOUS
<1>1. pc \in Places
  BY DEF IInv, Progress
<1>2. CASE pc \in {"up", "pull", "enable", "phy", "mac", "read", "end", "start", "release"} \cup Failed
  <2>1. CASE pc \in {"up"} \cup Failed
    <3>1. StepsLeft = 0
      BY <2>1 DEF StepsLeft, Failed
    <3> QED
      BY <2>1, <3>1, Numbers DEF Bounded
  <2>2. CASE pc \in {"pull", "enable", "phy", "mac", "read", "end", "start", "release"}
    <3>1. StepsLeft \in 1 .. 8
      BY <2>2 DEF StepsLeft, Failed
    <3> QED
      BY <2>2, <3>1, Numbers DEF Bounded, Failed
  <2> QED
    BY <1>2, <2>1, <2>2
<1>3. CASE pc \in {"drain", "halt", "verify"}
  <2>1. StepsLeft \in {9 + pktcnt, 10 + MaxPackets, 10 + MaxPackets + RamBlocks - block}
    BY <1>3 DEF StepsLeft, Failed
  <2> QED
    BY <1>3, <2>1, Numbers DEF Bounded, Failed
<1>4. CASE pc \in {"fill", "whole", "revid"}
  <2>1. StepsLeft \in {10 + SelfTest - block, 11 + SelfTest, 12 + SelfTest}
    BY <1>4 DEF StepsLeft, Failed
  <2> QED
    BY <1>4, <2>1, Numbers DEF Bounded, Failed
<1>5. CASE pc \in {"wait", "setup"}
  <2>1. StepsLeft \in {13 + SelfTest + MaxReads - reads, 14 + SelfTest + MaxReads}
    BY <1>5 DEF StepsLeft, Failed
  <2> QED
    BY <1>5, <2>1, Numbers DEF Bounded, Failed
<1> QED
  BY <1>1, <1>2, <1>3, <1>4, <1>5 DEF Places, Tested, Still, Drained, Started, Sized, ReadSet

LEMMA DriverStepsDown == IInv /\ (Driver \/ PhyReady) => StepsLeft' < StepsLeft
<1> SUFFICES ASSUME IInv, Driver \/ PhyReady PROVE StepsLeft' < StepsLeft
  OBVIOUS
<1>1. CASE EnchwSetup
  <2>1. pc = "setup" /\ pc' = "wait" /\ reads' = reads
    BY <1>1 DEF EnchwSetup, waitVars
  <2>2. /\ StepsLeft = 14 + SelfTest + MaxReads
        /\ StepsLeft' = 13 + SelfTest + MaxReads - reads
    BY <2>1 DEF StepsLeft, SelfTest, Failed
  <2> QED
    BY <2>2, Numbers
<1>2. CASE WaitIgnored \/ WaitRead
  <2>1. pc = "wait" /\ pc' \in {"wait", "revid"} /\ reads' = reads + 1 /\ reads < MaxReads
    BY <1>2, Numbers DEF WaitIgnored, WaitRead, WaitOver
  <2>2. /\ StepsLeft = 13 + SelfTest + MaxReads - reads
        /\ StepsLeft' \in {13 + SelfTest + MaxReads - (reads + 1), 12 + SelfTest}
    BY <2>1 DEF StepsLeft, SelfTest, Failed
  <2> QED
    BY <2>1, <2>2, Numbers
<1>3. CASE WaitTimeout
  <2>1. pc = "wait" /\ pc' = "timeout"
    BY <1>3 DEF WaitTimeout
  <2>2. StepsLeft = 13 + SelfTest + MaxReads - reads /\ StepsLeft' = 0
    BY <2>1 DEF StepsLeft, Failed
  <2> QED
    BY <2>2, Numbers
<1>4. CASE CheckRevision \/ WholeRing
  <2>1. \/ pc = "revid" /\ pc' \in {"whole", "refused"}
        \/ pc = "whole" /\ pc' = "fill" /\ block' = 0
    BY <1>4 DEF CheckRevision, WholeRing
  <2>2. \/ StepsLeft = 12 + SelfTest /\ StepsLeft' \in {11 + SelfTest, 0}
        \/ StepsLeft = 11 + SelfTest /\ StepsLeft' = 10 + SelfTest - 0
    BY <2>1 DEF StepsLeft, SelfTest, Failed
  <2> QED
    BY <2>2, Numbers
<1>5. CASE Fill
  <2>1. /\ pc = "fill"
        /\ \/ pc' = "fill" /\ block' = block + 1
           \/ pc' = "verify" /\ block' = 0 /\ block = RamBlocks - 1
    BY <1>5 DEF Fill, LastBlock
  <2>2. StepsLeft = 10 + SelfTest - block
    BY <2>1 DEF StepsLeft, Failed
  <2>3. \/ StepsLeft' = 10 + SelfTest - (block + 1)
        \/ StepsLeft' = 10 + MaxPackets + RamBlocks - 0 /\ block = RamBlocks - 1
    BY <2>1 DEF StepsLeft, SelfTest, Failed
  <2> QED
    BY <2>2, <2>3, Numbers
<1>6. CASE VerifyFails \/ Verify
  <2>1. /\ pc = "verify"
        /\ \/ pc' = "verify" /\ block' = block + 1
           \/ pc' = "halt"
           \/ pc' = "bist_failed"
    BY <1>6 DEF VerifyFails, Verify, LastBlock
  <2>2. /\ StepsLeft = 10 + MaxPackets + RamBlocks - block
        /\ StepsLeft' \in {10 + MaxPackets + RamBlocks - (block + 1), 10 + MaxPackets, 0}
    BY <2>1 DEF StepsLeft, Failed
  <2> QED
    BY <2>2, Numbers
<1>7. CASE Halt \/ DrainPacket \/ DrainDone
  <2>1. \/ pc = "halt" /\ pc' = "drain" /\ pktcnt' = pktcnt
        \/ pc = "drain" /\ pc' = "drain" /\ pktcnt' = pktcnt - 1
        \/ pc = "drain" /\ pc' = "release"
    BY <1>7 DEF Halt, DrainPacket, DrainDone, ringVars
  <2>2. \/ StepsLeft = 10 + MaxPackets /\ StepsLeft' = 9 + pktcnt
        \/ StepsLeft = 9 + pktcnt /\ StepsLeft' = 9 + (pktcnt - 1)
        \/ StepsLeft = 9 + pktcnt /\ StepsLeft' = 8
    BY <2>1 DEF StepsLeft, Failed
  <2> QED
    BY <2>2, Numbers
<1>8. CASE Release \/ RingStart \/ RingEnd \/ RingRead \/ MacSetup \/ PhyReady
           \/ EnableReception \/ PullOut
  <2>1. \/ pc = "release" /\ pc' = "start"
        \/ pc = "start" /\ pc' = "end"
        \/ pc = "end" /\ pc' = "read"
        \/ pc = "read" /\ pc' = "mac"
        \/ pc = "mac" /\ pc' = "phy"
        \/ pc = "phy" /\ pc' = "enable"
        \/ pc = "enable" /\ pc' = "pull"
        \/ pc = "pull" /\ pc' = "up"
    BY <1>8
    DEF Release, RingStart, RingEnd, RingRead, MacSetup, PhyReady, EnableReception, PullOut
  <2> QED
    BY <2>1 DEF StepsLeft, Failed
<1> QED
  BY <1>1, <1>2, <1>3, <1>4, <1>5, <1>6, <1>7, <1>8 DEF Driver, Bist, EthernetSetup

LEMMA StepAdvances == IInv /\ [Next]_vars => DriverAdvances
<1> SUFFICES ASSUME IInv, [Next]_vars, ~Driver, ~PhyReady, ~Restart
             PROVE  StepsLeft' = StepsLeft
  BY DriverStepsDown DEF DriverAdvances
<1>1. UNCHANGED <<pc, reads, block>>
  BY DEF Next, PhyBusy, Chip, ChipWakes, ChipReceive, ChipSent, Serve, Send, MainLoop, vars,
     waitVars
<1>2. pc = "drain" => pktcnt' = pktcnt
  <2>1. pc = "drain" => ~rxen
    BY DEF IInv, Progress, Still
  <2> QED
    BY <2>1 DEF Next, PhyBusy, Chip, ChipWakes, ChipReceive, ChipSent, Serve, Send, MainLoop, vars,
       chipVars, ringVars, Failed
<1> QED
  BY <1>1, <1>2 DEF StepsLeft, SelfTest

(* Of the five loops of mchdrv_init, four (enc_wait, the two of the self test *)
(* and the draining of EPKTCNT) end after a number of steps that only the     *)
(* constants bound, whatever the chip was doing when they began and although  *)
(* it may go on receiving.  The fifth, the wait for MISTAT.BUSY (PhyBusy), is *)
(* the only place where mchdrv_init can stay: at most so many steps other     *)
(* than its turns are taken between two restarts.                             *)
THEOREM SetupIsBounded == Spec => []Bounded /\ [][DriverAdvances]_vars
<1>1. IInv => Bounded
  BY BoundedSteps
<1>2. IInv /\ [Next]_vars => [DriverAdvances]_vars
  BY StepAdvances
<1> QED
  BY <1>1, <1>2, Invariance, PTL DEF Spec
=============================================================================
