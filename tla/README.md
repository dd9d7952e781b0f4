# TLA+ models of the ENC28J60 driver, its lwIP port and the EFM32 clocks

This directory is the verification development kept beside the driver. It
holds TLA+ modules translated from the C source, TLC configurations that
model-check them on small instances, and proofs, checked by TLAPS, of the
properties that matter most for instances of every size. Paths below are
relative to the repository (`src/`).

## 1. The system

One processor runs a main loop (`examples/netblink/mch_main.c:76`): it polls
the driver (`mchdrv_poll`) and lwIP's timers. The driver talks to the ENC28J60
over SPI, one command at a time, and never uses the chip's interrupts. The chip
is the concurrent party: it receives frames into its ring buffer and transmits
while the driver works. The clocks have interrupt handlers, and the BURTC clock
lives in a power domain that outlasts the processor.

| Component | State it keeps | Operations | Hard behaviour | Modules |
|---|---|---|---|---|
| Receive path: `enc28j60.c:491-582`, `mchdrv.c:22-34` | `next_frame_location`; in the chip ERXRDPT, ERDPT, EPKTCNT, the ring | `receive_start`, `receive_end`, `enc_read_received_pbuf`, `mchdrv_poll` | frames arrive between any two SPI commands; a pointer written in two bytes; refused lengths and failing allocations; wrap of the ring | `EncReceive`, `RxFifo` |
| RTC clock: `rtc-efm32rtc.c` | `high32`, `high64`; counter and overflow flag | handler, `rtc_get32`, `rtc_get64` | the counter runs on between readings; readers preempt the handler and each other | `RtcClock` |
| Retention registers: `burtc-regs.c` | two copies of a value with checksums | `burtc_regs_store`, `burtc_regs_retrieve` | the power fails between register writes | `BurtcRegs`, `AtomicCell` |
| BURTC clock: `rtc-efm32burtc.c` | `high64`, its stored copy; counter, flag, RSTEN | `rtc_setup`, handler, `rtc_get64` | power losses in the handler, in `rtc_setup`, while off; overflow while off | `BurtcClock` |
| Transmit path: `enc28j60.c:387-489`, `mchdrv.c:37-44` | ETXST, ETXND, EWRPT, TXRTS | `transmit_start/partial/end`, `enc_transmit_pbuf` | the chip reads its memory while the driver goes on; it hangs; time-out racing completion; chains and queues of pbufs | `EncTransmit`, `TxLine` |
| Setup: `enc28j60.c:34-142`, `306-373`, `mchdrv.c:46-83` | `rxbufsize` (cache of ERXND), configuration of the chip | `enc_setup_basic`, `enc_wait`, `enc_bist_manual`, `enc_ethernet_setup`, `mchdrv_init` | restart of the processor while the chip runs on | `EncSetup` |
| SPI and banks: `enc28j60.c:144-238`, `asf/enchw/enchw.c` | ECON1.BSEL, select line, bus lock | `command`, `select_page`, `enc_RCR` .. `enc_WBM`, `enchw_*` | a bank left by a restart; bits of ECON1 that the chip clears meanwhile; a lock shared with other slaves | `EncRegisters`, `RegisterFile`, `EncSpi` |
| PHY: `enc28j60.c:273-304`, `mchdrv.c:17-20` | MII registers, PHY registers | `enc_MII_read`, `enc_MII_write`, `enc_LED_set` | the chip takes its time; a read that follows a write; a restart inside an access; registers that `enc_RCR` may misread; a link lost between two polls | `EncMii` |
| Example, logging, boards | LED timer; log backend | `recv`, `led2_off_timeout`, `log_message` | single timer slot; formatting | not modelled |

How they interact: `mchdrv_poll` calls the receive path and passes its pbuf to
`netif->input`, from which lwIP may call `mchdrv_linkoutput` (the transmit
path) before it returns; both use the SPI layer. `sys_now` reads the clock.
`rtc-efm32burtc.c` keeps `high64` in slice 0 of the retention registers.

What makes each part correct:

* receive: the chip never overwrites what is still to be read; the driver's
  place in the ring and the chip's agree; a pbuf is the frame it stands for;
  every frame is handed over or dropped once, in order; no space leaks;
* clocks: each wrap is counted once; a reading is exact at the moment of its
  last look at the counter;
* retention registers: a store is atomic under power loss, and durable;
* BURTC clock: it resumes exactly, or starts anew, and says so to nobody (the
  header's "it will indicate an overflow condition" has no interface);
* transmit: the chip sends the bytes of the packet, in order, at most once, and
  only while the call lasts; nothing is written into the ring; the path is
  usable again after a hang;
* setup: whatever state the chip is in, setup ends in the state that the
  receive path starts from, or reports an error (with a reset pin, the self
  test only for a chip that is broken), or waits for the PHY;
* SPI: to its callers the chip is a file of registers without banks; one slave
  is selected at a time (it is not: finding 4); no call waits for ever;
* PHY: MIRD is taken after a reading of this call and of its register; a write
  arrives, in its register; every loss of the link is on record until reported.

## 2. The modules and the code

An action is one step that another party can come between: one SPI command (or
one burst of them that only the driver's own state tells apart), one register
access, one assignment to a shared variable. An operator marked `fault` is a
mistake a programmer could make at that place; the mutants in `PROJECT.json`
put it there and each must break a property.

### EncReceive, RxFifo

`pc` is where the main loop is: `idle` (`mchdrv_poll` about to read EPKTCNT),
`start` (`receive_start`), `alloc` (the two length checks and `pbuf_alloc`),
`data` (reading the payload), `end`, `high`, `dec` (`receive_end`: low byte of
ERXRDPT, high byte, PKTDEC) and `input` (`netif->input`). `nfl` is
`next_frame_location`, `header` the header read, `buf` the pbuf. The link state
half of `mchdrv_poll` touches none of this and is left out.

The chip is external and modelled from the registers the driver programs: it
writes a header (address of the next frame, length) and the frame at `wrpt`,
pads to even addresses, never writes at or past ERXRDPT, and latches ERXRDPT on
its high byte. A byte of the ring is the pair of the frame and the offset it
was written for, so that reading a byte of another frame, or the wrong byte of
the right one, is visible. A header is only understood where its six bytes are
in place; elsewhere it is anything. A failing chip puts unusable lengths into
headers (`BadLens`), which is what the two checks are for.

`RxFifo` says what the stack sees: a queue of frames whose head is delivered or
dropped. `EncReceive` implements it under the mapping at its end: a frame is in
the queue until its payload is input or it is released without one.

### EncTransmit, TxLine

One call of `mchdrv_linkoutput` after the other. `pc` follows the call: `start`
(`transmit_start`), `partial` (one turn of the loop over the chain for each
`TransmitPartial`), `end`, `rts` (ETXND, TXRTS), `poll`, then `status`, or
`reset` and `release`. `chain` and `seg` are the pbufs and `buf`; a chain keeps
lwIP's rule that `tot_len` is `len` plus the rest (`EndsAt`), and may have a
queue of other packets behind it. A byte of memory is the pair of the packet
and its place in it, with three places that are not data (control byte, status
vector of a sent and of an aborted frame).

The chip is external: it starts at any moment after TXRTS, sends byte by byte
from its memory, ends or aborts and writes its status vector behind ETXND, or
hangs with TXRTS set (errata 12 and 13, which the code names). It may do so in
a race with the last poll. `TxLine` is what the stack is promised: at most once,
in order, only during the call, possibly cut short, nothing else. `FramesFit`
is the one assumption the code does not check ("@todo check buffer size"): a
packet and its status vector fit behind the ring, which the mtu of 1500 and the
ring of 4*1024 bytes grant.

### EncSetup

`mchdrv_init` step by step: `enchw_setup` (with the reset pulse where the board
has the pin), each reading of `enc_wait`, `enc_bist_manual` one block of 256
bytes at a time, each register write of `enc_ethernet_setup` that anything here
depends on. `Restart` puts the processor back to the beginning at any moment
and leaves the chip as it is: receiving, sending, halfway through its setup.
Addresses are counted in blocks and a frame takes one block; that is enough for
the question which pointers are where and who overwrites whose pattern. `alias`
is the chip's address decoder, the identity in a chip in order; `Aliases` are
the faulty ones that the self test has to find. While the
chip wakes up MISO floats for at most `PowerUpReads` readings of ESTAT, fewer
than `enc_wait` requires to be equal, as its comment reports; that is what makes
it safe to go on (`ReceivesWhenUp`). A chip that is awake has a revision the
driver knows or one it does not (`known`); what a sleeping one answers to the
reading of EREVID is left open, and the proof has a lemma that the question
does not arise (`RevisionAskedAwake`). Of `enc_MII_write` to PHCON1 (line 364)
there is the wait for MISTAT.BUSY, the one loop of `mchdrv_init` that has no
bound: `PhyBusy` is a turn of it, `PhyReady` the way out, and nothing says when
the chip takes it. The access itself is in `EncMii`. `Serve` and `Send` are the
receive and the transmit path reduced to what they leave in the registers at
the moment of a restart.

### EncRegisters, RegisterFile, EncSpi

`EncRegisters` is the enum of `enc28j60-consts.h`: each register by bank and
address, and `Value` as the byte that packs the two. What the driver does with
that byte (`Banks`, `Page`, `Address`, `reg&~1`, `reg|1`) is computed from it.
`Calls` are the functions of `enc28j60.h:43-51` with the registers they may be
given, `Targets` what a call reaches.

`EncSpi` makes a call into its commands. For each register there are up to two
commands for the bank (`FirstCmd`, `NextCmd`: a BFS and a BFC on ECON1, either
left out when it has no bits), then the command itself; `at` is where a command
is: `select` (the lock), `bytes`, `unselect`. The chip's side is `Reached`: the
address in the bank that ECON1 selects. `done` is what the chip acted on, so
that a wrong bank shows as another register. Nothing ever writes
`last_used_register` after `enc_setup_basic`, so the bank is selected before
every access outside the common registers; `LastUsed` is that constant.
Callers write ECON1 only through BFS and BFC, with data in `Own`.

The lock is that of the ASF backend, shared with other slaves (`Others`), which
take and release it at any time. The EFM32 backend has no lock and is the case
of no others. `WBM_raw` calls `enchw_unselect` twice ("just triggering another
pause", line 210), and the second call gives back whatever lock is held by
then. `released` is a history variable: it has been another's. From then on two
slaves may be selected at a time, and `Exclusive`, the comment of
`asf/enchw/enchw.c:13-21` on what a locked master means, is violated (finding
4). The model goes on from there as the code does: every later `spi_unlock`
releases the lock of whoever holds it. `enc_SRC`, which nothing calls, sends
its byte without selecting at all (`SoftReset`).

`RegisterFile` is the promise: a call acts once on each register it names, low
byte before high byte before the memory they point into, and the bits of ECON1
that belong to callers change only by a call that says so, or when the chip
clears TXRTS. It is a promise about the driver's own commands. What the chip
makes of the bytes meant for another slave, when both are selected after a lock
was lost, is not modelled, and `ImplementsFile` says nothing about it.

### EncMii

One access to a register is an action; that the bank is right is what `EncSpi`
shows. The chip takes its time with the PHY (`busy`), works with the address
that MIREGADR holds at the end, and starts a read when MIIRD changes to one;
whether it also does so when MIIRD was set already is left open (`Start`).
PHSTAT1 latches a loss of the link until it is read. A register of 16 bits is
four groups of four bits, which is how `enc_LED_set` divides PHLCON. The model
starts where `enc_ethernet_setup` writes PHCON1, with whatever the PHY holds
(`AtStart`) and MIIRD set or not. Then polls and settings of the LEDs come in
any order, and `Restart` takes the driver back to the write of PHCON1 from
anywhere: the chip may be at work then, and MIIRD may stay set.

`enc_RCR` takes the byte after the opcode. For a MII register that need not be
the register's byte, which is what the `@todo` of line 173 is about: `Answers`
is the byte of the register or any of `Dummies`. So MISTAT may seem ready too
early or too late (`SeenReady`), without a bound, and the result of
`enc_MII_read` may be something else than MIRD held (`misread`). The properties
say what holds nevertheless, and their exceptions are exactly these:
`misread`, where what the driver got was not in MIRD, and `reads = 1`, the
first call of `enc_MII_read` after a restart, which alone can find MIIRD set.

`enc_MII_read` does not wait for an earlier write. What gives the PHY the time
are the commands that select the bank in between (`PageCommands`); that an
access to the PHY takes no longer than two commands (`PhyTime <= 2`) is what
`efm32/enchw/enchw.c:16` reports ("2mhz works well with the current pause
commands, 10mhz doesnt"). It is the assumption of this model, stated in
`MiiAssumption`. BFS and BFC are taken to work on MICMD (lines 278 and 284), and
in `EncSetup` on MACON1 (line 335), as the code does.

### RtcClock

Three contexts: main loop, RTC handler, another interrupt. `masked` is CPSID.
`rd[r]` holds where the reading of context `r` is and its locals; one model
serves `rtc_get32` and `rtc_get64`, which take the same readings. The hardware
counter ticks at any time. Two assumptions bound time and are guards of `Tick`:
the handler has cleared the flag within `Latency` ticks of the wrap ("we rely
on the flag to always be cleared in time", `rtc-efm32rtc.c:98`), and a reading
takes at most `Duration` ticks; `Latency + Duration < M`.

### BurtcRegs, AtomicCell

One action per register write of `burtc_regs_store`; `PowerLoss` at any point
takes the locals and keeps the registers. `Stored` is what
`burtc_regs_retrieve` would find. `AtomicCell` is the promise of `burtc-regs.h`:
begin, commit at one moment, return only after the commit; a power loss aborts.
The checksum is a parameter; `MCBurtcRegs` gives TLC the exclusive-or of the
code. A single register write is taken to be atomic, as the code does
(`rtc-efm32burtc.c:103-109` ignores RAMWERR).

### BurtcClock

`at` is where the processor is: the steps of `rtc_setup` in their order, `main`,
and the steps of `BURTC_IRQHandler`. It calls the actions of `BurtcRegs`
(instance `Regs`, values of one word) for its stores, so that a power loss may
come between any two register writes of a store in the handler or in
`rtc_setup`. While the main power is off the counter runs and may overflow any
number of times; the backup power may go too. `wraps` counts the wraps since
the clock last started anew; `lost` counts those whose handler was caught by a
power loss between `IsrClear` and the commit of the store.

Registers after a loss of the backup power are anything that has no valid copy:
`burtc-regs.h:10` calls the memory "typically invalid". Of the 128 registers
that `rtc_setup` zeroes, the four of slice 0 are modelled.

## 3. What is checked

| Run | Question | Bounds | Result |
|---|---|---|---|
| `receive_shipped` | receive path, last address even as `mchdrv_init` sets it | ring 0..28, 4 frames of 4, 7 or 10 bytes (length fields 3 and 99 from a failing chip), register bytes of base 8 | all properties hold (222,499 states) |
| `receive_errata` | does the workaround keep ERXRDPT odd? | ring 0..28, the shipped parity | violated: finding 1 |
| `transmit` | transmit path against a slow, aborting or hanging chip | memory of 19 bytes, ring of 7, four chains of up to 3 bytes, 2 polls, 3 calls | all properties hold (48,342 states) |
| `setup_restart` | setup over restarts, with and without a reset pin | 6 blocks, ring of 4, 7 readings of which 2 float and 3 must be equal, 3 packets, 2 restarts, a good and a bad decoder, known and unknown revisions | all properties hold (214,612 states) |
| `spi` | calls in any order, from any bank, on a shared bus | 12 registers of every bank and of addresses shared between banks, two callers' bits of ECON1, two other slaves | all properties hold (52,648 states) |
| `spi_shared` | is the lock held while bytes are exchanged? | the same | violated: finding 4 |
| `mii` | polls and LED settings against a slow PHY, misread registers, restarts and a link that comes and goes | two LED configurations, PHLCON as after a reset, two dummy bytes, `PhyTime` 2 | all properties hold (1,176,352 states) |
| `rtc_clock` | counting and reading | counter of 8, `high32` of 3 values, 7 wraps | holds |
| `burtc_regs` | atomicity and durability of one word | 3 bit registers, all initial contents | holds |
| `burtc_regs_torn` | atomicity of two words | 2 bit registers, from erased registers | violated: finding 2 |
| `burtc_clock` | the clock across power losses | counter of 4, registers of 2 bits, 3 wraps | holds |
| `burtc_clock_loss` | does it know of every wrap? | the same | violated: finding 3 |

Why the bounds are enough. The ring holds two to three frames, so that frames
wrap at every offset, end at the last address, and meet a full ring; four
frames take the pointers around more than once, and both bytes of ERXRDPT
change separately (base 8). The transmit
run has a single pbuf, a chain with an empty pbuf, a queue and an empty packet;
the memory is the smallest in which they fit, so that a byte too far is outside
it; three calls let a hang, its reset and another frame follow each other. In
the set-up runs two restarts are the cold start, a restart from any state and
one that interrupts the setup of the second; three packets fill EPKTCNT to its
limit, and the ring is smaller than the memory so that a stale ERXND shows. The
RTC run has room for two carries of `high32` and for a wrap between any two
readings. Registers of two or three bits show
every relation between a word, its checksum and the checksum plus one. In the
SPI run each register shares its address with one of another bank or is common
to all, and pages with no, one and two bits set occur, so that each form of the
bank switch is taken; two others are enough for the lock to pass between them
while the driver waits. In the PHY run the two configurations and PHLCON's own differ in
bits that a missing mask would leave over, and of the two dummy bytes one has
the bits of BUSY and of LLSTAT set and one has not. In the BURTC run every step of
`rtc_setup` and of the handler is cut by a power loss, and clocks that overflow
once and twice while off are reached. None of the
properties refers to a bound except through `MaxFrames` and `MaxWraps`, which
only end the runs; the theorems of section 4 hold for all values.

### Properties

* `UnreadIntact`, `InSync`, `PbufHoldsFrame`, `RingReclaimed` (invariants),
  `EveryFrameTaken` (liveness) and `ImplementsFifo` (refinement) of the receive
  path; `OddReadPointer` is the errata item the workaround names
  (proved for every ring that ends at an odd address).
* `InFlightIntact`, `QuietWhenIdle`, `RingUntouched` (invariants), `Returns`
  (liveness) and `ImplementsLine` (refinement) of the transmit path.
* `HandsOver`, `ReceivesWhenUp`, `BistFindsFaults`, `CacheCoherent`,
  `ResetAvoidsFalseAlarms` (invariants) and `SetupEnds` (liveness: it ends after
  every start, or stays in the wait for MISTAT.BUSY) of the set-up.
* `ImplementsFile` (refinement) and `CallEnds` (liveness) of the SPI layer, and
  `Exclusive`, which it does not keep; `DataInWindow`, `WritesArrive`
  (invariants) and `LossAccounted` (action property) of the PHY.
* `Accounted` and `ReadExact` of both clocks; `FlagCleared`, `OverflowServed`
  (liveness). `Accounted` of `BurtcClock` spans power losses: it says that the
  only wraps the running clock does not know are the ones counted in `lost`.
* `OldOrNew`, `ImplementsCell`, `Durable` of the retention registers.

### Fairness

* `EncReceive`: weak fairness of the main loop, which polls for ever
  (`mch_main.c:76`). Nothing obliges frames to arrive.
* `EncTransmit` and `EncSetup`: weak fairness of the driver, a plain loop that
  nothing preempts for ever. The chip is not fair: it need not send, nor wake
  up, nor be done with the PHY (`PhyReady` is outside the fair `Driver`). The main loop may send or not, and restarts are bounded and not fair.
* `EncSpi`: weak fairness of the driver's steps; strong fairness of getting the
  lock (`EnchwSetup`, `Select`), because others take it again and again but
  leave it free at some of the moments when the driver, spinning, looks; weak
  fairness of the others giving it back. They need not ever take it.
* `EncMii`: none. The wait for MISTAT.BUSY depends on a byte that need not be
  that of MISTAT, so that no fairness of chip and driver would make it end, and
  nothing is claimed of it but what holds at every step.
* `RtcClock`: strong fairness of the handler's steps and of each reading. A
  pending interrupt is taken as soon as it is let in, and a reading that is
  preempted again and again still goes on between the preemptions; weak
  fairness would not do because other contexts disable these steps over and
  over.
* `BurtcClock`: the same, and weak fairness of `rtc_setup` and of the steps of a
  store, which nothing disables but a power loss. Power losses are not fair and
  neither is the return of the power; `OverflowServed` speaks only of the time
  with power.

### Findings

1. `enc28j60.c:507`, with `mchdrv.c:64`. The workaround for errata item 14
   programs ERXND when the next frame starts at 0. `mchdrv_init` passes
   `4*1024`, the size, where the code takes the last address, so ERXND is even
   and so is the value programmed. There is no other: `EvenOnlyAtTheEnd`, proved
   for every ring, says that an even value is the ring's last address.
2. `burtc-regs.c:36`. A store of two or more words is not atomic: the copy
   being overwritten was destroyed by adding one to its checksum, and half of
   the new value may match that. One word, all that the repository itself
   stores, is safe (proved). `TornOnlyByMatch`, proved for every length, says
   that nothing else tears: a store that finds its first copy valid is atomic
   however long it is.
3. `rtc-efm32burtc.c:59`. The handler clears the flag before it stores the
   count; a power loss in between loses 2^32 ticks silently.
4. `enc28j60.c:211`. The second `enchw_unselect` of `WBM_raw` comes after the
   lock of the bus was given back. If another slave's driver has taken it by
   then it loses it, and the driver's next command selects the chip beside that
   slave. The comment in `asf/enchw/enchw.c:13` relies on the order select,
   exchange, unselect and on the master being locked in between.
   `OnlyUnselectAgainReleases`, proved for any number of slaves, says that
   nothing else leads to bytes without the lock.

### Observations

These came up while modelling. They have no run of their own, either because a
property of a passing run states the limit or because no state depends on them.

* `enc28j60.c:119`. On a board without a reset pin, a frame that arrives while
  `enc_bist_manual` runs after a restart overwrites the pattern; the
  initialisation of a chip in order fails and `mch_main.c:43` asserts. Halting
  the chip (line 313) before the test would avoid it. `ResetAvoidsFalseAlarms`
  states, and the proof shows, that with a reset pin it cannot happen.
* `enc28j60.c:264`. `stable` counts equal neighbouring readings but is not set
  back by a different one, so they need not be consecutive as the comment says.
* `enc28j60.c:237`. `enc_SRC` exchanges its byte without selecting the chip, on a
  bus that is not locked. Nothing calls it.
* `enc28j60.c:457`. The status vector follows ETXND, which is `start + length`;
  `transmit_end` reads from there instead of one further, so it gets the last
  byte of the frame and loses the last of the vector (`StatusIsShiftedByOne`,
  proved: always, and nothing worse). Today the bytes are only logged; "@todo
  parse that" (line 460) would need it right.
* `enc28j60.c:168`. `last_used_register` is never updated, so the check for the
  bank last used never applies. It is not enough to update it: the accesses to
  the PHY depend on the time the commands for the bank take (see `EncMii`).
* `enc28j60.c:280`, `282` and `291`. MISTAT and MIRD are read with `enc_RCR`, which
  takes the first byte; the comment in line 173 says that this is right only
  for the ETH registers. `EncMii` lets the byte be another: the link may then be
  reported wrongly, `enc_LED_set` may write back bits it never read, and the
  loops on BUSY may end early or never. What holds all the same is in its
  properties.
* `enc28j60.c:278`. A restart of the processor before line 284 leaves MIIRD set, and
  the first `enc_MII_read` after it may take an old value. `mchdrv_init` does not
  clear it. `DataInWindow` states that it is only the first.
* `enc28j60.c:363`. The comment names PHCON2 bit 8 (HDLDIS), the code in line
  364 writes bit 8 of PHCON1.

## 4. What is proved

Every component that is modelled has a module of proofs with its name
(`EncReceiveProofs`, `EncTransmitProofs`, `EncSetupProofs`, `EncSpiProofs`,
`EncMiiProofs`, `RtcClockProofs`, `BurtcRegsProofs`, `BurtcClockProofs`), which
extends its model and uses only the named assumptions on the constants. Every
invariant of a passing run is proved.

* `EncReceive`: for every ring size, register base, set of frame lengths and
  number of frames. The inductive invariant adds to the properties what they
  rest on: the unread frames lie end to end from `nfl` to `wrpt`, the
  bytes from `wrpt` to ERXRDPT are free and no unread frame is in them, the
  header held by the driver is the one of frame `taken + 1`, the low byte that
  waits in the chip belongs to the address in `nfl`. The step of `ChipReceive`
  is the heart: what it writes is disjoint from every unread frame. The
  refinement theorem `RefinesFifo` follows from the invariant and a lemma on
  how the mapped queue changes. `InOrderAtMostOnce` states what that means for
  lwIP: an increasing map leads from the payloads handed over to the frames
  received, each payload being that frame's. `FrameIsReached` gives a measure,
  `StepsTo`, of the driver's way to a frame: at most `8*MaxPackets - 2` steps,
  every step of the driver lowers it, no step of the chip raises it, and no poll
  finds EPKTCNT zero before.
* `EncTransmit`: for every size of memory and ring, every set of chains that
  keep lwIP's rule and fit (`FramesFit`), every number of polls. `IInv` says how
  much of the packet has been copied where (`Progress`: the bytes before EWRPT
  are those of the packet, and the pbufs left make up the rest), which of TXRTS,
  TXRST and the chip's state go together (`Logic`), and that what is on the wire
  so far is a beginning of the packet (`OnLine`). `RefinesLine` follows, and
  `InOrderAtMostOnce`: the packets on the wire have increasing numbers and each
  is a beginning of the one handed over. `CallIsBounded` has the measure for
  `linkoutput`, which ends after `Polls + 5` steps and one for each pbuf, also
  with a chip that hangs.
* `EncSetup`: for every size of memory and ring, every kind of address decoder,
  every counter limit and number of restarts. `Progress` lists what has been
  achieved at each place of the setup; `Tests` is why the self test is sound:
  of two blocks that the decoder confuses the lower one has lost its pattern
  when the higher one is filled and cannot get it back, since frames only
  destroy patterns. Where there is a reset pin, `NoFalseAlarm`
  shows that nothing disturbs the patterns at all. `SetupIsBounded`: between
  restarts `mchdrv_init` takes at most `14 + MaxPackets + 2*RamBlocks + MaxReads`
  steps besides the turns of `PhyBusy`. Four of its five loops end although the
  chip goes on receiving, since what the fourth waits for comes with reception
  off; the fifth, the wait for MISTAT.BUSY, is the only place to stay.
* `EncSpi`: for every set of called registers, of the callers' bits of ECON1 and
  of other slaves. `Course` relates the call, what is left of it, what is done
  and the place of the driver; `Switched` says which bits of BSEL are right
  after which command, so that `Command` finds its bank; `Bus` says who holds
  the lock as long as the driver has released none that was another's.
  `OnlyUnselectAgainReleases`: without the lock, or beside another slave, bytes
  are exchanged only after that, and only `UnselectAgain`, with another slave
  selected, does it. `RefinesFile` maps each step: a
  `Command` is an `Act`, the last `unselect` a `Return`, the commands for the
  bank are stutters because they change only BSEL. `CallIsBounded`: a call has
  at most 32 steps of its own, and one that waits for the lock waits for a slave
  that is selected, never for itself.
* `EncMii`: for every set of LED configurations and of dummy bytes and every
  content of the PHY. `Course` says which of the chip's states go with which
  place of the driver, `Flag` that MIIRD is set outside a reading only before
  the first one after a restart, `Data` what MIRD holds for the call, `Pending`
  that the write at work is the last call's, `Latched` that a link that is down
  has left its mark. `LossesAreAccounted` calls a loss on record while LLSTAT is
  clear or the reading under way has found it so, and shows that only a loss
  puts it there, only a report that the link is down, or a restart, takes it
  away, and that a poll with nothing on record reports the link as up, with the
  two exceptions; `DownIsOnRecord` that a link that is down is on record.
* `RtcClock`: for every width of counter and of `high32`. `IInv` says that
  CPSID is never nested, how far the handler is with its two-step update, and
  what a reading knows: when it first looked, there had been `rd[r].wraps`
  wraps, of which the parts it copies count all, or all but one that was at
  most `Latency` ticks old. From that, the case distinction of the code
  (`overflew || second < first`) is exact because `Latency + Duration < M`.
  `NeverGoesBack`: every context reads the same number, the ticks since the
  set-up, which steps by one; so no reading is smaller than an earlier one,
  whichever of them interrupted which.
* `BurtcRegs`: `Durable` for values of every length, every checksum and every
  initial contents of the registers; `OldOrNew` and the refinement of
  `AtomicCell` for values of one word. The strengthening (`Kept`) says that the
  read value is the old one up to the write that makes the first copy's
  checksum match, and the assumption used of the checksum is only that adding
  one to a register changes it. `TornOnlyByMatch` extends `OldOrNew` to values of
  every length but for the one exception it names.
* `BurtcClock`: for counters and registers of every width, wherever and however
  often the power fails. `Trusted` is the core: if the power went now and the
  flag were clear, the registers would hold a count that is right, or none with
  nothing to count. `Storing` follows the writes of `burtc_regs_store` (what
  is read is the old value up to one write, and the new one from then on),
  `Counting` says which count is in the registers and in `high64` at each place
  of the handler, `Resuming` and `Erasing` the same for `rtc_setup`. `Recoverable`
  derives from them that a loss of power leaves a state to resume from.
  `Masking` and `Reading` are as in `RtcClock`, except that there is no history
  of each reading: what a reading should return (`Then`) is computed from the
  present count and whether the counter is below its first value.
  `StoresByTheProtocol` composes the clock with `BurtcRegs`: each of its steps is
  one of that module, a loss of everything, or the erasure when nothing is
  being stored, so `OldOrNew` and `Durable` hold of the clock's registers too.
  `AlwaysResumable` states `Trusted` for the reader, and `NeverGoesBack` which
  steps can set the readings back: a loss of the backup power, the first
  set-up, an overflow that nobody looked for, and finding 3.

The history variables of the clocks, of `EncSpi` and of `EncMii` (`wraps`, `lost`,
`want`, `fresh`, `misread`, `reads`, `done`, `released`) occur in no guard except for the bound on
`wraps`, and no variable of the code or the chip depends on them.

Only model-checked: liveness (`EveryFrameTaken`, `Returns`, `SetupEnds`,
`CallEnds`, `FlagCleared`, `OverflowServed`, the fairness parts of
`ImplementsFifo` and `ImplementsLine`), which is out of the prover's reach, and
`OldOrNew` with registers of more than one word, where it does not hold. Of
`EveryFrameTaken`, `Returns`, `SetupEnds` and `CallEnds` the safety half is proved
(`FrameIsReached`, the two `CallIsBounded`, `SetupIsBounded`): a measure that is
bounded, that every step of the driver lowers and no other step raises. What stays with TLC is that the driver can take its next step and,
by fairness, does.

## 5. What is left

1. `EncDriver`: one main loop that composes set-up, receive and transmit path,
   where `netif->input` may transmit before it returns. Today the interface is
   an invariant on each side: `HandsOver` of `EncSetup` is the initial state of
   `EncReceive`, `RingUntouched` of `EncTransmit` keeps the two apart.
2. `EncReceive`, `EncTransmit` and `EncSetup` on top of `RegisterFile`: they take
   a register access as one action, which `ImplementsFile` justifies.

## 6. Not modelled

* A chip that loses its registers while the driver runs (brown-out). The code
  does not notice it: apart from the two length checks, which `EncReceive` has,
  there is nothing that would set `next_frame_location` right again, and so no
  promise to check. Polling after a failed set-up with assertions switched off
  (`mch_main.c:43`) is of the same kind.
* The raw buffer variant `enc_read_received` (`enc28j60.c:523-542`) and
  `enc_bist`, which its own comment says does not work; nothing calls them.
  `enc_set_multicast_reception` sets a filter that no other part depends on.
* Logging. `log-itm.c:18` does not mark an output of exactly `LOGSIZE`
  characters as cut (and sends its terminating zero), as `vsniprintf` reports
  the length without the limit; formatting is not modelled.
* The example: its state is one lwIP timer that switches an LED off. `recv`
  does not test the result of `pbuf_alloc` (`testapp.c:29`).
* Board pin assignments, LEDs and clock switches; the Makefiles.
* lwIP itself, which appears as `pbuf_alloc` succeeding or failing,
  `netif->input` taking the pbuf and chains that keep its rule on `tot_len`.
