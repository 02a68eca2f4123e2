# Verification of the RPV event-driven OS platforms

The repository holds the board support of an event-driven operating system for
three machines: a MicroBlaze soft core (`arch/mb_le`), an ATmega328p
(`arch/mc_avr`) and a PC under QEMU (`arch/x86_64`), with a common file layer
(`fatfs/`).  The kernel itself (main loop, event bus, shell, signals) is linked
from outside the repository and is known here only by how this code calls it.

This directory models the parts in which an interrupt handler, a DMA engine and
a polled service share state without locks, the way from the file table through
the disk drivers of both boards to the medium, and the console's screen.

## How the system runs

* **Main context.** The kernel's main loop calls every service registered with it
  (`uart_service`, `eth_service`, `sb_service`, ...) again and again.  A service
  never blocks: it looks for work, does some of it and returns.  Shell commands
  (`play`, `systime`, `ethlink`, ...) and lwIP run in the same context, so two
  pieces of main-context code never interleave.
* **Interrupt handlers** run between any two accesses of the main context and to
  their end; they do not nest.
* **Engines** (DMA, UART, timer) work all the time, also during handlers.
* **Signals.** A handler raises `SIGINT` or `SIGBUS`; the signal stays pending
  until a service calls `SIG_UNBLOCK`, which takes it, however often it was raised.
  This is how the services use the kernel's signals and is assumed of the kernel.

## Inventory

| component | state | operations | what is hard |
|---|---|---|---|
| AVR console input: `sys/uart.c`, `services/uart_service.c` | ring, head, tail | receive interrupt, atomic read, service pass | the interrupt moves the reader's head when the ring is full; a received NUL looks like "empty" |
| MicroBlaze console input: `sys/xuart.c`, `services/uart_service.c` | hardware FIFO, ring, head, tail | interrupt, unlocked read, service pass | the read stores a head computed from a stale value; one interrupt for many characters |
| Ethernet transmit: `netdev.c`, `sys/xdma.c` (MM2S), `eth_service.c` | `eth_txtail` (fill level and lock in one byte), `eth_txpkts`, BD ring | enqueue, flush, completion interrupt, recovery | `eth_txtail++` against the handler's `= 0`; early completion; a lock nobody undoes |
| Ethernet receive: `sys/xdma.c` (S2MM), `lwip_ethInput` | `eth_rxhead`, `eth_rxtail`, BD status | cyclic engine, interrupt, reader, recovery | the engine waits neither for the reader nor for the handler; frames that share an interrupt; a restart in the middle |
| Millisecond clock: `sys/xtimer.c`, `timer_service.c` | counter, overflow count | overflow interrupt, unlocked read, `systime` | a time in two parts, read one after the other; wrap of 32-bit sums |
| Open-file table: `fatfs/fat.c` | `open_files`, `files` | open, close, mount, lookups | the scan relies on the counter; descriptors kept over a mount or closed twice |
| Sound playback: `sb_service.c`, `sys/xdma.c` (XDMA1) | state machine, `sb_playcount`, `sb_playsize`, two buffers | `play`, service pass, completion interrupt | end of playback by counting; refill against the cyclic engine; a second `play`; errors anywhere |
| x86_64 keyboard: `keyb.c`, `sys/isrs.asm` | `KeybState` | one byte of scan code | releases toggle flags |
| Ethernet link: `eth_service.c`, `sys/xtemac.c`, `sys/xtemac_phy.c` | `link_reg`, `phylink`, `link_sig`, transceiver, MDIO unit | PHY interrupt, service pass, link up and down, recovery, `ethlink`, `ethphy` | handler and main context share the MDIO unit; the link is read twice; registers that latch or clear on a read |
| Signals shared by services | pending signals | raise, test, unblock | one service takes another's wake-up |
| Time measurement: `sys/rtmsure.c`, `rtmsure_service.c` | `bcd_time`, `rt_msuretime` | interrupt, read and reset, `rtmsure` | read then reset; a BCD number in a signed integer |
| SD card storage: `sys/rsdcard.c`, `storage.c`, `sys/xdma.c` (XDMA0) | DMA channels, I/O buffer, card status | read, write, flush | a card faster than the poll for its start; a channel left busy by an error |
| PATA disk: `sys/pata.asm`, `pata.c` | drive table, status register | detect, read, write, flush | waits without a bound; errors between sectors; write cache, and a flush whose status is read too early |
| Disk interface: `fatfs/diskio.c` | - | status, read, write, sync | one contract over two drivers |
| Text console: `print.c`, `console.c`, `text_hwcursor.asm` | cursor, screen, color | print, delete, scroll, clear, move | edges of the screen, rows that are full but not left |
| Wheels, temperature, security, memory monitor | hardly any | register access | - |
| Boot, caches, interrupt controllers, PS/2 set-up | hardware | once, before anything is concurrent | - |

`PROJECT.json` gives the sources of each, and under `hazards` the line at which each
danger bites.

## Modules

| module | models |
|---|---|
| `LossyFifo` | abstract: what the receive ring of a UART promises, in two strengths |
| `AvrUart`, `XUart` | AVR and MicroBlaze console input |
| `UartProofs` | the theorems about both |
| `EthTx`, `EthTxProofs` | Ethernet transmit queue with its recovery |
| `EthRx`, `EthRxProofs` | Ethernet receive queue with its recovery |
| `XTimer`, `XTimerProofs` | clock and `systime` |
| `FatFiles` | open-file table |
| `SbPlayer`, `SbPlayerProofs` | sound player, composed with the table of `FatFiles` |
| `Keyb` | keyboard decoder |
| `TextConsole` | text console |
| `X86ConsoleProofs` | the theorems about `Keyb` and `TextConsole` |
| `EthLink` | Ethernet link, PHY, MDIO unit and transceiver |
| `RtMsure` | reaction-time measurement |
| `MbSignals`, `MbSignalsProofs` | composition: `EthLink` and `RtMsure` over one `SIGINT` and `SIGBUS` |
| `BlockDevice` | abstract: what a disk promises to FatFs |
| `DiskIo` | `diskio.c`: requests and results |
| `SdCard`, `Pata` | the two drivers with their hardware |
| `Disk`, `DiskProofs` | composition: file table, requests, the driver of either board, power failures; the proofs of `FatFiles` are in `DiskProofs` too |
| `MCDevices` | the drivers that share nothing with another one (`AvrUart`, `XUart`, `XTimer`, `Keyb`, `TextConsole`) in one run |

Variables carry the names of the C variables, actions those of the functions; a
function whose accesses can be interrupted is one action per access to shared
state (`txsgenque_load`, `txsgenque_inc` are the two halves of `eth_txtail++`).
Items (characters, frames, chunks) are numbers in order of arrival, which is what
order and loss properties need; their contents are left out except where the
code branches on them (NUL and rejected characters, shift state of a key).
Definitions marked *Slip* are deliberate mistakes next to the definition they
distort; no specification uses them, `PROJECT.json` names them as mutants, and each one
shows that a property notices a plausible mistake in that code.

**Hardware, users and errors act at any step.**  No constant or guard keeps the outside
world from acting when the code is not ready for it.  Where the code then does what nobody
can want, one of two things is in the project: a run that TLC refutes, when a line of the
repository says otherwise; and a *history variable*, set in the action in which it
happens, so that a passing property can say what still holds, and when.  No guard, and no
variable that is not itself history, depends on them.  They are:

| history | module | set when | the properties then say |
|---|---|---|---|
| `disturbed` | `EthTx` | the handler reopens the queue under the engine, or a channel fails | nothing of order and counting, until a frame is queued at rest |
| `behind`, `disturbed` | `EthRx` | frames share an interrupt; the engine overtakes a read | by how much the head lags, always; nothing of order until the queue is found empty and no frame is on its way |
| `disturbed` | `SbPlayer` | the service is late for a buffer, or a play comes during another | nothing of what is heard in this play; the next one is a new one |
| `lost` | `SbPlayer` | a play overwrites the descriptor of an open file | which files stay open: these and no others |
| `raced` | `EthLink` | the PHY interrupt meets an MDIO access of the main context; a second read of the link clears the flag of a change; a loss was over before it was read | nothing of the link until the service reads it again |
| `taken` | `MbSignals` | an unblock takes the signal of a flag that is set | nothing of that flag's service until it looks again |
| `lost` | `RtMsure` | the reset throws a measurement away | nothing until the next measurement |
| `stale` | `FatFiles` | a mount, or a close of an old descriptor, takes a file from under a descriptor | nothing of that descriptor |
| `hasty` | `DiskIo`, `Pata` | the status after a flush is read before the device has begun it | that this flush promises nothing |
| `errors` | `DiskIo`, `SdCard` | the card fails in a request, since boot | why a later request of that kind may fail |

**LossyFifo.**  The queue is the interval of the newest `fill` items, so no
sequence is needed.  `Spec` loses only the oldest item and only on arrival at a
full queue; `WeakSpec` lets a read disturbed by an overrun skip items but never
repeat or reorder.

**AvrUart.**  `_uart_read` is one action because of `ATOMIC_BLOCK`.  A pass of the
service is `uart_service_enter`, reads, and an end at an empty ring or at a NUL.

**XUart.**  Line 91 of `xuart.c` compares two volatile variables, and C leaves open
which one is loaded first: both orders are taken.  The interrupt is raised when the
hardware FIFO stops being empty, and the handler drains the FIFO character by
character while more arrive; reading a character and testing it for validity (lines 123
and 141) is one step, since nothing but the handler reads the FIFO.

**EthTx.**  Each packet interrupts: the driver leaves the threshold at one and marks every
BD as a packet.  Clearing `cr.rs` in the handler lets the engine
finish or drop what it holds (a nondeterministic choice).  The engine halts on a BD that
is complete already.  A frame may be longer than a buffer, which is refused
(`xdma.c:470`), as a full or locked queue refuses any.  Recovery resets both
channels, whichever failed, the receive channel included, whose error is an action here.

**EthRx.**  The engine fills BD after BD whatever they hold, and completes frames
whether or not the handler has acknowledged the one before.  The
reader's steps are those of `_ethdma_rxsgcmplt`: head, tail, status, clear, copy,
store.

**XTimer.**  Widths are parameters.  `IrqLatency` is the number of main-context
accesses that complete after an overflow and before its interrupt is taken.  The result
and the deadline of `systime` are cut to their width as in the code.

**FatFiles.**  FatFs itself is external: each call may succeed or fail.  Every
operation is one step, since only the main context uses the table.  Clients keep
their descriptors as the static `fd` of `sb_service.c` is kept: over a mount (`Mount`), and after a
close of their own (`CloseKeep`, the missing return of line 245), to be closed again.

**SbPlayer.**  The four states of `sb_service` with the DMA ring and the signals.  The
DMA does not wait for the service, whose handling of a completion is four steps (poll,
flags, scan, clear), with the interrupt between any two.  A `play` is accepted at any time
between two passes.  Files may be shorter or longer than their headers
say.  `sb_m_unread` is the path on which a failed header read falls through.

**Keyb.**  The user's keys run ahead of the handler by the bytes on the wire; each
letter carries the case in which it was typed.

**EthLink, RtMsure, MbSignals.**  `read_phyReg` is one action per access to the MDIO unit,
and `on_phyIRQ` may run between any two of them: it is one action, since nothing
of the main context runs inside it.  With the unit busy it computes `link_sig`
from an uninitialized variable, which is a free choice.  A read of BMSR clears the
latched loss of the link, a read of the ISR its sources.  `caller` tells the uses of the
MDIO unit apart: the service, `_xtemac_trxenable` called by `eth_linkup`, the
one called by `_xtemac_recover`, and the `ethphy` command.  `buserr` stands for the flags of both channels, which are tested
and recovered together.  The cable changes, the bus fails and a time is measured at any step.
`rtmsure_poll` notes *all* pending signals, so that `rtmsure_unblock` takes `SIGBUS` too
(`rtmsure_service.c:27` and 40).  The main loop is the conjunct that a service runs only
while the other one is not in a pass.

**BlockDevice, DiskIo, SdCard, Pata, Disk.**  `media` is what a read returns, `durable`
what survives a power failure; they differ by the write cache of a PATA disk.  `mem`
is the caller's buffer.  `BlockDevice` has one request at a time, moves its sectors in
any order and portions, and returns `RES_OK` only for a request that is done;
`CTRL_SYNC` returns it only when the disk's blocks are durable, or when it was `hasty`.  `Disk` has one
variable `board` that never changes and selects the driver.  FatFs is external: an
operation makes some requests, to drives with or without a letter, stops at the first that fails and fails with it;
what it does in between is left open.  A failed request of `SdCard` leaves its DMA
channel busy, as the hardware does when the card gives up early.  The card starts and ends
whether or not the driver polls: when it is done before `rsdcard_started` looks, the
driver waits in `start` for good (`Missed`).  A PATA device fails at any sector.
An error in the sector loop goes to the step `"wild"`, in which the program has jumped to whatever
its caller kept in `r12`: no action of the driver follows, and only a power failure ends it.  What
the program really does there cannot be said, so nothing is claimed of it (`RequestReturns`
excepts the state, `ErrorReported` is refuted by it).

**TextConsole.**  The reference is an endless tape of cells with a position; the
screen is a window on its last rows; cells never written are empty.  `print_string` is a
recursive function over the positions of the argument.  Characters are classes: the four control characters, and glyphs.
A store adds its index to the domain of the buffer, so that `ConTypeOK` notices one that is outside.

## Runs

Passing runs:

| run | bounds | shows |
|---|---|---|
| `devices`, `AvrUart` | 4 slots, 7 characters | the ring is exactly the newest characters; implements `LossyFifo!Spec`; events in order; nothing stays in the ring |
| `devices`, `XUart` | 4 slots, FIFO of 2, 7 characters | implements `LossyFifo!WeakSpec`: overruns may skip, never repeat or reorder; no interrupt is missed; a quiet line drains |
| `devices`, `XTimer` | overflow every 11 ticks, 3 ticks per ms, 36 ticks, milliseconds modulo 8 | never backwards (before the cut to the width), behind by at most 1 ms per overflow |
| `devices`, `Keyb` | 4 bytes on the wire, 7 key events | shift flags in step with the keys, letters in the case typed, control flag right unless both control keys are held |
| `devices`, `TextConsole` | 3 columns, 2 rows, 8 operations | screen, hardware cursor and deletions follow the tape |
| `eth_tx` | depth 4, 6 frames, chains of 2, 2 bus errors | with an interrupt per packet: every queue is reopened in the end; undisturbed frames are sent in order, and an empty queue has sent and counted them |
| `eth_rx` | 3 BDs, 6 frames, 2 bus errors | with frames that share interrupts and reads that are overtaken: head and engine differ by exactly the shared interrupts; undisturbed reads deliver the oldest frame and the queue drains; a bus error is recovered from |
| `sb_player` | 2 buffers, files and headers of 0 to 5 half-chunks, 2 plays at any time, 2 errors | `sb_playcount` never wraps and playback ends, however late the service is; a play in time and alone is heard whole and in order before "playback OK"; no file but an overwritten one stays open |
| `mb_signals` | 2 modes, 2 link changes, 1 bus error, 1 measurement of 2 digits, with or without the sign bit | at the end of a pass whose reads nothing has spoilt the transceiver, lwIP's interface and `link_reg` agree with the PHY or a flag says that they do not; they agree for good once the cable is left alone; the last time measured is shown; a bus error is served; but for flags whose signal another service has taken |
| `disk` | 2 entries, 2 clients, 4 blocks, requests of 1 to 3 sectors, 1 write, 1 error, 1 power failure, both boards, every filling of 2 bays | both drivers implement `BlockDevice`; every request returns unless its driver is `Caught`; errors have a cause; counter and table agree, a descriptor that is not stale names its client's file |

`devices` is one run of five drivers that share nothing: `MCDevices` chooses one at the start
and the variables of the others keep still, so its state space is the sum of theirs.
Each driver has the fairness its own module would give it.

Type invariants: `WakeupInv`, `HeadInv`, `ShiftInv`, `PlaycountInv` and `ServicesInv` are `TypeOK` and the
named safety properties of their module (`FifoHasWakeup`; `HeadFollowsEngine`; `ShiftFollowsKeys`;
`PlaycountNeverWraps`; `LinkKeptUnraced` and `TimeKept`).  Every invariant and action property of the passing runs is proved too.

The rings are small because their code treats every slot alike: three or four slots
with enough items to wrap both indices twice contain the empty, full, wrapped and
overrun cases and every interleaving with a reader in between.  Three BDs are overrun by three
frames, and six take the engine round twice in one read.  The screen of
three columns and two rows fills, wraps in both rows and scrolls twice within its
operations.  The disk's limits (length register, count register) are set to two sectors, so that
requests meet and pass the length register and meet the count register; one write is enough for a block that differs from
the original and from its neighbours, and one error and one power failure hit every
step of it.  Where the size
matters for every value, there is a theorem.  The two sound buffers are the
code's own number, and it matters: `sb_playcount` counts one chunk of silence
at the end (`sb_m`) and one prerecorded (`SB_IDLE`), which is right for two
buffers only.  `XTimer`'s 11 and 3 do not divide, like 2^32 and 100000.

Deadlock is not an error (`CHECK_DEADLOCK FALSE`) in `devices`, `systime_wrap`, `sb_player`,
`sb_overlap`, `mb_signals`, `mb_signals_race`, `disk` and `disk_error`: their bounds on
characters, ticks, events, plays, changes, measurements and errors run out while nothing is
left to do, and `Disk` may stand in a caught driver.

Runs that TLC must refute, each a statement of the code's own text
(`PROJECT.json`, `findings`):

| run | statement | what happens |
|---|---|---|
| `eth_tx_lock` | `xdma.c:445` "the tx queue will be locked till transfer completion" | the interrupt of the first packet of a flush reopens the queue under the others |
| `eth_rx_stuck` | `eth_service.c:60` "it shall empty rx queue" | a read that the engine overtakes clears the status of a frame in the queue, or stores an old tail, and the reader waits there with frames queued |
| `sb_overlap` | `sb_service.c:210` "play file closed and DMA stopped" | a second `play` overwrites `fd`; the first file stays open |
| `systime_wrap` | `timer_service.c:26` "wait %d milliseconds..." | `end_time` wraps and `systime` returns at once |
| `mb_signals_race` | `eth_service.c:275` "link up", and line 284 "cable not plugged or link down" | a cable pulled out between the two reads of the link has its `link_sig` cleared by `_xtemac_trxenable`; `ethlink` says "link up", the interface is up and the transceiver off, and nothing is left to correct it |
| `disk_error` | `pata.asm:205` "rax -> i/o status: 0 (error), 1 (success)" | an error in the sector loop leaves `rcx` on the stack, and the driver does not return to its caller |

Limits of the passing properties:

* `QueueDrains` and `ReadsOldest` end at the first pair of frames that share an interrupt, until
  the queue is found empty: `eth_rxhead` counts interrupts, so it stays behind for good, and the frames
  behind it are read only when later ones push it on.
* `RecoversFromBusError` and `PlayEnds` speak of single bus errors.  A second one
  between the test of the flags and `SIG_UNBLOCK` has its signal taken and is never looked at.
* `XTimer` with `IrqLatency = 2`: `Monotone` and `DriftBounded` fail.  If the check of line 94 can run
  before the interrupt of an overflow that preceded the load of the counter, the
  time jumps back by one overflow.  One access of latency is what a processor that
  tests interrupts after each instruction gives.
* What is heard after a late pass is not claimed.  `systime`
  holds the main loop for 5 s, a chunk lasts 0.37 s.
* `TimeShown` and `BusErrorServed` except a main context that waits for ever at `xtemac_phy.c:455`
  (`Caught`): the handler has set the completion bit that had just been cleared.
* `RequestReturns` excepts the two states in which a driver is caught (`Missed` and `"wild"`); the first is
  `rsdcard.c:85` ("Wait for I/O start"), which a card that is done early makes wait without end.

Limits that are built into an action:

* `Disk!FatRequest` asks x86_64 for at most as many sectors as the count register can
  express, 256 in the code.  FatFs asks for one cluster at most, and a cluster of FAT has at most
  128 sectors.
* `Disk!FatOpened` opens files on `mb_le` only: its `sb_service` is the one caller of `fat_fopen` in the repository.
* A PATA device whose flush was looked at too early has answered it before the next command is given: `hasty`
  ends with the request.
* A second overflow of the timer never meets the latched interrupt of the first, which is 43 s old.

## Fairness

Safety is checked without fairness.  The liveness properties assume

* weak fairness of the service: the main loop polls for ever;
* weak fairness of a raised interrupt: handlers do not mask them for ever;
* weak fairness of an engine that has work (`Transmit`, `StaleBd`, `PlayBuffer`);
* in `EthTx`, strong fairness of `txsgflush_test`: between two calls of
  `_ethdma_txsgflush` lwIP sends finitely many packets, because both are called from
  one pass of `eth_service`;
* in `MbSignals`, strong fairness of the first step of either service: the main loop calls both
  in every round, with finitely many commands in between, so a step that is
  possible again and again is taken; and weak fairness of the steps of a pass, of an
  MDIO transfer and of a raised PHY interrupt;
* in `Disk`, weak fairness of the driver and of the hardware, which answers with success
  or an error.

Nothing else is assumed of the outside: characters, frames, commands and errors may or
may not come.

## Proofs

TLAPS proves, for every value of the constants that the named assumptions allow
(sizes and bounds are natural numbers, rings have two slots or more, and the like),
the safety properties of every module.  The bounds on characters, frames, errors,
plays, writes and power failures are constants like any other, so they drop out.  Two
facts are hypotheses of theorems, and both are about numbers: the interrupt latency of the
processor, and the two buffers of the sound DMA.

| theorem | hypothesis | states |
|---|---|---|
| `UartProofs!RingCorrect`, `UartKeysInOrder`, `RefinesLossyFifo` | | AVR: `UartTypeOK`, `RingHoldsNewest`; `RxKeysInOrder`; `ImplementsLossyFifo` |
| `UartProofs!WakeupHolds`, `KeysInOrder`, `RefinesWeakFifo` | | MicroBlaze: `WakeupInv`; `PublishedInOrder`; `ImplementsWeakFifo` |
| `EthTxProofs!TailInRing`, `SendsInOrder`, `EmptyQueueIsSent` | | `TypeOK`; `SentInOrder`; `EmptyMeansSent` |
| `EthRxProofs!HeadHolds`, `FramesInOrder` | | `HeadInv`; `ReadsOldest` |
| `XTimerProofs!TypeCorrect` | | `TimerTypeOK` |
| `XTimerProofs!ClockMonotone`, `ClockDrift` | `IrqLatency <= 1` | `Monotone`; `DriftBounded` |
| `X86ConsoleProofs!ShiftHolds`, `CaseHolds`, `CtrlHolds` | | `ShiftInv`; `CaseAsTyped`; `CtrlFollowsKeys` |
| `X86ConsoleProofs!ConTypeCorrect`, `ScreenHolds`, `CursorHolds`, `DeletionsErase` | | `ConTypeOK`; `ScreenShowsTape`; `CursorAtNextCell`; `DelErasesLast` |
| `MbSignalsProofs!ServicesHold` | | `ServicesInv` |
| `MbSignalsProofs!BcdRoundTrip` | | `bcd_toDec` of a time's BCD form is the time |
| `SbPlayerProofs!PlaycountHolds`, `FilesGivenBack`, `ChunksInOrder` | | `PlaycountInv`; `NoFileLeak`; `PlayedInOrder` |
| `SbPlayerProofs!HeardBeforeOk` | `SB_BUFF_CHUNKS <= 2` | `PlayedBeforeOk` |
| `DiskProofs!TableCorrect`, `TableOverDisks` | | `CountMatches` and `OwnFile`, of the table alone and over the disks |
| `DiskProofs!RefinesBlockDevice`, `ErrorsHaveCauses`, `DiskTypeCorrect` | | `ImplementsBlockDevice`; `ErrorHasCause`; `DiskTypeOK` |

The arguments, and why the properties alone are not inductive:

* **AvrUart.**  `UartInv` adds to the ring property that every published character has been
  read: order of publication follows from the number in the slot about to be read,
  which only `RingHoldsNewest` knows.  The refinement maps each handler run to `Arrive`,
  each read to `Take`.
* **XUart.**  The race moves `rx0_head` back to slots the handler has given up, so nothing
  about the unread slots alone is inductive.  `RingIsHistory` says what every slot holds,
  unread or not: the newest characters in ring order.  A stale head is then harmless, since
  the slots behind it hold characters younger than the one just read.
* **EthTx.**  `RangeInv` holds always: the handler may set `eth_txtail` to 0 between the load and the store of
  `eth_txtail++`, and the local copies keep what is stored in the ring, which is why `Depth` must be
  below 255, the lock value.  `CleanInv` holds while the history is undisturbed: then frames and interrupts are outstanding only
  under the lock (`Guarded`), the local copies are up to date, the BDs of the
  window `Lo..Hi - 1` hold the frames still to be sent, each one higher than the one before, none of them
  complete, and `txcount` lags by the flush in progress.  The hard step is the one that makes the
  history undisturbed again: a first frame queued with the engine at rest.
* **EthRx.**  `HeadFollowsEngine` speaks of a running engine; the proof needs it of a halted one
  too, because a recovery restarts it.  The order of delivery needs what the buffers hold
  (`QueueHolds`, all round the ring but for the BD being written), and that an undisturbed read has the oldest frame and the
  engine is not at its BD (`ReadIsOldest`).
* **XTimer.**  `TimeInv`: the ticks so far are the overflows, counted or latched, and the
  counter.  `Reading` is why the test of line 94 suffices: two loads that find
  `tmr_ovrflows` unchanged either belong together or their overflow is still latched and its
  interrupt comes before the test.
* **Keyb.**  While bytes are on the wire the flags lag behind the keys.  `RunsTo` states the
  flags before and after every byte on its way; the handler takes the first byte off such
  a run, the user adds the bytes of a key at its end.
* **TextConsole.**  `Match` says of any screen and tape, not only of those of a state, that the screen
  is the window of the tape, that the cursor is at its position (a full row included) and that the
  tape is empty below the window, which is why the row that scrolling empties is right.
  Each case of `print_char` keeps `Match`; `print_string` does for every argument, by induction over
  the positions of the characters.  For deletions `EnteredInv` says where the cells typed since another
  operation are: those in the window are the last ones before the position, in order.  Rows are products,
  which the provers do not handle well; `RowAt` and a few lemmas about it keep them out of sight.
* **MbSignals.**  `LinkKeptUnraced` is about the end of a pass, dozens of steps after the link was read.
  `LinkPart` of `IInv` says of each step who uses the MDIO unit and which register is being read (`MdioInv`, `RegInv`),
  and, while no read is spoilt and no change is pending, that the value read is still what the PHY would say (`ValInv`) and what has been set by
  then for each of the three callers (`AgreeInv`).  Two facts let a spoilt history end: a new read of the service that finds the unit
  idle starts with nothing agreed but its own value; and a change after it sets a source in the ISR, which is pending until the
  handler turns it into `link_sig`.  `TimeInv`
  follows a time through `bcd_time` and the local variable, sign included; that the time published is the
  one measured then needs `BcdRoundTrip`.
* **Recursive functions.**  The induction theorems of the library cannot be instantiated here, but the existence of a
  minimum in a nonempty set of numbers (`WFMin`) can: `UpTo` and its likes take a *set* of
  numbers instead of a predicate.  With it `MbSignalsProofs` and `X86ConsoleProofs` show that each recursive function
  has the values its equation states, from their ranges to what they compute.
* **SbPlayer.**  `PlayInv` holds always: `CountInv` compares `sb_playcount` with what is still to be read and covers
  the rest and one chunk more while a completion can be counted down; `TableInv` knows which entries are the player's and
  which it has lost.  `OrderInv` holds while the play is undisturbed.  It has a witness, the
  number of buffers played since the start, from which follow the chunk each buffer holds
  and the last one heard.  Its part `Slack` is the reserve of the count, two buffers of silence: what is
  still in a ring of two is heard before the count is at zero.  `HeardInv` adds up units: heard, in the ring,
  still to be read.
* **Disk.**  `IInv` of the table needs its three properties together: `OwnFile` needs the free entry that
  `CountMatches` promises, and `CountMatches` an entry in use when it is closed; the proof counts
  entries with the library's cardinality theorems, and each step of `Disk` is a step of the table
  or leaves it alone.  `DataInv` ties the request to the driver's step and says of each sector counted
  where its contents are: a sector given to a PATA device is in its cache only when `BSY`
  is 0 again, which is why `write` needs its last wait.  With it every step of a driver is a step of
  the block device or a stutter; reading the status of a flush too early is its step `Hasten`.  `CauseInv` traces error flags and busy channels to an error
  of the same kind of request, and says of which drives the letters are.

Only model-checked: liveness, which is outside this prover's reach as is `ENABLED`: that rings
drain (`EveryCharLeavesRing`, `QuietLineDrains`, `QueueDrains`), locks are undone (`QueueReopens`), bus errors are
recovered from (`RecoversFromBusError`, `BusErrorServed`), playbacks end (`PlayEnds`), requests return
(`RequestReturns`), the link settles (`LinkSettles`) and the time is shown (`TimeShown`).  The runs that are refuted are
model-checked by their nature.

## What is not modelled

The kernel, lwIP and FatFs are external.  Formatting, logging and register layouts are
left out.  The flags of `sgdma_sgls` are separate variables here, while they share a
byte in the code.  Of the services that share signals, `MbSignals` composes two;
`SbPlayer`, `EthTx` and `EthRx` have signals of their own, so what another service's unblock does
to them is known only by analogy: it may take the signal of a flag, as `taken` says of the two.  Memory is assumed coherent
after the driver's cache flushes (the data cache is write-through, `xcache.c`).
`error_code` of `fat.c` is read only by the kernel and left out; a `fat_fopen` refused by
a full table leaves the old code there.  Which disk FatFs means by a letter is not
checked: `pata.c` gives letters in the order of detection and `ffconf.h.in:189` counts
drives, so that behind a free bay a disk is listed as C and reached as D.  Of `pata.asm` the addressing of a sector is
left out, so that "to the sectors asked for" rests on the model's `At(k)`, and the time-out counters, which only lead to another wait.  Components
without a module are listed in `PROJECT.json` with the reason.

## State of the development

The modelling is complete as far as it is planned, and every safety property that a passing run checks is
a theorem.  What could still be added, in order of use:

1. the byte that the flags of `sgdma_sgls` share (`xdma.c:516`), which needs `EthTx`, `EthRx` and
   `SbPlayer` in one composition;
2. the remaining services on the signals of `MbSignals`;
3. stronger properties for the stretches that the history variables except, once the code closes
   the race behind them.
