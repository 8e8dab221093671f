# Formal models of OpenWrt 18.06 run-time components

OpenWrt is a distribution: most of the tree is build recipes, patches and
vendored code. What it carries of its own, at run time, is a set of kernel
drivers, flash and configuration tools and start-up scripts. This project
specifies five of them in TLA+, checks the models with TLC and proves the
central safety properties of all five with TLAPS. The parts were chosen for
their concurrency: where driver, hardware, interrupt, timer, thread or a second
process share state, tests reach little.

Abbreviated source paths: `ag71xx/` is
`src/target/linux/ar71xx/files/drivers/net/ethernet/atheros/ag71xx/`,
`ba_action.c` is under
`src/package/mtk/drivers/mt_wifi/src/mt_wifi/embedded/common/`.

## Inventory

| Part | Source | State |
|---|---|---|
| ag71xx transmit ring, packet segmentation | `ag71xx/ag71xx_main.c` | modelled, proved |
| ag71xx receive ring, NAPI, interrupt, OOM timer | `ag71xx/ag71xx_main.c` | modelled and proved for an open device |
| ag71xx watchdog, stuck detection, restart work | `ag71xx/ag71xx_main.c` | modelled, safety proved; one race found |
| ag71xx open, stop, ethtool, restart and PHY against rtnl | `ag71xx_main.c`, `ag71xx_phy.c`, `ag71xx_ethtool.c` | modelled, proved |
| Oxnas SATA host: the core two ports share | `src/target/linux/oxnas/files/drivers/ata/sata_oxnas.c` and the libata patch `999-libata-hacks.patch` | modelled and proved, but for a false completion that was found; registers, RAID and direct mode are not modelled |
| Broadcom `nvram` tool | `src/package/utils/nvram/src/` | modelled, safety proved; refinement of an abstract store checked |
| GPIO buttons | `src/package/kernel/gpio-button-hotplug/src/` | modelled; debouncing proved |
| mt_wifi receive reordering of a block-ack session | `ba_action.c` | modelled for one session; window, A-MSDU pointer and conservation of frames proved |
| everything else | | see "Not modelled" |

The models stand for a small share of the tree, which has some 900,000 lines,
most of them vendored. Within the files above they cover the operations that
change shared state.

## How the parts interact

**ag71xx.** The machines are uniprocessors and the kernel is not preemptible
(`PREEMPT_NONE`). So CPU code interleaves only where one context interrupts
another (hard interrupt over softirq over process context), or where process
context sleeps; code that runs with interrupts off, or in the same softirq
context, is atomic to the others. The DMA engine may look at the rings between
any two accesses of the CPU. The models split an operation exactly where this
matters.

* The stack calls `hard_start_xmit` in softirq; it fills descriptors, publishes
  them and starts the engine, and stops the queue when the ring is nearly full.
* The engine sends, sets `DESC_EMPTY` and counts in `TX_STATUS`; it receives,
  clears `DESC_EMPTY` and counts in `RX_STATUS`. Status bits raise the interrupt.
* The interrupt disables itself and schedules the poll. The poll reaps the
  transmit ring, takes received packets, refills, and enables the interrupt
  again, or arms the OOM timer.
* The PHY layer reports link changes with interrupts off. The AR724x performs a
  fast reset then.
* The watchdog or the stuck check schedules the restart work. It, `open`, `stop`
  and `set_ringparam` exclude each other by rtnl; the PHY work and the poll are
  excluded by neither rtnl nor, where allocations sleep, by anything else.

**Oxnas SATA** runs on two processors: `queuecommand` under the host lock, an
interrupt handler that does not take it, and an error handler thread per port.
The driver's own lock of the core is taken in `qc_new` and `acquire_hw` and given
back in `qc_free`, hooks that the repository's libata patch adds.

**nvram** is a command: each process reads, changes and writes a staging file
and copies it to a flash partition. Nothing locks the file, and commands that
write map it shared: each sees what the others are writing.

**GPIO buttons**: a poll work or interrupt threads create events; workers of the
shared work queue format them in one static buffer and broadcast them.

**Block-ack reordering**: the receive tasklet runs `ba_reorder`, `bar_process`
and the flush; the MLME thread adds and tears down the session meanwhile.

The components do not share state with each other, apart from the four ag71xx
modules: `Ag71xxTxRestart` extends `Ag71xxTxRing`, both rings extend
`RingCounters`, `Ag71xxFillDesc` justifies the number of descriptors a packet
takes in `Ag71xxTxRing`, and `Ag71xxLifecycle` treats as wholes the rings whose
contents the others describe.

## Modules

| Module | Models | Correspondence |
|---|---|---|
| `RingCounters` | `struct ag71xx_ring` | free-running unsigned counters of width `CounterMod`, masked to a slot |
| `Ag71xxTxRing` | transmit ring | `XmitBegin`, `FillDesc` (one descriptor), `XmitPublish` are `hard_start_xmit`; `TxPackets` is `tx_packets`; `LinkDown`, `LinkUp`, `FastReset`, `Open`, `Stop` are the process context; `HwSend`, `HwHalt` the engine |
| `Ag71xxFillDesc` | `fill_dma_desc` | `CurLen` is the length computation, `FillDesc` one iteration |
| `Ag71xxRxNapi` | receive side | `Interrupt`, `OomTimer`, and the poll in eight steps, `PollTx` to `PollEnable`; `HwReceive`, `HwOverflow` the engine |
| `PacketFifo` | what a ring promises | a bounded queue, refined by `Ag71xxRxNapi` |
| `Ag71xxTxRestart` | `tx_timeout`, `check_dma_stuck`, `restart_work_func` | the fast reset is split at each register and counter write, and packets may be sent between any two steps; the poll and the PHY work run where the work sleeps |
| `Ag71xxLifecycle` | open, stop, `set_ringparam`, restart work, PHY, linkwatch | `pc` is the step of the holder of rtnl; `HwDisable`, `NapiWaited` and `HwEnableOk`/`HwEnableFails` are shared by all three holders; `mishaps` records which of four unlucky events have happened |
| `SataOxnas` | the core's lock, END interrupts, error handlers | `qc` is the state of every command, `eh` the step of every port's error handler; `Acquire`, `Release`, `HwIssue` are the driver's helpers, the actions its callbacks; `CleanupCore` resets the core, then `PortInit`, `LinkReset`, `PortInitEnd` are `post_reset_init` of one port after the other |
| `Nvram` | hash table, image, staging file, partition | one process per command, its `pc` a step of `nvram_open`, `nvram_commit`, `staging_to_nvram`; the work on the shared mapping is `Open` to `Rehash` and `Clear` to `Write`, and processes at it at once clash; a table is a chain of tuples for each value of the hash function, which is a constant; `PowerLoss` at any point |
| `NvramStore` | what the tool promises | a visible and a durable set of variables, refined by `Nvram` |
| `GpioButtons` | polled and interrupt driven buttons | `CheckState` is one button of a poll; `IrqRead`, `IrqEvent` the interrupt thread; `Take` to `Send` the work item |
| `BaReorder` | one receive session | `s` is the `BA_REC_ENTRY`, its list one of blocks (a frame and its `AmsduList`); `Check`, `Shift`, `Enqueue`, `AmsduSanity` are the steps of `ba_reorder`; `TearRefresh` to `AddLink` the MLME thread; `delivered` has the blocks passed up, in order |
| `*_proof` | theorems | see below |
| `MC*` | | the modules TLC runs; `MCAg71xxRings` and `MCAg71xxDriver` put two parts without common state into one instance, whose actions are those of both |

Operators commented "Mutant of X" are plausible wrong versions of X. They are
not part of any specification; they show that each property can fail.

Some variables never change: `solo` (`Nvram`), `board` (`GpioButtons`), `world`
(`BaReorder`), `side` (`MCAg71xxRings`) and `part` (`MCAg71xxDriver`) choose in
`Init` what kind of behaviour follows, so that one run covers several
situations. Variables under "history" serve the
properties only.

External parts (the DMA engines, linkwatch, the allocator, libata, the wireless
peer) are modelled from how the code uses them. The ag71xx engine is assumed to
stop at once when TXE or RXE is cleared, and a reset of the MAC to end a hang.
Nothing is assumed of the state machines `check_dma_stuck` reads. Abstracted
away: packet contents other than their identity, byte counters, speed and FIFO
settings, DMA mapping, the texts of variables and events beyond what tells them
apart.

## Runs

| Run | Result | Bounds |
|---|---|---|
| `tx` | passes | ring of 8, counters modulo 16, up to 2 descriptors, fixed link |
| `tx_flap` | **violates** `NoEarlyTx` | ring of 8, up to 3 descriptors, flapping link |
| `rings` | passes | rings of 8, counters modulo 16; transmit: one descriptor per packet, AR724x, flapping link; receive: another chip, budget 2, packets in the ring all differ |
| `rx_assert` | **violates** `NoAssert` | ring of 4, counters modulo 8, budget 2, one payload |
| `restart` | passes | ring of 8, counters modulo 16, AR724x, flapping link |
| `restart_race` | **violates** `StoppedBeforeClear` | as `restart` |
| `driver` | passes | two ring sizes, any allocation may fail; lengths 5 to 1540, split 512, 4 descriptors (the driver's own constants) |
| `sata` | passes | two ports, two tags each, port 1 hotplugged |
| `sata_spurious` | **violates** `SpuriousIgnored` | as `sata`, no hotplug |
| `nvram` | passes | three names in two hash chains, a short and a long value, 40 bytes; every command one at a time, or two processes with three commands |
| `buttons` | passes | a key and a switch, threshold 2; polled with 4 edges, by interrupt with 3, by interrupt with two workers and 1 |
| `ba` | passes | sequence numbers modulo 16 that wrap, window of 3; four scenarios, below |

What the runs show:

* `tx`, `rings` (transmit side): engine and driver agree about who owns which
  descriptor (`RingInv`); the engine never starts on an incomplete packet
  (`NoEarlyTx`); no packet is freed before it is sent (`HeldUntilSent`); the
  queue wakes and packets complete while the link stays up.
* `rings` (receive side): the ring is a FIFO (`ImplementsFifo`), the engine
  always has a buffer, no wakeup is lost, and packets are taken and the engine
  restarted once memory is available.
* `restart`: packets are sent at any time, also between the steps of the fast
  reset, which can leave ring and `TX_DESC` at odds. A restart that is not
  disturbed so makes the ring sound again, whatever an earlier one has left
  (`SoundRing`), and a hang comes to an end under traffic, disturbed or not
  (`HangRecovers`).
* `driver`: `hard_start_xmit` finds a ring, and `napi_disable` does not wait
  for ever with rtnl held, except after mishaps the properties name: an
  allocation failure that goes unnoticed, a restart work that outlives `stop`, a
  poll or PHY event in the gap between `hw_disable` and `hw_enable`. Rings are
  freed with the order they were allocated with. No segment of a packet is short
  enough to hang the engine, and none is missing a descriptor.
* `sata`: the lock counts the commands in hand, whichever way they end; no
  completion is lost; commands and error handlers come to an end even if the
  disks never answer. `WaitIsFutile` shows that the two-second wait the libata
  patch adds can only run out when the other port's error handler holds the
  core.
* `nvram`: with one command at a time the tool is a store (`IsStore`), power
  losses included: one during a commit may destroy the durable copy, or cut it,
  and the tool then goes on with whatever tuples it finds there, since it does
  not look at the CRC. With overlapping commands updates may be lost, and both
  the staging file and the partition may get a data area that is no image: a
  cleared one, or one two processes have written to. What holds is less: where
  the data area is an image its names are distinct and it fits (`ImagesSound`),
  also if it was made from a damaged one, and no empty staging file stays behind
  (`NoEmptyStaging`).
* `buttons`: debouncing, and that listeners know the state of a button when the
  inputs rest. Two workers may garble each other's events in the static buffer
  of `bh_event_add_var`, or broadcast them in another order; listeners take them
  for what they say, and `FinallyTold` excepts the buttons this has happened to.
* `ba`: held frames keep their order and their window, across the wrap; frames
  go up in order and once, none is leaked but where the session changes under
  `ba_reorder`, none is dropped without a reason or held for ever.

### Why the bounds are enough

A ring of 8 has both thresholds (stop at 8 - 4 or 8 - 2, wake below 6) strictly
inside it. The counters wrap after two rounds of the ring, so every relation
between them occurs across the wrap. A receive ring of 8 with a budget of 2
needs four polls to empty and can have all three stretches non-empty at once. The
driver does not look into packets, so the run gives each the number of its place:
if two could be exchanged, lost or repeated, these would show it.
`tx_flap` uses counters modulo 64, so that its counterexample owes nothing to a
narrow counter. Two ports are what the SATA hardware has; two tags let a port
hold the core more than once. Hotplug of port 1 alone is the harder case, as
the driver treats port 0 specially; the proofs cover any set of ports. 40 bytes
hold some but not all of the variables with long values. What a process finds
in a data area that is no image is nothing, or two tuples of one name, the case
`nvram_set` has to deal with. Four edges let an input bounce and settle twice.
The scenarios of `ba` are: single frames with repetitions and an EAP frame;
repetitions and a pool of one block; two A-MSDUs whose last part may be lost; and
an A-MSDU around a change of session. Each sends more frames than the window
holds or, where sessions change, as many.

Deadlock is checked except where the system may stop: rtnl may be lost
(`RtnlLost` says when), a removed button driver does nothing more, and the peer
of `ba` has a bounded number of frames.

### What the violations show

1. `tx_flap`: `hw_start` wakes the queue on every link change
   (`ag71xx_main.c:547`). On chips that split packets the ring may be nearly
   full; `fill_dma_desc` then fails half way, and the engine reaches the
   descriptors it left behind, which line 779 sets out to prevent.
2. `rx_assert`: refills that keep failing leave the whole ring without buffers.
   The next poll runs into `ag71xx_assert(0)` (line 1125), a `BUG()`, although
   the poll has an out-of-memory path.
3. `restart_race`: the restart work calls the fast reset without `ag->lock`
   after `hw_enable` has started the queue (line 1003). A packet sent during the
   delay of `dma_reset` sets TXE again (line 846), and `TX_DESC` is cleared while
   the engine runs: "clearing the descriptors too early causes random memory
   corruption" (line 376). Later steps then reset the counters under the packet,
   which is how a disturbed restart spoils the ring.
4. `sata_spurious`: `post_reset_init` turns a port's interrupt on
   (`sata_oxnas.c:1941`) before it resets the link (line 1946), and clears the
   error register but not the interrupt at its end (line 1952). If the port had a
   command in hand when the other one's error handler reset the core, `port_irq`
   takes the interrupt for the end of that command (line 2157), by the status of
   a disk that never finished it. The comment at line 2142 says that spurious
   interrupts from cleaning up are ignored; they are only if there is no command.

These are results about the models; none was reproduced on hardware.

### Premises that matter

Some properties carry a premise because the code breaks them without it.
Dropping the premise, and adding a scenario where none of the run's has the
case, makes TLC report it.

* `SoundRing` excepts a ring during whose last restart a packet was sent, until
  the next restart; `restart_race` shows the race behind it. `HangRecovers` has
  no such premise.
* `SafeConfig` of `Ag71xxTxRing` excludes rings smaller than the stop threshold,
  which ethtool can set; the unsigned difference at `ag71xx_main.c:838` then
  wraps.
* `Delivered` is not claimed for the AR724x: its fast reset clears `RX_STATUS`
  with packets in the ring, and they wait for the next packet. The other
  receive properties of `rings` hold with `RxAr724x = TRUE` as well.
* `OldDropped` and `DuplicateOrLate` are about frames that are not parts of an
  A-MSDU: a time-out between its parts sets `LastIndSeq` back
  (`ba_action.c:1462`), and the last part of an A-MSDU that opens a session is
  dropped as a duplicate (line 1742). `OldDropped` is about one session: frames
  the tasklet handles around a change of the session go up out of order.
* `OnceUp` needs a pool that covers the window: a repeated frame that finds no
  block goes up together with the copy that is held (line 1670). Repetitions
  are excluded where there are A-MSDUs: one that was never completed sets
  `LastIndSeq` back, and what was passed up since is taken for new. They are
  excluded across sessions too, since a new one starts from its first frame.
* `NoneLeaks` excepts the frame `ba_reorder` holds while the session changes:
  for a session that was torn down after the lookup it returns without passing
  the frame up or releasing it (line 1734). Nothing in the tree states what
  should become of the frame, so this is a premise and not a finding.
* `FinallyTold` excepts buttons with a garbled or overtaken event, as above;
  again no comment or document promises that events are not mixed.
* `WholeIfSolo` and `IsStore` are claimed for commands that do not overlap.

### Fairness

* ag71xx: xmit runs to its end, and an enabled engine sends (weak fairness).
  `TxPackets` is strongly fair: the poll is a pending softirq that runs between
  packets, though each packet in progress disables it. A raised interrupt is
  taken, an armed timer expires, a scheduled poll runs. In `Ag71xxTxRestart` the
  engine has no fairness at all, since it may hang; the watchdog fires on a
  queue that stays stopped, and pending work runs. In `Ag71xxLifecycle` the
  holder of rtnl goes on and a scheduled poll runs.
* SATA: `queuecommand`, the interrupt handler and the error handler threads get
  on, and libata's timers run out. Steps that need `eh_mutex` or a state the
  other port takes away again and again are strongly fair: the mutex is handed
  to its waiters. The disk may never answer.
* Buttons: the delayed work, the probe, the interrupt threads and the workers
  are scheduled. Nobody has to press a button or remove the driver.
* Block-ack: the tasklet runs, the clock and the periodic monitor go on. The
  peer sends one BAR per window start: every BAR restarts the clock of the
  time-out, so without end they could postpone the flush for ever.

Nothing is assumed of traffic, links or memory; the receive liveness properties
take "memory is available from some time on" and "the assertion is not hit" as
premises.

## Proofs

All are checked by TLAPS for every value of the constants that satisfies the
named assumptions (`RingAssumption`, `ChipAssumption`, `RxAssumption`,
`SplitAssumption`, `OrdersAssumption`, `PortsAssumption`,
`TagsAssumption`, `ButtonsAssumption`, `BoardsAssumption`, `ThresholdAssumption`,
`TextAssumption`, `TableAssumption`, `SpaceAssumption`, `FragmentsAssumption`,
`CommandsAssumption`,
`FlashAssumption`, `WindowAssumption`).

* `Ag71xxRings_proof`, counters: arithmetic of wrapped counters. The facts the
  rest needs: slots of a run no longer than the ring are distinct, wrapping a
  counter does not change its slot, and runs join and split.
  Transmit ring: `TypeCorrect` for every chip. `RingCorrect` shows that
  `RingInv` is inductive under `SafeConfig` (the link is fixed or the chip is an
  AR724x, and the ring is large enough for its thresholds); `tx_flap` is why the
  premise is needed. `NoEarlyTx`, `FramesArePackets`, `HeldUntilSent`,
  `RoomForPacket` and `StatusCountsDone` follow. None is inductive alone:
  each needs to know exactly which slots the engine owns (`Ownership`), that the
  counters are in order (`Bounds`) and how packets are cut (`Packets`).
  Restart work: `RestartInv` is inductive under `SafeConfig`, with packets, polls
  and PHY work between its steps. Of a disturbed restart it keeps the types and
  what `rings_cleanup` and `hw_enable` need; of an undisturbed one it says that
  only `hw_enable`'s empty ring exists while the work goes through the fast reset
  (`EmptyRing`). The theorems of the ring carry over to the steps both share, and
  `SoundRing` follows.
  Receive ring: `RxCorrect` shows `RxInv` inductive: the ring is three
  consecutive stretches (`Stretches`), the status register counts the middle one,
  and some wakeup is on its way. `DmaTarget` and `NoLostWakeup` follow, and
  `RxImplementsFifo` shows the refinement of `PacketFifo` step by step. Unlike
  the run, the theorems include the AR724x.
* `Ag71xxDriver_proof`, segmentation: `FillInv` is inductive; `Room` is the
  strengthening that bounds the descriptors. `SafeSegments`, `EnoughDescs` and
  `Tiling` follow. Lifecycle: `LifecycleInv` is inductive: it says, for each step
  of the holder of rtnl, which of rings, NAPI and queue are there.
  `RingForTraffic`, `RtnlLost`, `FreedAsAllocated`, `NoRingLeak`,
  `ClosedIsQuiet` and `OpenIsEnabled` follow.
* `SataOxnas_proof`: `SataInv` is inductive for any number of ports and tags.
  `LockCountsCommands` is inductive almost by itself, but the interrupts are
  not: a step of one port turns off and drops those of another, so
  `EndIrqEnabled` and `EndNotLost` need `OnePortAtOnce` and `CommandsInv`, which
  says what commands a port may have at each step of its error handler. `WaitIsFutile` is an action property and needs `MutexInv` in
  addition: the sleeper holds `eh_mutex`, and `LockCountsCommands` with
  `CommandsInv` shows the core locked by the other port's internal command.
* `GpioButtons_proof`, for any buttons, boards and workers. `Debounced` is about
  a step; it needs `StreakInv`, that `check_state`'s count and the run of
  readings that differ from the state are the same length.
* `Nvram_proof`, for any hash function, names, values, number of processes and
  size of the partition, and for any fragments a process may find in a data area
  that is no image. `ImagesSound` needs `SoundInv`, which says the same of
  the tables and buffers processes have in hand. Its core is three loops, each
  shown by induction on the number of passes: `nvram_rehash` keeps a name once
  and in its chain, `WriteChain` and `WriteTuples` write names they have not
  written yet and stop before the end of the partition. `NoEmptyStaging` needs
  `FileInv`: an empty staging file has a process that is going to fill it, which
  survives another process removing and making the file anew. `WholeIfSolo`
  needs `SoloInv`, what the only active process has read and written, and that it
  meets no clash.
* `BaReorderList_proof` (sequence numbers and what takes blocks off the list),
  `BaReorderHandlers_proof` (what puts them on it, and the handlers) and
  `BaReorder_proof` (the theorems), for any even modulus, any window below half
  of it, any pool and any traffic, A-MSDUs, repetitions and session changes
  included. `Window`
  alone is not inductive: `amsdu_sanity` goes back to the number of an
  unfinished A-MSDU, so `WindowInv` says that the list is sorted from that
  number too. Each operation of the code has a lemma saying what it does to a
  sorted list; most of them advance `LastIndSeq` and pass a prefix of the list
  up (`Follows`), so these compose. `NoDangling` needs `CurInv`: while `CurMpdu`
  is set its block is held, or what is held is so close to it that no later part
  is accepted as one within the window. `NoneLeaks` needs `LeakInv`, which ties
  the state of the session to the step of the MLME thread, and that each
  operation keeps every frame in `list`, `up` or `drop`.

Loops of the code are recursive functions over a bounded set of numbers, or the
least number with a property. The prover has no induction rule it can apply to
them; the modules derive what they need from the least element of a set of
naturals (`Least`, `Induct`). The modules with proofs define the two sequence
operators they need (`InsertAt`, `RemoveAt`) themselves: every definition of an
extended module is part of every obligation, and `SequencesExt` doubles the time
the proofs take.

Proved properties that no run checks (`FramesArePackets`, `RoomForPacket`,
`StatusCountsDone`, `StatusCountsBacklog`, `Tiling`, `NoRingLeak`,
`ClosedIsQuiet`, `OpenIsEnabled`, `EndIrqEnabled`, the inductive invariants and
the types) are corollaries or conjuncts of invariants the runs rest on.

Only model-checked: all liveness (`PacketsComplete`, `QueueWakes`, `Delivered`,
`RxRestarts`, `HangRecovers`, `RtnlReleased`, `CommandsResolved`, `EhEnds`,
`FinallyTold`, `HeldGoesUp`), which the prover does not reach. Further
`IsStore`, the refinement of `NvramStore`, and `OldDropped`, `OnceUp` and
`DuplicateOrLate` of `BaReorder`. These relate sequence numbers to the numbers
the peer counts with, over the whole history of a session; `WindowInv` relates
sequence numbers only to each other.

## Not modelled

* ag71xx: MDIO bus and AR7240 switch (register accesses under a mutex), debugfs
  and the ar8216 header (counters and a header rewrite). Opening and stopping
  the receive ring descriptor by descriptor. `probe` and `remove`.
* Oxnas SATA: register and PHY sequences, microcode loading, soft reset, RAID,
  and direct access to the core, which nothing in the repository asks for.
* `nvram`: the CRC, which the tool does not check, and results of `write()`,
  which it ignores; a power loss leaves the same torn image.
* Buttons: unloading the module with events queued.
* Block-ack: the originator's side, the ADDBA exchange, the table of sessions
  (a BAR without a session works on entry 0) and `RECBATimer`, which is never
  armed. Data races inside `ba_reorder` finer than lookup and use.
* `mtd`, sysupgrade, the MediaTek nvram store: sequential programs and scripts,
  whose difficulty is in flash layouts and image formats.
* swconfig and the switch drivers: attribute and register tables; what they mean
  is defined by chips outside the tree.
* ead: its state is the result of a vendored cryptographic library.
* shortcut-fe: third-party code whose concurrency is that of the kernel's
  netfilter and RCU, not in the tree.
* The rest of mt_wifi: half a million vendored lines.
* The build system, feeds, kernel patches and LuCI have no run-time state.
