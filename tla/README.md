# m5stack-core, verified in TLA+

TLA+ models of the parts of `m5stack-core` where tasks, cores, callers and
processes interleave: the SPI2 bus the display and the SD card share, the serial
console from boot to panic to boot, the WiFi station, the temperature loop on its
1-Wire bus, the tasks on the shared I2C bus and the power chips behind it, and the
hardware-in-the-loop tool: how it claims a board, resets it, listens to it, and
decides what image it runs. TLC checks small instances of them, and TLAPS proves
the properties that matter most for every number of users, configs, callers,
sensors, bytes, zones and processes.

Paths are relative to the repository; `spi2.rs` is `src/board/spi2.rs`,
`console.rs` is `src/io/console.rs`, `wifi.rs` is `src/driver/radio/wifi.rs`,
`onewire.rs`, `ds18b20.rs`, `aw9523b.rs` and `axp2101.rs` are in `src/driver`,
`ow_temp.rs`, `pps.rs` and `touch_buttons.rs` in `src/io`; `listen.rs`,
`serial.rs`, `board.rs`, `flash.rs`, `identity.rs`, `lock.rs`, `config.rs` and
`main.rs` in `m5stack-core-hil/src`.

    tlc -workers 2 -config spi2_pair.cfg Spi2Bus    # a run
    tlapm Spi2BusProofs.tla                         # the proofs

## 1. Inventory

| Component | State it keeps | Operations | Interacts through |
|---|---|---|---|
| SPI2 arbiter (`spi2.rs`, GPIO35 in `cores3.rs`) | permit and waiter queue, mutex, peripheral clock, `card_configured`, chip-selects, `DC_LOW`, the pad | display transaction, `acquire`/guard/drop, `set_config`, `apply_config`, `into_inner`, `finish` | two tasks on one or two cores, the app's timeouts |
| Console (`console.rs`) | byte ring, `DRAIN_SIGNAL`, `SPACE_SIGNAL`, drain-task locals, filter, panic breadcrumb | `install`, `enabled`, `push_line`, `send_line`, `drain_task`, `on_panic`, `take_panic_breadcrumb` | every task and core logs; one drain; RTC memory across resets |
| WiFi station (`wifi.rs`) | `CMD`, `RESP`, `CTRL_LOCK`, `desired_up`, the association | `scan`, `connect`, `disconnect`, the actor | callers, the actor, the radio |
| PPS loop (`io/pps.rs`, `driver/pps.rs`) | error count, the module's registers | switch off, probe, write setpoint, read, give up | callbacks of the app, the I2C bus |
| Buttons (`touch_buttons.rs`, `io/buttons.rs`) | press, tap count, times | poll, event | the app's loop, the I2C bus |
| One-wire (`onewire.rs`, `ds18b20.rs`, `ow_temp.rs`) | search state, sensors found | reset, search, convert, read | RMT, a callback |
| RPM (`io/rpm.rs`) | count of silent intervals | poll | a callback |
| I2C chips (`aw9523b.rs`, `axp2101.rs`, `ip5306.rs`, `shared_i2c.rs`) | registers | read-modify-write, each access under a bus mutex | several drivers on one bus |
| Bring-up (`board/*`) | reset lines, pads, the panel | `power_display_reset`, `finish_sd`, `into_display_only`, panel init | two tasks |
| LEDs, BLE, watchdog, memory | none at run time | constructors, one call in a loop | none |
| HIL listener (`listen.rs`, `serial.rs`) | transcript, cursor, capture floor; the drain thread's buffer, `err`, `stop` | `wait_for`, `wait_for_line`, `quiesce`, `discard_backlog`, `begin_capture`, `across_reset` | a thread, the kernel's tty, the board |
| HIL run (`board.rs`, `flash.rs`, `identity.rs`, `main.rs`) | what is known of the board's image, the number of the capture | attach, reset, read identity, ensure image, await, capture | the listener, `espflash`, `probe-rs`, the board |
| HIL lock (`lock.rs`) | lockfile | acquire, drop | processes on one host |
| HIL configuration (`config.rs`, `main.rs`) | none | find and read `hil.toml`, resolve an address | files of the host |
| Build support (`m5stack-core-build`), boot identity (`lib.rs`) | none | mark the commit, print the identity | cargo, the HIL run |

What is hard about each, and what makes it correct:

* **SPI2.** Two users of opposite habits on a bus that is also, through GPIO35,
  the display's DC line. Futures may be dropped wherever they wait, and on both
  boards the statics are shared by two cores. Correct means: one chip selected,
  by the holder of the turn; the pad is MISO for the card and DC for the panel;
  the card never runs at the panel's clock; arrival order; nobody waits for ever.
* **Console.** Producers that must not block, a reader that must not be fooled, and
  a panic that must get out past a drain that died anywhere. Correct means: only
  the oldest bytes are lost, every loss is announced before the drain goes idle, no
  wake-up is lost, the panic line gets out whole, and the next boot is told of the
  panic, once.
* **WiFi.** A request-reply protocol over two one-place signals, and an actor
  that drops its own association attempt on every command. Correct means: a reply
  reaches the caller it answers, every request is answered, the link comes back.
* **PPS.** A setpoint is three transactions under one timeout. Correct means: the
  output never comes on under limits that are not its own, and the error budget
  stops the loop on a dead bus.
* **Touch.** Correct means: each tap is reported once, in order, for its zone.
* **One-wire.** Correct means: a search finds each sensor once, and a report is of
  its own conversion.
* **I2C chips and bring-up.** Two tasks of which one writes registers the other
  modifies. Correct means: a panel that is up was reset and then initialised,
  and nothing drives a pin nobody asked for.
* **HIL listener.** Two threads, a device that leaves, and a transcript no wait may
  consume. Correct means: no byte is lost while the port is held, whether or not
  anybody waits; a wait matches the first pattern not looked at before, and ends.
* **HIL run.** Correct means: one run per board, a killed run does not wedge the
  rig, a run that succeeds has told the truth about the image, flash is written for
  a reason, and every run ends.

`PROJECT.json` lists the hazards line by line.

## 2. Modules

| Module | Models |
|---|---|
| `BusTurns` | abstract: a line of users; the head may select its chip; the line keeps moving |
| `Spi2Bus` | the arbiter, every path to the bus, cancellation, the pad. Implements `BusTurns` |
| `OverwriteQueue` | abstract: a bounded queue that gives up its oldest bytes and counts them |
| `Ring` | `struct Ring` as operators on a record |
| `LogFilter` | what `init` makes of a filter spec, which records pass, which a spec asks for |
| `Console` | producers, dumpers, drain, signals |
| `ConsoleBoot` | `Console` from `install` to `on_panic` on either core, the breadcrumb, resets. Implements `OverwriteQueue` |
| `WifiControl` | callers, actor, signals, the association |
| `RomSearch` | the bit-level ROM search, the scan that repeats it, the sensors that answer |
| `Ds18b20` | `ow_loop` over the driver: scan, convert, poll, read, report |
| `I2cBus` | the mutex of the bus, for users that hold it over one transaction |
| `Pps`, `TouchButtons` | the power supply loop; the taps and long presses of the touch strip |
| `I2cTasks` | both on one `I2cBus` |
| `Expander` | the AW9523B's registers and the AXP2101's under `power_display_reset` and `enable_bus_5v` |
| `Bringup` | `Expander` with the display's bring-up on both boards |
| `Ears` | abstract: bytes arrive at the end; a wait looks past the first match |
| `Listener` | waits, quiesce, resets, the drain thread, the port. Implements `Ears` |
| `BoardLock` | the lockfile, system call by system call, with processes that are killed |
| `FirmwareIdentity` | what an ELF, an image and a printed line say of a build, and how they are compared |
| `HilConfig` | the board a command line means: file, entry, address, flags |
| `HilRun` | a run over the three modules before and a board that prints |
| `Spi2BusProofs`, `WifiProofs`, `Ds18b20Proofs`, `ListenerProofs`, `I2cProofs`, `BringupProofs`, `HilProofs`, `ConsoleProofs` | theorems |
| `MCConsole`, `MCI2cTasks`, `MCHil` | values for the runs |

`Console` and `ConsoleBoot`, `Pps` and `TouchButtons`, `Expander` and `Bringup`,
`BoardLock` and `HilRun` share variables by `EXTENDS`: the larger module adds
actors and says what each leaves alone.

### State and code

`Spi2Bus`. One program counter per future, `pc[u]`; a step is the code between
two awaits, or between two writes the other core can see. `permit` and `queue`
are `SPI2_FAIR`, an embassy `FairSemaphore` with one permit; `owner` is the bus
mutex; `clock` and `cardConfigured` are the two halves of `Spi2Bus`; `cs` the
chip-select pins; `dcLow` and `pad` are `DC_LOW` and GPIO35; `config` what
each device or `PreparedCard` carries. `live` is a history variable, the config
the card chose last, stored or on a guard. `held` is `GOT - REL` of each pair of
permit counters. Users are in four sets, by the path they take:

* `Displays`: `FairSpiDevice::new_display` (`Enter`, `AcquireNow`/`Enqueue`/
  `TurnedAway`, `Grant`, `TakeTurn`, `Lock`, `StartTransfer`, `EndTransfer`,
  `Unlock`, `Release`);
* `Prepared`: `PreparedCard` (`OpenGuard`, `StartCommand`, `ApplyLive`,
  `DropGuard`, and `StoreConfig`, `LockForInvalidate`, `Invalidate` for
  `set_config`);
* `Inner`: `into_inner`, a card behind `FairSpiDevice`, whose driver calls
  `gpio35_disable_output` as its pre-op hook;
* `Raw`: `finish`, a card device with no permit.

`CancelQueued` and `CancelLock` drop the future of a user in `Quitters` where it
waits, `set_config` included; `EndTransfer` and `DropGuard` also stand for a drop
in the middle of a transfer or of a command. The semaphore, the mutex and
`SpiDeviceWithConfig` are library code, modelled by what the repository relies on:
permits in arrival order, a mutex that is *not* FIFO and that a first poll may
take, chip-select released on every way out of a transaction.

`Console` and `ConsoleBoot`. `ring` is `RING`; each critical section and each
signal is one step. Bytes are numbered in the order they are written, so order,
loss and duplication are visible without their contents. `SPACE_SIGNAL` is a latch
and the one waker it stores (`waiter`); a task whose waker was replaced is woken, as
embassy does. The 250 ms limit on markers is a choice: the marker may or may not be
due while bytes flow, and is due when the ring is empty. `stage` says where each
core stands in `on_panic`; a core that panics stops its tasks, the other goes on,
may panic too, and may be the one whose drain lives. `crumb` is the RTC memory, a
few words stored one by one: `Reset` may cut the store anywhere, and only a power
cycle clears it. `owed`, `due`, `before`, `torn` are histories. A behaviour has a
`plan`: who logs how much, how many panics and boots there are, and the filter.

`WifiControl`. `cmd` and `resp` are `CMD` and `RESP`; a reply is the request it
answers. `apc` names the actor's await. `link` belongs to the radio: an
association succeeds, fails, or is lost whenever it likes, and one whose future
was dropped still ends either way. `panicked` is the halt after `unreachable!`.

`RomSearch` and `Ds18b20`. A ROM code is a function from bit numbers to bits;
the sensors that can exist are those whose CRC is right, with a CRC of any width
and polynomial. One bit of the search is a step: two reads, each the AND of the
sensors still `active`, and the direction written. Noise is a `Glitch`, a sample
read inverted; sensors come and go with `Plug` and `Unplug`, whenever they like.
`scan` is where `rescan` stands, `phase` where `ow_loop` stands; time is counted
in the 10 ms polls of `wait_conversion_complete`. `busy`, `dead` and `sampled` say
which sensors convert, never finish, and hold this cycle's temperature; `quiet`
and `calm` are histories: nothing disturbed the last scan, or the last cycle.

`I2cTasks`. `holder` is the mutex of `shared_i2c.rs`. `pps` is where `pps_loop`
stands; `module` the registers of the power supply, which outlive the program;
`health` how it answers: well, not at all, or by holding the bus until the timeout
drops the cycle. A read of the touch controller is one step, unless it hangs
(`ReadHangs`, `ReadFails`): then the loop's timeout drops a cycle that waits for the
lock. Limits and readings are model values. In `TouchButtons` time is
what the machine asks of it: `oldPress` and `oldRelease` say that the long-press and
the multi-tap threshold have passed. `untold` is a history, the taps no event has
told.

`Expander` and `Bringup`. `regs` holds the bits that are 1; each routine is a
sequence of operations on one register, and a read-modify-write is two accesses
with the bus free in between. `lost` is a history: for each register, the bits that
such a write put back to what it had read, until they are set anew. `AccessFails`
may stop any routine at any access, and a write it stops may have landed. `panel` is the state of the panel's controller, `display` that
of the task that brings it up, `hurried` that it did not wait.

`Listener`. `buffer`, `cursor` and `floor` are the fields of `Listener`; `buf`,
`err` and `stop` those of `DrainedSource`, whose thread stands at `reader` with
`chunk` in its hands; `tty` is the kernel's. `pc` says where the caller stands:
between `locked` and `asleep` it holds the mutex of `buf`, so the thread's `Store`
waits, but `PortError` does not, because `err` has a mutex of its own. A pattern is
matched at its last byte, `"pattern"`; a byte that is not UTF-8 is `"garbled"`, and
`LossyLen` counts it as the three bytes of U+FFFD. Deadlines are choices (`Late`,
`TimeUp`). `Reopen` waits for the old thread to be gone: it looks at `stop` every
100 ms, a reset by `espflash` takes longer. `sent` is a history: what the board sent
since the port was opened, after what had been heard by then.

`HilRun`. `flash`, `todo`, `owed`, `inReset` are the board: its image, what this boot
has still to print, a drop marker due, and EN held low by the tty's lines
(`SetControlLines` models one ioctl, the kernel raises both lines at every open).
`wire` and `heard` are the listener's two sides as `Ears` abstracts them: what was
printed and not read, and what was read and no wait has looked past, line by line.
A line is what it says, whether the console's ring cut its end off (`cut`), and
whether a reset has come since (`stale`). `pc` walks through `run`: quiesce, reset
by the route of the board, identity (`read_identity`), judge
(`read_identity_past_holes`, the checks of `run` and `ensure_image`), write, verify,
await, capture. `match` is a history: what was wrong with the lines matched.
`FirmwareIdentity` gives `says` its content: the fields the boot line prints, parsed
back; a hash in hex digits, shortened; the descriptor found by scanning the ELF for
its magic word, with bytes that look like one by chance.

## 3. Runs

| Run | Instance | Shows |
|---|---|---|
| `spi2_pair` | a display and a prepared card, two waiter slots, three card configs of which one is rejected, both may give up anywhere; 5,000 states | pad and clock are right at every turn; nobody is turned away or starved; it is a line of turns |
| `spi2_crowd` | one user of each kind, one waiter slot, the card's chip-select frozen; 208,000 states | chip exclusion, arrival order and the counters, with the queue overflowing |
| `console` | ring of 4, lines of 1 and 3, reads of 2, a logger on each core, two dumpers, up to three lines, two panics, three boots; 259 filters; 98,000 states | the ring is the bounded queue, past every panic; gaps are marked; no lost wake-up; panics get out and are told once; no record a filter asks for is held back |
| `wifi` | two callers that may both give up, four requests; 54,000 states | replies are owned, always come, and the station rejoins |
| `wifi_quit` | two callers, one gives up, two requests | **violated**: a stale reply reaches the next caller's `unreachable!` |
| `onewire` | codes of two data and two CRC bits, up to three sensors and one dead, room for two, one glitch, one hotplug; 512,000 states | no phantom, no duplicate, two sensors are always found, reports are fresh and complete, a time-out is a sensor's fault |
| `onewire_all` | the same codes, three sensors, room for four, no noise | **violated**: a scan misses one of three sensors |
| `i2c_tasks` | two setpoints, two probes, a budget of one error, two readings, two zones, two taps in a row, either chip hanging; 170,000 states | the output comes on under its own limits; a dead module ends the task; each tap is told once |
| `bringup` | both boards, four applications, one retry, four voltages; 2,606,000 states | a display that is up has a panel reset and then initialised; nothing is driven that nobody asked for; two tasks keep each other's bits, but for those that changed between a read and its write |
| `listener` | four bytes, patterns and newlines, in reads of any size; 263,000 states | no byte lost, no wake-up lost, waits match in order and end; it is the ears |
| `listener_garbled` | three bytes, which may be broken | **violated**: the cursor runs past what was heard |
| `hil` | two processes, three commands each that mean the board and one each that do not, three reset routes, three images on the board and five more on the shelf, two captures, one line of the application at a time; 376,000 states | success is the truth; images are told apart; writes have a reason; matches are of this boot; one owner; runs end |

Bounds and why they are enough:

* Users: one per kind. A kind has one instance in the code (one display, one
  `PreparedCard`), and two that contend need not be of a kind. Arbitrary sets are
  what the theorems are for.
* `SPI2_WAITERS` is 4 in the code. Two users never need more than two slots
  (two, not one: a user can queue again while the slot it was granted from is
  still the other's); with one slot and four users the queue overflows.
* `RING_SIZE` 4 with lines of 3: every line but the first wraps or overwrites.
  `MaxLines` 3 lets both dumpers wait at once on a ring a logger filled. `MCPlans`
  has one plan per question: overfilling without a panic; a panic with lines on
  their way, and the boot after it; both cores, or two boots, panicking; a boot cut
  before it takes the crumb; a quiet boot for each of the filters of up to three
  directives, with prefixes of each other and a word that is no level.
* `MaxRequests` 4 lets a stale reply and a stale command exist at once.
* `RomBits` 4 with four possible sensors has forks under forks, which is what the
  search forgets; three sensors overfill `MaxSensors` 2. A conversion takes 1
  interval, the limit is 2 and a poll may be late by 2: the code's 75 and 80
  intervals leave a lateness of 6, and only `ConvTime + MaxLate <= TimeLimit + 1`
  matters.
* `ErrorBudget` 1 and `Readings` 2 have a first, a middle and a last of each. One
  setpoint sets everything, the other leaves a field out, so a cycle begins at
  different fields over what the other left. Two zones and two taps in a row give
  every order of counting, sliding, pending and cancelling.
* `FallbackTries` 1: a first and a last attempt of `init`. Voltages 3071 and 3072
  differ in both bytes, 3301 is just over the guard's 3300 mV, 0 is no battery.
* `MaxBytes` 4 is two complete lines, or a pattern before, in and behind a read, a
  boundary and a reset; three bytes suffice for a broken one between two others.
* `Tries` 2 (the code's are 3): a capture that may be repeated and one that may not.
  `MaxLines` 1 lets a board that never falls silent talk through every quiesce. The
  images are chosen for the comparison: one hash of zeros, one patched, one with a
  dirty mark, one without a commit, one without the identity feature, one with
  a prefix, one without a descriptor, one that never boots.

`CHECK_DEADLOCK FALSE` stands where the bound on lines, requests or bytes, the panic,
the end of a bring-up or the return of `ow_loop` really stops the system; the SPI2,
I2C and HIL runs check deadlock.

### Fairness

* `Spi2Bus`: weak fairness for a turn that has begun: a woken task is polled, a
  DMA transfer ends, a driver drops its guard. Strong fairness for the mutex: it
  is not FIFO, but it wakes its waiter at every unlock, and a task polled again
  and again while the mutex is free gets it. Nothing makes a user ask, give up or
  change a config.
* `ConsoleBoot`: weak fairness for bring-up and drain together, one task after the
  other on the first core, and for each producer that has begun a line. The sink
  takes what it is given; if it stalls, so does every dump. Nothing promises a
  line, a panic, its end or a reset, so `Drained` and `DumpsFinish` excuse a panic.
* `WifiControl`: weak fairness for the actor and the callers; strong for taking a
  command, because `CMD` is polled in every `select`, and for an association to
  succeed, because without an access point there is nothing to promise.
* `Ds18b20`: weak fairness for the loop, and for the end of the conversion of
  each sensor that is not dead (the datasheet's 750 ms). The environment's glitches
  and hotplugs have none.
* `I2cTasks`: weak fairness for the loop and for time. Strong for a poll: the mutex
  keeps no order, but the loop lets go of it for most of its 500 ms; and for a poll
  that finds no finger, or one. Nothing makes the finger touch or leave, or the
  module be well. `TapTold` excuses a module, or a touch controller, that hangs for
  ever: it holds the bus. `DeadModuleStops` excuses a touch controller that goes on
  hanging: a cycle that is dropped at the lock counts as no error.
* `Listener`: weak fairness for the caller, once it is in a method (its budget runs
  out), and for the drain thread (its reads return); strong for `Store`, since the
  mutex is free during every sleep of the caller and a fair scheduler lets the
  thread have it. Nothing makes anybody call, or a dead port report an error:
  the kernel may read it as silence for ever.
* `HilRun`: weak fairness for the run (every wait has a budget, also quiesce on a
  board that talks) and for what a boot prints. None for a start, a kill, or
  `QuiesceHears`. Until its budget is up a wait goes on; it is longer than a boot, so
  `Expires` needs a board that has said what it had to say.
* `Bringup` states no liveness: `power_display_reset` ends because its loop is
  bounded.

## 4. Proofs

Each theorem is for every value of the constants the named assumptions allow. An
invariant that a run checks is seldom inductive; what each proof adds is the point.

`Spi2BusProofs`, for any sets of users, configs and any queue size, from
`BusAssumption` and `UsersAssumption`:

* `TypeCorrect`: types. `TypeInv` adds to `TypeOK` what it needs to be inductive.
* `TurnSafety`: the inductive invariant. `OneSelected` alone is not inductive: a
  step that grants the mutex needs to know that only the turn's holder can be at
  the mutex. The invariant ties each of `permit`, `queue`, `owner`, `cs` to the
  places in the code they go with: the holder stands past the grant, the owner
  between lock and unlock (`TurnInv`), and the queue holds the users that wait for
  the permit, no others, and each of them once (`QueueInv`).
* `ChipExclusion`, `CardTerms`, `PadSafety`, `ArrivalOrder`, `CountersSound`
  follow from it. `CardTerms` asks that a `set_config` that can be dropped waits
  for displays only, as in the firmware: any other holder of the mutex could leave
  the stored config and the flag apart. `PadSafety` is for at most one display and
  prepared cards: a device on `into_inner` asserts the pad before it has the turn.
  `CountersSound` is for an `acquire` that is not dropped: a dropped one is counted
  as granted and never as released.
* `ImplementsTurns`: without raw devices, each initial state and
  each step of `Spi2Bus` is one of `BusTurns`, or a stutter. The line is the
  permit's holder followed by the queue.

`WifiProofs`, for any callers and any number of requests: `ReplyInvariant`
(each latched request belongs to the lock's holder and stands in one place, and
a quiet lock means quiet signals), `WifiTypes`, `RepliesOwned`.

`ConsoleProofs`, for any ring, tasks, lines, filters, boots and panics. A line is
written and a filter is read by folds, so it begins with induction over Nat and
with what a fold is: every natural number is in a set that has 0 and, with each,
the next; and the fold over the first n elements is one more step of its body.

* `ImplementsQueue`, of `KeepsNewest`. The bytes written are numbered. The ring holds
  consecutive ones (`BytesInv`): the slots from its tail on, around the end of the
  buffer, bear the numbers that follow what was lost and what was taken. A byte put
  into a full ring replaces the oldest one and is counted; a read takes the oldest
  up to the end of the buffer. Each step of `ConsoleBoot` so puts, takes, leaves or,
  at a reset, drops the bytes of the queue.
* `GapsAreMarked`, of `GapsMarked`. `GapInv`: the newest byte taken has come through
  with all before it, or the missing ones are announced, or are counted in the ring
  where the drain must still find the count before it can go idle.
* `PanicsAreTold`, of `PanicTold`. `OwedInv` follows the line through the places it
  can be in: not pushed yet, in the ring, in the panicking core's own slice, or in
  the hands of a drain that lives. A line overwritten is owed no more.
* `AskedForPasses`, of `FilterLetsThrough`: the gate is above every level asked for,
  and the longest matching prefix, the first of that length, keeps the level it set
  through the rest of the fold. Two matching prefixes of one length are one prefix,
  which is why the order of directives of equal length does not matter.
* `CrumbsTrue`. A boot is told the truth because until it takes the crumb the crumb
  tells of the run before (`CrumbInv`), afterwards of nothing, and past a store of
  the last panic; and because a store that another core's could tear needs both
  cores stopped, or the reset in the middle, which is what `torn` records.

`Ds18b20Proofs`, for codes of any length, any CRC that tells one inverted bit
(`CrcAssumption`), any number of sensors and any timing that leaves the margin:

* `FoundAreThere`, of `NoPhantom`. While no sample has been inverted the sensors
  still active agree with the address so far, and there is one; after the one
  glitch, either that still holds, or the address differs from a sensor's in one
  bit and fails the CRC, or the search follows no sensor and the bus reads 1, 1.
* `FoundOnce`, of `NoDuplicate`. Between passes, every address found before the
  last one agrees with it down to some fork above the last discrepancy, or went
  the 0 way at it; so the next pass, which goes the 1 way there, is a new path.
* `TwoAreFound`, of `TwoSensorsFound`. With at most two sensors a fork parts the one
  that goes on from the one that leaves, so there is no second fork in that pass:
  a sensor not found yet is in the search or left it at `lastZero` (`PassLeft`), and
  after the pass it is ahead at the last discrepancy, where the next one goes its
  way (`NextLeft`). With three, `lastZero` is overwritten, and the finding begins.
* `NoneLeftOut`, of `ReportComplete`: a calm read has told, at each place of its
  cursor, of each sensor of the cache on the bus so far, in order (`ReadSoFar`).
* `TimeoutsReal`: a poll past `ConvTime` finds only dead sensors busy, so a
  time-out needs one, or a glitch. `ReportsFresh`: a calm read begins only when
  nobody is busy, so every sensor on the bus has been sampled.

`I2cProofs`, for any setpoints, readings, budgets, zones and numbers of taps:

* `TasksTypes`: types, and the loop lives within its error budget.
* `LimitsFirst`, of `TermsFirst`. `WrittenSoFar` says which registers hold the
  current setpoint at each place of the loop, failures and time-outs between any two
  writes included; a module that leaves takes its registers along.
* `TapsTold`, of `EventsTellTaps`. `Counted`: the taps nobody has been told of are
  `taps` taps of `tapZone`, at every place the touch machine can stand.

`BringupProofs`, for any number of tries and any voltages. `BringupInvariant`:

* `NothingElseDriven`, of `OnlyAskedFor`. `ConfigInv` holds of the direction
  registers and of every copy of them that a task has read and not written back, so
  a stale write drives no pin that was not driven. `GuardInv`: the application is
  past its guard for a reason it has read.
* `BothTasksKept`, of `BothKept`. `KeptInv` has one clause for each access of
  `enable_bus_5v`: once passed, its bit stays, or is in `lost`. Whole-register writes
  of the other task are why three of them need the order. A lost update is excused
  for its own bits only, and until they are written again.
* `DisplayShows`, of `DisplayUp`. `PanelInv` ties the panel's state to the stage and
  the access of the bring-up, `DisplayInv` says that a display that was waited for
  finds it done.

`ListenerProofs`, for any number of bytes in reads of any size:

* `ListenerInvariant`: types, `NothingLost`, and `LinkInv`, without which neither
  is inductive: a listener without a source has nothing collected, a caller that
  holds the mutex or sleeps has seen `buf` empty, and no more has been heard than
  was sent. `ListenerTypes`, `KeepsEveryByte` and `WakesForBytes` follow.
* `ImplementsEars` and `CursorStays` are for boards whose bytes are all UTF-8: then
  the searched string is as long as the bytes, and the cursor stays within them.
  `listener_garbled` shows that the assumption is needed.

`HilProofs`, for any processes, commands, images and attempts:

* `LockInvariant` and `BoardClaimed`, of `OneClaimUnlessRaced`. A process that owns
  the board has its number in the lockfile, and only the runner drives it, unless
  two processes were inside `acquire` together and one of them, or of those that came
  beside them, still runs: with the last process the disorder ends.
* `ThisBootMatched`, of `MatchIsThisBoot`. `Heard`: what is on the wire is the
  board's own, and so is what was heard from the reset to the next write.
  `OfThisBoot`: before the reset of a silent board nothing is on the wire, and after
  it everything on the wire and heard is fresh. There are two exceptions, both in the
  theorem's statement: the board never fell silent (`Chatty`), or it printed between
  the silence and the reset (`slipped`). The second also hides in a reset recorded as
  `Clean`, so what `board.rs` 409 promises of `Clean` is not what is proved.
* `VerdictsTrue`, of `VerdictTrue`. `Concluded` carries what was learned from the
  place where it was learned to the success: what `judge` holds is what the board's
  image says, and past it no run with an expectation goes on unless the image is
  the ELF's. It assumes `ElfTold`, that the compared names tell the ELF from the
  images on the board.
* `WritesHaveReason`, of `NoNeedlessWrite`. `NothingMissed`: on a board that boots
  into firmware that names itself, the identity is still to be printed, on the wire
  or heard, or its loss is marked, at every place of a run that keeps the port. It
  assumes `ElfTold`, and `ElfBoots`: an image that passes for the ELF boots, has a
  descriptor and says an identity.
* `NamesAreTold`, of `NamesTell`, and with it `ElfTold`, for `Legible` builds: a mark
  can be read in one way only and is no binary's name or version, no binary is named
  like a version, equal hash prefixes mean equal files, and a patched hash begins
  with a digit other than 0. Each is needed. The last is not the code's to promise:
  a line cut within the hash leaves `0` of a hash that begins so, which counts as
  unpatched, and the mark alone decides. `MCHil` checks that its builds are `Legible`.

Model-checked only: every liveness property (`Served`, `Drained` and `DumpsFinish`,
`Answered`, `Rejoins`, `DeadModuleStops`, `TapTold`, `WaitEnds`, `RunEnds`, the
fairness half of `TakesTurns`), for liveness under fairness is out of the prover's
reach. Every invariant, and every action property and safety refinement, that a
passing run checks is also a theorem.

## 5. What the code does and its comments do not say

SPI2 bus

* `into_inner` with the pre-op hook the header documents (`spi2.rs` 39, 643): the
  hook runs before the card has its turn, so a display frame in between leaves the
  pad driven for the card.
* A clock set on a live guard outlasts the command: the next `acquire` finds
  `card_configured` true and returns (101), though 553 says it re-applies the stored
  config. `live` in the model is what that leaves.
* 759 says the mutex is only ever held by the permit's holder; `set_config` (559)
  locks it without one. Harmless, as `OneSelected` and `CardOnOwnTerms` show.
* `set_config` dropped at the mutex leaves the config stored and the flag set.
  Harmless while only displays can make it wait, since each of them clears the flag.
* `acquire` dropped at the mutex (599) has counted `GOT` and never counts `REL`.
* A `WaitQueueFull` display transaction returns `Ok(())`.

Console

* A dump is back-pressured, not lossless (601, 617): a log line behind it may
  overwrite what it wrote.
* With a panic on the second core the drain on the first is alive, though 781 and
  799 say it is gone; it takes its share of the line. The panic handler takes bytes
  without `SPACE_SIGNAL`, so a dumper that waits sleeps until the next log line; and
  it reports no drop count. A reset between taking and printing the crumb loses it.
* A directive below the default level does not silence its target, though 349 says
  the longest match wins.

WiFi

* A dropped future poisons the next request (`wifi_quit`).

One-wire

* `Search` remembers one fork only: with three sensors a scan may miss one
  (`onewire_all`). `ow_loop` has room for two, and two are always found.
* A scan that a glitch cuts short returns `Ok`, and what it found stays cached; a
  glitch that looks like a fork can cache a sensor twice. Neither is corrected
  until the loop is started again.

I2C tasks and bring-up

* PPS: `enable(false)` and the probe at the start have no timeout. The budget "so a
  wedged PPS cannot keep the bus hot forever" (`pps.rs` 89) is spent by errors only:
  a module that hangs is polled for ever. It is spent at the eleventh error. After a
  timeout the ticker fires at once. Stopping leaves the output as it was.
* Touch: `multi_tap_ms = 0` still yields `Short(2)`; a long press in one zone cancels
  untold taps of another, which the model counts as told to nobody, though
  `touch_buttons.rs` 145 says a loop loses no events.
* `enable_bus_5v` is a "RMW — other bits preserved" (`aw9523b.rs` 158), but the bus
  mutex covers one access: a write between its two is undone, and it may undo the
  LCD's reset pulse. `init` and `lcd_rst_pulse` write whole registers and clear
  `BOOST_EN`.
* VBAT is two transactions: while it falls from 3072 to 3071 it may read 3327, and
  the guard passes; it reads 0 unless `enable_battery_adc` ran.
* `power_display_reset` returns `()`, so its caller cannot know that it failed. A
  display that gives up its bounded wait initialises a panel that is reset later.
  A `touch_rst_pulse` that fails halfway leaves the touch chip in reset.

HIL tool

* A byte that is not UTF-8 moves the listener's cursor too far
  (`listener_garbled`); the ROM's boot lines at another baud rate are such bytes.
* `serial.rs` 1012 says a dead port is reported now, not after the budget; `err` is
  stored and the caller notified without the mutex of `buf`, so a caller between its
  look at `err` (1068) and the wait (1081) sleeps its budget out. `PortError` and
  `ReportError` may both step while `pc = "locked"`.
* `read_available` looks at `err` before `buf`: what the thread collected before the
  port died is never absorbed, though the transcript is to keep a board's last words.
* `Isolation::Clean` promises that every later match is of this boot (`board.rs`
  409); the old boot can still print between the silence and the reset. `slipped`
  is that case.
* "One owner per board" (`lock.rs` 2) holds unless two processes are inside
  `acquire` together: a stale lockfile that one removes may by then be the other's.
  The look and the create are separate calls, and an empty file is nobody's, so both
  claim the board; each then removes the other's file, and more may come beside them.
  `raced` is that case, until the last of them has ended. The race itself is shown by
  no property: `OneClaimUnlessRaced` is about what it must not leave behind.
* The same board has two lock names when a `config` entry has an `id` and another
  run uses `--mac`, when a MAC differs in case, or when the `--out` differ.
* `ensure_image` drops the isolation of its verifying reset (`flash.rs` 343), since a
  stale identity has another content hash; with an image whose printed hash is zero
  it has not.
* `m5stack-core-build/src/lib.rs` 158 says the harness compares the ELF's full hash;
  it compares 12 hex digits (`main.rs` 46), and none of a hash that is zero. Builds
  without a commit are all "unknown" and told apart by nothing else then.
* The console may cut a line's end off and mark the loss later than the run looks:
  the identity printed is then cut without a hole. This is the exception in
  `VerdictTrue`.
* A run killed between the two `ioctl`s of a reset leaves the board in reset until
  somebody opens the port again.
* `value_after` of an empty field returns the next token, though its comment says
  `None` (`identity.rs` 129).
* `--id` with `--board` or `--mac` is ignored without a word.

## 6. Not modelled

* Traffic itself: SPI words, I2C frames beyond the access, RMT pulses, the FIFO of a
  transport, termios settings, sockets. Pure I/O; the models begin where code decides
  something.
* External code: the embassy semaphore, mutex, `Signal` and `select`, the
  `embedded-hal` device wrappers, `esp-hal`, `esp-radio`, `async-button`, `espflash`,
  `probe-rs`, the kernel's tty. Modelled from how the code uses them, or not at all.
  `wifi.rs` 299 relies on `esp-radio` for a loss between its look and its wait; the
  model assumes a wait that starts after a loss returns.
* Formatting, parsing of TOML, transcripts and reports; of text the models keep what a
  comparison tells apart. Whether two hashes share a prefix by chance, the check of
  the mark's length (31 bytes), and what `from_line` refuses beyond missing parts (a
  hash that is not hex, a mark that begins with `version=`: `identity.rs` 117, 122) are
  left out; no line the firmware prints, whole or cut, is refused for these.
* The old drain thread after a reset: `Reopen` waits for it to be gone, the code does
  not join it.
* `rpm.rs`, `watchdog.rs`, `serial_cmd.rs`, `sk6812.rs`, `ble.rs`, `mem.rs`, `ip5306.rs`,
  `multicore.rs`, the logging macros: loops of one call, one counter of one task, or
  constructors. `buttons.rs` renames what `async-button` reports; its `select3` drops
  the two updates that lost. `rpm.rs` sends its NaN at the 31st silent interval.
* `Board::split` and the pin maps: moves of peripherals, checked by the compiler.
* `gate.rs`, a pure comparison of a finished run's records with a budget, which nothing
  in the tool calls, and `report.rs`, which reads text.
* The examples, but for the bring-up path of the display: demonstrations.
* Build support but for the commit and the mark: linker arguments.
* Alarm and masked searches of `onewire.rs`, which the driver does not use; the
  arithmetic of a temperature; wrap-around and saturation of 32-bit counters, which
  take years.
* A panic inside the critical section of `RING`; a warm reset into another image,
  after which the crumb's location points into the wrong one; a panic on a core that
  does not feed the watchdog; a console without a transport, whose dumps wait for ever
  once the ring is full.
* Several runs that drive one board at once, as two may after a race on the lock:
  what they would see is no run's verdict.
