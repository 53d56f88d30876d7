# A verification model of B310E OS

B310E OS (`src/os`) is a small preemptive operating system for the Samsung
SM-B310E, a phone with an SC6530C processor: a kernel, drivers, a file system
on an SD card (FatFs, which is not in the repository), a user interface with
apps, and loadable app modules. The rest of the repository (`src/ports`,
`src/emulator`, `src/tools`, `src/scripts`) is overlays for other projects,
device models for QEMU and host tools.

This directory holds TLA+ modules translated from that code, TLC
configurations that check them on small instances, and theorems about them
that TLAPS has proved for every value of the constants.

## 1. The system: an inventory

One CPU, no memory protection, one address space. Threads interleave at any
instruction where interrupts are on; interrupt handlers run to the end with
interrupts off. Disabling interrupts is the kernel's only lock; everything
above it uses mutexes, semaphores and queues.

| component | state it keeps | operations | what is hard | what makes it correct |
|---|---|---|---|---|
| threads and scheduler (`kernel/thread.c`) | ready list per priority, wait list per object, timeout list, slice | create, exit, sleep, yield, set priority, tick | an interrupt between any two calls; priorities that change while a thread waits | the most urgent ready thread runs; lists agree with the threads; nobody loses a turn |
| mutexes (`kernel/sync.c`) | owner, depth, held lists, what a thread is blocked on | lock with timeout, unlock | inheritance along chains of waits; an unlock that meets a timeout | ownership is consistent; no inversion; boosts end; `mutex_lock` tells the truth |
| semaphores and queues (`kernel/sync.c`) | ring buffer, its semaphore, waiting senders | send, send from an interrupt, receive | a call is two critical sections | a bounded FIFO channel; no lost wake-up |
| tick and tickless idle (`thread.c`, `timer.c`, `irq.c`) | tick count, last tick's cycle count, phase, timer | sleep of the idle thread, interrupt entry, tick | time passes while the code computes with it; counts wrap; an interrupt ends a sleep early | every timeout ends in time; time is counted once |
| CPU clock governor (`cpufreq.c`, `clock.c`) | level, quiet windows, holds, whether 26 MHz is allowed | window, hold, release, mode | a switch is several writes; busy-wait loops under way; drivers that rely on the bus | 26 MHz only when nobody needs the bus; bus speed bounded; the clock comes down again |
| heap (`kernel/heap.c`) | block list in address order | alloc, free | long histories of splits and joins | blocks never overlap; free neighbours are joined |
| card log, hand-over of the card (`fs/fs.c`) | RAM buffer, file on the card, mounted flag | klog, flush, sync, suspend, resume | two threads flush; the card is unmounted under a flush; FatFs calls fail | lines are taken once, in order, and reach the card; nobody touches a card that is handed over |
| disk interface (`fs/diskio.c`) | a window of FAT sectors | read, write, set the FAT's place | transfers that fail half-way; a USB host that writes the card | what is served from RAM is what the card holds |
| SD card (`drivers/sd.c`, `sdio.c`) | a lock, the DMA, the bounce buffer | chunked transfers with retries | blocks and commands that fail; a card that stays busy; the keypad paused meanwhile | what a call has got through is right; it returns; the keypad scan comes back |
| USB mass storage (`drivers/usb.c`, `usb_msc.c`, `apps/usb.c`) | endpoints, transfer generations, two buffers, the session thread | endpoint interrupts, Bulk-Only Transport, SCSI, start and stop of a session | bus resets in the middle of anything; host and device disagreeing on a length; a stop in any state | data arrives as written; every command is answered; no two users of one buffer; nobody on the card after a stop |
| PCM (`drivers/pcm.c`, `dma.c`) and player and recorder (`apps/wavio.c`) | three DMA channels, a ring, the stream's end | start, stop, fill, sink, the DMA interrupt | two channels share an interrupt and an enable bit; DMA errors | a file plays whole and ends; a recording is written whole |
| audio codec (`drivers/audio.c`) | who uses the codec, routes, microphone supply, headset | power, routes, the headset's tick | player, recorder, radio and headset come and go in any order | on while anyone uses it, off after |
| keypad (`drivers/keypad.c`) and key handling (`ui/ui.c`) | latched edges, event queue, held keys | scan interrupt, pause, END poll, `on_key` | a full queue, a garbled scan, an edge lost between read and clear | a key is believed down only while it is, or after a lost release |
| user interface (`ui/ui.c`) | screen stack, the loop | push, pop, home, key, tick | a stack that is full; callbacks that push and pop | screens belong to loaded apps |
| app loader (`loader/loader.c`) | loaded apps, their blocks | open, malloc, free, collect | an app's last screen goes while its code runs | nothing is freed twice, leaked or used after it is freed |
| alarm (`apps/alarm.c`) | alarm time, snooze, ringing flag | check, ring, snooze, stop | once a minute, across midnight, while another screen is up | an alarm that is due rings, once, in its minute |
| RTC (`drivers/rtc.c`) | counters in the RTC, the time being set | read, set, conversions | reading while the counters carry or are being set; 32 bits | a read is a time that was shown; calendar arithmetic is exact |
| SIM reader (`drivers/sim.c`) | one controller for two slots, supplies, what the answer to reset said | activate at 1.8 V, then at 3 V, exchange, deactivate | a card that is slow, stops or answers nonsense; failing half-way | between calls exactly the active slot is supplied; a result is what the card sent |
| DSP (`drivers/dsp.c`) | reset, share memory, the indexes of three rings | download block by block, records, frames and results | the DSP runs beside the driver and answers when it likes, or never | a DSP that runs has the whole program; nothing is lost or doubled in a ring |
| notes (`apps/notes.c`) | the list of numbers, the note being edited | list, open, save, delete | FatFs calls that fail; more notes than are listed | a note is only changed by saving it |
| text editor (`ui/textedit.c`) | text, cursor, mode, the run of taps | taps, moves, modes, wrapping | a tap replaces a letter after a cursor or a mode moved; the text is full | a tap changes its own letter; lines wrap at words |
| Rockbox's PCM (`ports/rockbox/.../pcm-sc6530c.c`) | a sink, a recording with two banks, two lock depths | start, stop, lock, DMA interrupt | two channels and a recording share an interrupt and an enable bit; a stretch ends inside a plane | what plays is what comes next; the interrupt and the interface are on for who runs |
| Rockbox's USB driver (`usb-drv-sc6530c.c`) | endpoints, a stashed request, what was seen of a configuration | interrupt, send, receive, cancel | the controller hides bus resets and configurations; a SETUP ends what went before | every request is answered, with its own answer |
| FM tuner, display, other apps | registers of one device each | sequences, polling | device timing | mostly sequential |

How they interact: drivers' interrupt handlers post semaphores and queues
(`queue_send_isr`, `sem_post`), which makes threads ready; drivers call
`cpufreq_hold` / `cpufreq_release` around work that needs the bus; the kernel
log `klog` is called by everybody and flushed by its own thread; FatFs calls
`diskio.c` under the volume lock, which calls `sd.c` under its own mutex (the
one nesting of mutexes in the system, always in this order); the USB app
suspends the file system, starts mass storage (whose thread then uses `sd.c`)
and resumes the file system afterwards.

`PROJECT.json` lists every component, including those that are not modelled,
with the reason, and the hazards of the code line by line.

## 2. The modules

| module | models | state and actions |
|---|---|---|
| `ThreadOps` | list operations and the scheduler of `thread.c`, `sync.c` | pure operators on one record `k` (lists, priorities, current thread): `ReadyAdd`, `Wake`, `Block`, `SetPrio`, `Ceiling`, `Reschedule`, `Preempt`, `IrqExit` |
| `Kernel` | the calls of a thread and the timer interrupt | `k`; `call` (the lock a blocked thread returns from); `irq` (ticks the running timer interrupt catches up with). One action per kernel call; `LockReturn` is the part of `mutex_lock` after `k_block`; the interrupt is `TickBegin`, one `TickWake` per timeout, `TickEnd` |
| `Channel` | what a queue promises | abstract: send to the end, receive from the front |
| `KernelQueue` | `queue_send`, `queue_send_isr`, `queue_recv` and their semaphore on `Kernel` | adds the ring `q` and each thread's place in its call; implements `Channel` |
| `CardLog` | `klog`, `log_flush`, the log thread, `fs_sync`, `fs_suspend`, `fs_resume` | the RAM buffer, the static output buffer, the flags, and each thread's place; a FatFs call is `TakeVolume` and a `...Done`, `Fails` or `Refused` step |
| `DiskCache` | the read-ahead of `diskio.c` | the window and a read-ahead in flight; hand-over to a USB host |
| `Tickless` | tick, tickless idle, system timer 2 | the timer's registers cycle by cycle (`Pass`), `tick_mark`, ticks, phase; the interrupt path in the steps of the code |
| `CpuFreq` | governor, clock switch, holders, panel, `udelay` | `StepUp` / `StepDown` are single writes to the clock register; `cpufreq_window` is the governor's decision |
| `BlockDevice` | what a storage session promises its host | abstract: issue a command, blocks change as a whole, data and a status come back |
| `UsbBulk` | the endpoints of `usb.c` | pure operators on one record `u` (endpoints, generation, FIFOs, pending interrupts); each runs with interrupts off in the code |
| `UsbStorage` | `usb_msc_run`, the session, `usb_start` / `usb_stop`, the USB screen, a host | `u`, the thread's place `th`, the screen, the card, the host; a section of the thread that touches nothing shared is one step, a call of the SD driver two; implements `BlockDevice` |
| `SdCard` | `sd_read` / `sd_write` down to `command`, against DMA and card | the call `x` (where it is, tries left), the controller, the bounce buffer, the caller's buffer, the keypad's scan |
| `Keys` | a key from the matrix to `on_key` | latched edges, `int_raw`, the queue, the END poll, the ui's held and swallowed keys |
| `Rtc` | `rtc_get`, `rtc_set` against the counters | one register access per step; times are pairs of days and seconds because TLC's integers are 32 bits, `Wrap32` is the wrap of `uint32_t` |
| `Calendar` | the two conversions of dates and the day of the week | pure functions, checked against counting day by day |
| `Heap` | `kmalloc`, `kfree` | the sets of free and used blocks (a set is the list: it is kept in address order) |
| `Sound` | playback, recording, codec, headset, player and recorder | the ui thread's place, the ring, the three channels, the users of the codec; the END thread and the interrupt are actions of their own |
| `Screens` | `ui_run`, the screen stack, the loader's ownership, the alarm | the stack, the callbacks that run (`calls`), the blocks of apps, the loop's phase, the alarm's variables |
| `Dsp` | the download to the boot ROM, layer 1's rings, the DSP's interrupt, and the DSP | the driver's place, share memory, the rings; every access to share memory is a step, and so is everything the DSP does |
| `Sim` | `sim_activate`, `t0` and `sim_deactivate` against a card | the driver's place, the controller, the cards; a character is one step of the card and one of the driver |
| `Notes` | the notes on a card whose calls can fail | files, the directory in its order, the list, the screen on top |
| `RbPcm` | playback and recording of the Rockbox port, under Rockbox's PCM core | what each channel plays and each bank holds, in units of half a plane; the lock depths, the interrupt's line and the enable bit the two share; a thread of the core between lock and unlock |
| `RbControl` | the control endpoint of the port's USB driver, the controller (as the emulator has it), a host | pure operators on controller, driver and core, each run with interrupts off; the core's events; the host's request |
| `RbBulk` | the bulk OUT endpoint with its DMA, against the SD driver's DMA, a host and mass storage | the endpoint and what it shares with the SD driver; the DMA is off in the default build (`USB_SC6530_DMA_OUT`); `Outs` says which builds and channels a run or a theorem is about |
| `TextEdit` | taps, modes, the cursor, `rewrap` | the text, the cursor, the run of taps; `mine` remembers where the run's letter is |

`MC...` modules only give constants values, except `MCKernel` (two parts: locks
and turns), `MCStorage` (two: the card log and the USB session), `MCDrivers` (ten: read-ahead, SD driver, keys, RTC,
calendar, heap, governor, tick, DSP, SIM), `MCApps` (four: sound, screens, notes,
editor) and `MCPorts` (four: PCM, control endpoint, writes, and the kernel's queue): they put
parts that share no state, or the same module with other bounds, into one run. `part` says which of them moves in a behaviour; the others
keep one initial state, so the reachable states are the sum of those of the
parts and not their product, and a property of a part means in the run what it
means alone. `CardLog` has a variable
`scene` for the same reason: it is chosen at the start and says what the ui
thread does with the log and whether FatFs calls fail.
`KernelProofs`, `ScheduleProofs`, `KernelQueueProofs`, `StorageProofs`, `DriverProofs`,
`LoopProofs`, `AppProofs` and `PortProofs` hold the proofs.

Conventions. A definition whose comment begins with "Mutant:" is not part of
the specification: it is the definition below it with a plausible bug, kept to
show that the properties can fail. A kernel call is one step because
interrupts are off during it; whatever the code does after it lets interrupts
on is a step of its own, and anything can happen in between.

### What is external

FatFs is not in the repository. `CardLog` models its calls from the way `fs.c`
and `ffsystem.c` use it and from `ffconf.h`: a volume lock with a timeout,
`FF_FS_LOCK` (a file open for writing cannot be opened, renamed or deleted a
second time), an unmount that takes no lock and makes handles invalid.

The hardware is modelled by what the drivers rely on. The USB host follows the
Bulk-Only Transport: it sends a command when it has the status of the last,
moves at most the data it announced, resets the bus or the device when it
loses patience, and may end its data early. The SDIO controller moves a block
at a time; a block or a command can fail, and the card can stay busy. The
keypad controller latches an edge after its debounce. The DMA ends a block,
or fails, on any channel at any time its stream is enabled. The RTC counts on
between any two register accesses and takes the fields of a new time one by one.

A SIM card is one of ISO/IEC 7816-3, as far as the driver counts on it, and may
be slow, stop at any character or answer nonsense. Of the DSP, the boot ROM is
the emulator's (`sc6530_dsp.c`), with the answers delayed; its layer 1 is a
machine that reads the rings the driver writes and writes the one it reads.
Of Rockbox, which is not in the repository, `RbPcm`, `RbControl` and `RbBulk` rely
on what the driver's interface says: mass storage receives the next chunk while it
writes the last; the PCM core calls under the driver's lock and asks
for the next stretch in its callback; the USB core's thread takes the driver's
events in order, and activating a configuration again drops those that are
queued (`usb-drv-sc6530c.c:1117`).
Its bulk OUT DMA is one of four (`Outs`): not built (the default), one that drains each
packet as it lands (what `dma_start_out` counts on), one that never moves, and one
that reads the FIFO whether a packet is there or not. The last is what the comment at
`usb-drv-sc6530c.c:486` reports from the phone, and why the default is off.
Of FatFs, `Notes` relies on the directory being read in the order of its
entries and on a new file taking the first free one.

## 3. The runs

| run | instance | shows |
|---|---|---|
| `kernel` | locks: 3 threads of 3 priorities and idle, priority changes to 3, 2 mutexes nested or one taken twice, waits of 1 tick and for ever | `ScheduleRight` (`HighestRuns`, `ListsAgree`, `NoInversion`), `OwnersAgree`, `BoostEnds`, `LockReportsOwnership`, `TurnsInOrder`, `TypeOK` |
| | turns: a low thread, 2 peers, an urgent thread that sleeps 3 ticks, slices of 2, 1 mutex that one of the peers waits for without a timeout, fairness | `TurnsAreFair` (`FairTurns`): peers take turns (`RoundRobin`) and the most urgent thread gets out of every wait (`UrgentWaitEnds`) |
| `storage` | card log (a buffer of 2 lines, 3 lines; either log and ui thread with FatFs calls that can fail, or the log thread alone with a working card), fairness | `TakenOnce`, `Logged` (`KeptWhileAway` and `Written`) |
| | USB storage (7 first commands and a second, chunks of 2 packets, card errors, a host that stops early and gives up once), fairness | `KeepsPromise` (implements `BlockDevice`), `Answered`, `NothingShared` (`OwnBuffer` and `CardReturned`) |
| `drivers` | read-ahead (3 sectors, a window of 2) | `CacheCorrect` (`ReadsCurrent` and `InsideFat`) |
| | SD driver (3 blocks, 2 per command, 3 tries, 2 calls), fairness | `TransferSafe` (`Transferred` and `ScanPaused`), `Returns` |
| | keys (1 key and END, a queue of 2) | `NothingStuck` |
| | RTC (2 starts, 3 seconds, 2 of them in a read); calendar (10 years) | `ReadsATime`; `CalendarAgrees` |
| | heap (18 units, 3 sizes) | `HeapSound` (`Disjoint`, `Coalesced`, `FreeCounted`) |
| | governor (2 drivers, 4 loads, 2 and 3 quiet windows), fairness | `ClockSafe`, `SettlesLow` |
| | tick (2 threads, ticks of 3 cycles, sleeps up to 4 ticks, counts modulo 26, up to 2 cycles with interrupts off), fairness | `SleepsRight` (`NoOversleep` and `TickFollows`), `TimeKept`, `TimeoutsEnd` |
| | DSP (2 blocks, 2 records, rings of 5, 2 and 3, 5 frames) | `DspKept` (`Downloaded` and `RingsKept`) |
| | SIM (4 sets of cards, a FIFO of 2, 2 NULLs, commands of 2 bytes either way) | `CardServed` |
| `apps` | sound (a file of 3 half planes, a ring of 2, 2 orders, 2 moves of the plug, 1 DMA error), fairness | `CodecFollows`, `PlayedWhole`, `FileEnds` |
| | screens (1 app with 1 block, a stack of 4, an alarm in a day of 3 minutes) | `OwnersLoaded`, `RingsInTime` |
| | notes (4 numbers, 3 listed, a card that fails) | `NotesKept` |
| | editor (4 characters, lines of 3, a wide capital) | `Edited` |
| `queue_and_ports` | queue (2 senders, 2 receivers, a sending interrupt, 2 slots, 2 messages; one sender waits only for ever) | `ImplementsChannel`, `QueueSound` (`CountedOnce` and `NoneIdle`) |
| | Rockbox's PCM driver (stretches of 1 to 4 half planes, 3 calls of the core, 6 units recorded, 1 DMA error) | `PcmKept` (`PlaysNext`, `TakesLast`, `SharedRight`, `CoreAgrees`) |
| | its control endpoint (8 requests, 1 bus reset, 1 request given up, a controller that shows what it answers or not), fairness | `ControlKept` (`OwnAnswers`, `ReportKept`, `Reconfigured`), `RequestsAnswered` |
| | its writes over USB (2 commands of 2, 5 or 6 packets in chunks of 3, 1 bus reset, no DMA or any of three kinds of it, an SD driver that loses patience once), fairness | `BulkKept` (`OneDma`, `FlagIsDma`, `WrittenRight`, `HeldIsWaited`), `WritesEnd` |
| `card_log_sync` | ui thread syncs, a card that works | finding: `SyncFlushes` is violated |
| `card_log_hand_over` | ui thread hands the card over | finding: `HandedOver` is violated |
| `cpufreq_delay` | delays of 3 us | finding: `DelayLongEnough` is violated |
| `alarm_heard` | as the screens of `apps` | finding: `RingHeard` is violated |
| `notes_free` | 4 numbers, 2 listed, a card that works | finding: `NewNumberIsFree` is violated |
| `codec_on` | the sound of `apps` with 1 order, 2 moves of the plug, no DMA error | finding: `PoweredWhileUsed` is violated |
| `dma_out_garbage` | 1 write of 2, 5 or 6 packets, a DMA that is not paced, no reset | finding: `WrittenAsSent` is violated |

A type invariant is a conjunct of the first property of its module (`TypeOK`
of `Kernel` is one of its own); modules whose properties a value out of type
would violate have none. Several properties are conjunctions of parts that
are named in the module; the parts are what the text below refers to.

### Bounds, and why they are enough

- `MaxDepth` (how often an owner takes a mutex again) is 1 or 2: depth only
  delays the release. `MaxTicks` (ticks one interrupt catches up with) is 1 or
  2: 2 is as long as a slice and longer than the shortest wait.
- Three threads and idle are the least with which a thread can be lent a
  priority through a chain of two mutexes, or wait in a list behind another.
  Two mutexes: the code nests no deeper.
- Two slots, two senders and two receivers are the least with which a slot or
  a count can be taken by a third party; the ring wraps in every longer run.
- `MaxLines` of `CardLog` bounds the lines that are logged. With a buffer of two lines, three
  lines fill it and begin it again, and rotate the file (`RotateLines` is 1).
- Three sectors and a window of two give windows that begin inside, cross and
  end at the end of the FAT, with sectors before and after it.
- In `Tickless` the counts wrap during the run (26 is not a multiple of the
  tick's 3 cycles, as 2^32 is not one of 26000). A sleep of four ticks is the
  shortest that the code starts with the tick off. `MaxOff` bounds how long
  interrupts stay off, or pending, and is twice the shortest period that is
  loaded: the timer can expire twice before it is served. It is less than a
  tick (1 ms), which no section of the code keeps interrupts off for.
- `UsbStorage`: a command of three blocks uses each of the two buffers again;
  the first command is one whose data host and device agree on, or of which
  one expects more than the other or the other direction, or one that is refused
  or invalid; the second shows that nothing of a first that was cut off is left.
  `MaxResets` 1: the host gives up once, at any point, by a bus reset or a
  reset recovery. Generations are not bounded otherwise.
- `SdCard`: three blocks in commands of two give a chunk of one block after a
  chunk of two; the second call starts from whatever the first has left the
  card in. `Tries` is the code's 3.
- `Keys`: a queue of two is full after one press and its release.
- `Rtc`: a start at the end of the first leap year (every field carries) and one
  beyond 2^32 s, three fields of the new time differ; three seconds pass, and no more
  than two of them (`ReadSeconds`) between the beginning of a read and its end. Interrupts
  are off within a try of `read_counters` but not between tries: a thread that is kept
  from the CPU there can have a second pass in each of its three tries, and the third is
  taken as it is. `Acks` is both: an RTC that takes each time, and one that need not.
  `Calendar` goes through every day of ten years: leap and common ones, 2000,
  the first, the last, and neighbours (the theorem has all of them).
- `Heap`: 18 units hold four blocks, so that a block is freed between free and
  used neighbours of every kind.
- `Sound`: a file of three halves of a plane ends in the middle of one and does
  not fit the ring; two orders are enough to interrupt anything by anything.
- `Screens`: `MaxDepth` 4 is reached by screens of the OS, of an app, a dialog
  and the alarm's; a day of three minutes goes round, so that the alarm's next
  day is reached.
- `Dsp`: two blocks tell "the block before" from "this one"; a frame ring of
  five with an interrupt asked for at four wraps within the five frames, and
  the command and result rings are shorter than what goes through them. The
  second attempt of a download starts wherever the first was given up.
- `Sim`: a FIFO of two is what a card that is ahead of the driver needs; the
  card sets are one that wants 3 V, one of the inverse convention that takes
  both, one that answers nonsense, and one in each slot.
- `Notes`: one note more than are listed. `TextEdit`: four characters on lines
  of three wrap at a word, inside one, and at a new line. `MaxLines` (`MAX_LINES`, 256
  in the code) is 3: two new lines reach it, and the last line takes what is left, new
  lines included.
- `RbControl`: an enumeration takes three requests, and the class request that shows it one more,
  so eight (`MaxRequests`) are both twice with a bus reset between them: the second
  class request finds the core configured and is stashed.
- `RbBulk`: a write of 2 packets is shorter than a chunk of 3, one of 6 is two whole
  chunks, and one of 5 ends in a short one.
- `Quiet208` and `Quiet104` are the code's 4 and 20 windows scaled down; only
  that they are more than one matters.

### Fairness, and why the code justifies it

- `Kernel!FairSpec`: the timer interrupt is never masked for good (`WF(Tick)`),
  and an owner that is given the CPU again and again releases its mutex: every
  critical section in the repository is finite. Threads may otherwise spin
  for ever, and an owner that never runs promises nothing.
- `CardLog!FairLogSpec`: the log thread's loop wakes up every second, and its
  steps happen. Nothing is assumed about the ui thread.
- `Tickless!FairTickSpec`: time passes, the idle loop and the interrupt path go
  on, and a pending interrupt is taken.
- `UsbStorage!Fairness`: the interrupt is taken, the session thread (PRIO_HIGH,
  every wait of it times out and looks at `stop_req`) goes on, the host
  finishes what it began, and `usb_stop` returns. A host need not begin
  anything, and the user need not stop the session.
- `SdCard`: the driver goes on (each of its waits is bounded by a time), and the
  controller clocks out what it has to; the card need not do anything.
- `Sound`: the ui thread and the interrupt go on, and an enabled stream ends its
  blocks. Nothing is assumed about the user or the headset.
- `CpuFreq`: a switch that has begun completes (interrupts are off),
  and the tick closes a window every 50 ms.
- `RbControl`: the interrupt, the tick and the core's thread go on, and the host
  with the request it has made; it need not make any. `RbBulk`: the same, and the
  card ends what it does.
- `MCStorage` asks less than `UsbStorage`: that one of the parties of a session
  moves while any can.
- In `storage`, `drivers`, `apps` and `queue_and_ports` the fairness is that of the parts,
  restricted to the part that moves; nothing is assumed of the others.

### Findings

- `fs_sync` can return with its lines lost (`fs.c:54`): `log_flush` copies the
  lines to one static buffer and writes them after releasing the lock; a
  second flush meanwhile overwrites the buffer, or finds the file locked and
  throws its own lines away.
- The card can be handed to the USB host while the log thread is inside a
  FatFs call (`fs.c:138`): `fs_suspend` clears a flag and unmounts, but waits
  for nobody. `DiskCache` takes the same hand-over into account and shows that
  the read-ahead stays right nevertheless.
- A `udelay` under way when the governor raises the clock ends too early
  (`cpu.S:334`): the loop count is computed once.

- An alarm whose screen finds the stack of ten full is marked as ringing but
  never heard, and no later alarm rings until a restart (`ui.c:121` drops the
  push, `alarm.c:104` does nothing while `alarm_ringing`). Nested folders in the
  file browser fill the stack.
- With more notes on the card than are listed (64), a new note can take the
  number of one that is not, and empties its file (`notes.c:118`).
- A headset that is unplugged while `audio_play` is between powering the codec and
  marking the stream as running closes it (`audio.c:336`: `audio_power` asks `pcm_busy`,
  which is still false). The stream then starts on a closed codec and
  stands still until the next stop, although `audio.h:19` says that the codec goes
  off "only when nothing uses it".
- In a build of the Rockbox port with bulk OUT by DMA, a channel that reads the FIFO
  before its packet came completes with its full count and garbage, which mass
  storage writes to the card (`usb-drv-sc6530c.c:661`). The comment of `dma_out_done`
  (line 655) says that after anything but a success nothing of it reaches the card, and
  counts on the full count for that; the one at lines 486-496 says that the count cannot
  tell, as was found on the phone, and keeps the DMA out of the default build.

Seen while modelling, and without a run of their own:

- `command` turns the keypad scan on while it waits for any single block
  ("only the card's programming left", `sdio.c:198`). That is right for a
  write; a block that is read may still be on its way when the first look of
  about 40 us is over, and `sd.c:4` says the scan is off during DMA.
  `ScanPaused` is about the transfers for which it holds.
- Had a card operation taken longer than the 10 s `usb_stop` waits, the card
  would be mounted with the session still on it (`usb.c:940`, `SlowCard`).
- A DMA error that ends a recording leaves `recording_on` set (`pcm.c:201`):
  `audio_record_stop` sees nothing running and keeps the route, so the codec
  stays on. `CodecFollows` excepts just that (`spoilt`), besides the
  playback of the finding `codec_on` (`cut`).
- A lost release of the key that woke the screen leaves `swallow_key` set
  (`ui.c:348`): the next release of that key is swallowed, with its press
  handled. `NothingStuck` counts it as lost.
- A read of the clock that begins just before it is set and is carried out
  after the new time is written can return a mixture of the two (`rtc.c:188`).
- The RTC's day counter has 16 bits and its time in seconds 32: from day 49711
  (the year 2116) on a read shows a day after 1980 again instead of an error.
- `app.h` has `start()` return the app's first screen, or NULL (`app.h:18`). An app that
  pushes a screen itself and then returns NULL is unloaded with its screen on the
  stack (`Fails`).

- The DSP's interrupt does not say what it is for: `wait_cmd_taken` takes a
  late interrupt of one record for the next (`dsp.c`). The record is in its
  place in either case, so `RingsKept` holds. Nothing in the repository calls
  the `l1_...` functions yet.
- An answer of a SIM card that comes after its exchange timed out is taken for
  the next one's; `CardServed` is about exchanges since the last timeout. `t0`
  counts only NULLs, so a card that repeats its procedure byte keeps it in the
  loop for good; and an answer to reset with a gap above 50 ms is cut short.
- The message `saved` shows is a screen, and the editor's own `ui_pop` takes that
  off instead of the editor: the message is never seen and the editor stays.
  A failed `f_write` goes unnoticed; a note longer than the editor takes is cut
  when it is saved.
- With a full text the letter of a tap is not inserted, and the next tap of the
  same key replaces the letter before the cursor (`textedit.c`); `Edited`
  excepts it (`mine = -1`). The blank a line is broken at may lie beyond the
  line's width.
- `layout` stops at 256 lines (`textedit.c:56`): new lines after that, which a note of
  2000 characters has room for, begin none, and the last line holds the rest of the text
  whatever its width. `Wrapped` says so.
- When a wait times out at the end of a chain of waits, only the first owner
  gives the lent priority back (`sync.c:125`); an owner further along keeps it
  until it unlocks, although `sync.c:75` says that a thread's priority is that
  of its highest waiter. `BoostEnds` states what does hold: it ends with the
  last mutex.
- `kernel_reschedule` gives a thread that was preempted a full new slice
  (`thread.c:228`). If a more urgent thread wakes more often than a slice
  lasts, the peer of the preempted thread never runs; the part `turns` of
  the run `kernel` therefore lets the urgent thread sleep longer than a slice, and shows round robin then.
- If the timer's period ends twice before its interrupt is served (possible
  after `align`, whose period can be 10 us), one of the two is not counted
  (`timer.c:29`). `TimeKept` excludes just that step.
- If `MAX_SLEEP_TICKS` were 3 or less instead of 1000, an idle CPU would keep its tick.
- Rockbox's SD driver waits 2 s for a DMA of USB and then goes on beside it
  (`sd-sc6530c.c:225`); and between its `mutex_unlock` and `sc6530_usb_sd_idle` another
  user of the card could start a transfer, beside which the first then starts the
  held DMA. In mass storage the card has one user, so `RbBulk` has one.
- After `ep0_setup` has ended a blocking send of Rockbox's USB driver, the send still
  waits out its second, and returns 0 (`usb-drv-sc6530c.c:787`).
- A line logged while the card is away is kept (`fs.c:61`), although
  `apps/usb.c` says it is dropped. `KeptWhileAway` states what the code does: what is in
  the buffer stays there. It is dropped only if the buffer is full, as at any other
  time (`fs.c:46`).

## 4. The proofs

Each theorem is proved for every value of the constants that the named
assumptions of its module allow; what else it assumes is said with it. Where
the formula a run checks is not inductive, the invariant that is (and that TLC
checked first) is named.

**The kernel.** `KernelProofs`, `ScheduleProofs` and `KernelQueueProofs`, under
`ThreadAssumption`, `KernelAssumption` and `QueueAssumption`:

- `TypeCorrect`, `OwnershipAgrees`, `BoostsEnd`, `LockIsTruthful`: the
  invariants `TypeOK`, `OwnersAgree`, `BoostEnds`, `LockReportsOwnership`.
  None is inductive. That a hand-over goes to a thread that is still
  waiting needs the lists to agree with the threads' own fields; that a thread
  without mutexes is at its own priority needs that a wait list belongs to a
  taken mutex, so that priorities are lent only to owners; that `mutex_lock` is
  truthful needs that a call that is still blocked waits for its own mutex. The
  invariant `IInv` is `Good(k, call, {})`, a conjunction of named parts: `Lists`
  (types, and every list agrees with the threads and has no duplicates),
  `Owners`, `Boosts`, `Calls` (what a blocked or returning call means) and
  `Alive` (there is a thread to run). `Good(d, c, X)` exempts the threads of `X` from `Boosts`: in
  the middle of an unlock the old and the new owner still have a lent
  priority, until `SetPrio` is applied to them.
- `ScheduleIsRight` (`ScheduleRight`: `HighestRuns`, `NoInversion` and that the
  lists are sorted). The invariant `SInv` adds to `IInv` the order of the lists
  (`Order`: sorted by priority and by time, priorities lent along the chain of
  owners, the mutexes a thread holds nested in their list, owners alive), what a
  call under way has noted (`Noted`), that a reschedule is pending when it is
  due (`Pending`), and, between interrupts, that the running thread is the first
  of the most urgent list (`First`). During the timer interrupt `First` does not
  hold: threads wake before the scheduler runs. The part that takes work is
  `k_set_prio`, which follows a chain of waits by calling itself; `SetPrio` takes the set of
  threads it reaches (the least set closed under one link of the chain), so the
  proof needs no induction.
- `TurnsTaken` (`TurnsInOrder`): the action property. `TurnInv` adds to `SInv` that nobody
  has asked for a rotation between two steps, and that the running thread is the
  first of its list even during the interrupt: so a list only changes at its
  ends. A change of priority only brings a thread into a list it was not in.
- `QueueIsSound` (`QueueSound`) and `QueueIsChannel`: the queue implements
  `Channel`, by the refinement mapping of `KernelQueue`, initial states and every
  step. `QInv` adds to `IInv` where each thread may be in its call (`Places`),
  the type of the ring, and the accounts (`Counts`): the items in the ring are those the
  semaphore counts, those a woken receiver has been given and those a sender
  is about to post. Without the last, two receivers could take one item, and
  nothing in `QueueSound` alone says they cannot.

`KernelProofs` begins with what each list operation does and that each scheduler
operation keeps `Lists`; the rest of it and the other modules have one lemma per action.

**Storage.** `StorageProofs`, under `CardLogAssumption` and the assumptions of
`UsbBulk` and `UsbStorage`:

- `LinesTakenOnce` (`TakenOnce`): whoever flushes, a line leaves the buffer once;
  and while the log thread is the only one to flush (`Undisturbed`), the
  old file, the file, what is on its way and the buffer together hold, in order,
  every line that `klog` kept, from the oldest there on.
  The invariant `LogInv` is about the order of numbers (`Rising`, `Below`: what
  a flush took is older than what is in the buffer), and, for the second half,
  about the static buffer `out`, which equals what was taken until the write is
  over.
- `BuffersStayApart` (`OwnBuffer`) and `NothingIsShared` (`NothingShared`). The
  invariant `SessionInv` relates the three parties: `DriverOK` (endpoints,
  FIFOs, the generation of a transfer), `Task` (the counts of `usb_msc_run` at
  each of its places), `InFlight` (which chunk buffer is armed at which place)
  and the host's data. `OwnBuffer` is the consequence for the pair of buffers; it is
  not inductive, since a buffer is armed in one place and used in another.
  `NothingIsShared` assumes `SlowCard = FALSE`, that no operation of the card
  outlasts the 10 s `usb_stop` waits for the thread: with a slower card it is
  false, which is the finding of section 3. `BuffersStayApart` needs no such assumption.

**Drivers.** `DriverProofs`:

- `DiskTypeCorrect` and `CacheIsCoherent` (`CacheCorrect`), for every size of
  card and window. The invariant adds that a fetch in flight lies on the card
  and that the window is empty meanwhile: that is why a failed fetch,
  which leaves half of the new sectors in the buffer, is harmless,
  and why the code clears `ra_count` before it reads.
- `TransfersAreSafe` (`TransferSafe`), for every number of blocks, tries and
  failures. `SdInv` adds where the chunk under way lies (`Extent`), what the
  controller is doing at each place of the driver (`Engine`), what the bounce
  buffer and the caller's buffer hold (`Staged`, `Went`) and when the keypad
  may scan (`Scanning`).
- `ClockIsSafe` (`ClockSafe`), for every number of holders. `FreqInv` adds what
  the register holds in the middle of a switch (`Between`, `Register`) and that
  the governor's level and the clock agree outside one; `holds` is the number of
  drivers that hold the clock, so that it is 0 only if none does.
- `HeapIsSound` (`HeapSound`), for every heap and any requests: the invariant is inductive as it stands.
- `NothingGetsStuck` (`NothingStuck`), for every set of keys and length of the
  queue. `KeysInv` follows each key that lost no event: the last of its events
  in the queue, or what the ui knows if there is none, is what the driver last
  reported (`Agrees`), and an edge the driver has not seen is latched or the
  scan sees it (`Latched`).
- `DspIsFed` (`DspKept`), for programs of any number of blocks and rings of any size. `DspInv`
  says where the download stands and which edge the boot ROM still has to answer
  (`Download`), and, once layer 1 runs, what lies between the two indexes of each
  ring (`Frames`, `Commands`, `Results`) and that a record that is posted has a slot
  of its own (`Posts`). Slots are counted from the reader's index (`Gap`,
  `SlotAfter`), so that the remainders of the code are taken in one lemma and
  nowhere else.
- `SleepsAreRight` (`SleepsRight`) and `TimeIsKept` (`TimeKept`), for every length of tick and
  of sleep and every word the counts wrap in. `TickInv` says where the timer's current period
  began, `s` cycles after `tick_mark` (`Placed`): a period of the tick begins soon after a
  boundary, one of a sleep or of `align` ends on one, and a sleep ends no later
  than the nearest timeout. It adds that the end of a period is served within the time
  interrupts are off (`Latency`) and that every timeout is ahead, by less
  than half a word (`TimeoutsAhead`), so that the differences of wrapped counts that the
  code takes are the distances it means. The lemmas on remainders (`Divided`,
  `AddedMod`, `MinusIs`) are used for each of them.

**SIM reader, calendar, editor and clock.** `LoopProofs`, under `SimAssumption`,
`CalendarAssumption`, `TextEditAssumption` and `RtcAssumption`:

- `CardIsServed` (`CardServed`), for any cards in the slots, answers to reset of any
  length the driver has room for, and commands of any length. `AtrUnderstood` says what
  `sim_atr_parse` makes of an answer, character by character: after each beginning of it
  the parser is at the level the card is at (`At`), and when it calls an answer complete it
  has read all of it. The invariant `SimInv` says which slot is on (`OneIsOn`); in an
  activation, that what was read, what waits in the FIFO and what the card still sends
  are together the beginning of its answer, at the class it is supplied with
  (`Answers`); and in an exchange in which nothing timed out, that the characters on
  their way take the driver from its place in the command to the card's (`Joined`).
  That is the part that is needed: driver and card are rarely at the same place.
  `Stream` is a path of places, so that characters can be added at one end and
  taken at the other.

- `CalendarIsRight` (`CalendarAgrees`), for all days of all the years the clock has. The
  invariant `CalInv` is only that the date is one and that `dayNo` and `wday` are what it
  stands for; the work is in the functions. In 1980 to 2099 every fourth year is a leap
  year (`LeapYears`), so the days before a year are `Start`, and `DaysOf` gives the number
  of a date in closed form; `LoopResult` says where a loop that takes the lengths of the
  years or of the months off one after the other ends, from their sums, and `DateIs` that
  the two loops of `rtc_date_from_days` end at the date.

- `TextIsEdited` (`Edited`), for every text, limits of its length and of its lines, width of
  the lines and widths of the characters. What `Wrapped` says of the lines holds of any text
  (`LinesWrap`). `Sums` gives every part of the text its width; `LineInv` says what
  `layout` has after each character: where its line begins, its last space, that the line
  is not too wide but for its last character, and that each line before is as
  `Wrapped` has it. `LaidInv` is that of the characters up to where the layout was full,
  if it is, and of all of them if not. `WrapNewline`, `WrapOn` and `WrapWide` are the three branches of a
  character. The second half, about the taps, needs `EditInv`: the letter of a run of taps,
  if the run has one, is the one before the cursor.

- `TimeIsRead` (`ReadsATime`), for clocks that start and are set anywhere in the days the
  counters have, as long as neither these nor the 32 bits run over meanwhile (`NoWrap`), for
  any number of seconds, at most two of them in a read (`ReadSeconds <= 2`), and an RTC that
  takes the times written to it (`acks`). `LessIs`, `WrapIs`, `PlusIs`, `FieldsIs`, `CountIs` and
  `ShownIs` say what the operators on times do in seconds. In the invariant `RtcInv`, `Unset` and
  `Set` tell what the counters show: the seconds since the start, or the new fields the RTC has
  taken and, once all are, the new time plus seconds that have passed. `Tried` is why a read
  is right: each try that was not taken has cost a second at least, so that none has passed in
  one that is, and then (`Same`) the fields read are those the clock shows. Both hypotheses
  are needed: with a third second the last try can be a mixture, and an RTC that takes
  a field after `rtc_set` has given up on it and found the clock about right (it showed
  about that time before) can put it back below the time that was set.

Definitions that go on from the value before (`Levels`, `Parsed`, `DaysBefore`, the
loops of `rtc_date_from_days`, `WidthOf`, `Starts`) are recursive functions; that they exist
and that what they say of every value follows step by step is shown
from the well-foundedness of the numbers (`LeastNumber`, `Induction`, `Recursion`).

**Apps.** `AppProofs`, under `ScreensAssumption` and `NotesAssumption`:

- `OwnersAreLoaded` (`OwnersLoaded`), for every set of apps, depth of the stack
  and pool of blocks, if `Fails = FALSE`: no app pushes a screen and then fails
  to start. `LoaderInv` describes the stack of screens and of callbacks and adds
  the reason why collecting is safe: an app without a screen that is still
  loaded is the one being started, one whose first screen found the stack full,
  or one that `collect` says is to be looked at.
- `CodecIsRight` (`CodecFollows`) and `PlaysItAll` (`PlayedWhole`), for every set of
  files and ring of halves, and with the END thread between any two steps of the ui
  thread. `CodecFollows` excepts a playback that was `cut`: the END thread closed
  the codec between the two halves of `audio_play`, as the run `codec_on` shows. `SoundInv` has four parts. `Places`: what the player's and the
  recorder's threads and the interrupt may be doing together. `Streams`: the enable
  bit and the line of the DMA against the two directions. `Powered`: who
  counts as a user of the codec, and that a side without a user is off. `Accounts`:
  what was played, the halves that are full and what is left of the file
  are the file, in order.
- `AlarmRings` (`RingsInTime`). `RingInv` adds that the alarm's screen is on the
  stack at most once, where no other screen can be above it, and is there
  exactly while it rings, unless it found the stack full; and that the loop
  looks at a minute at most once.
- `NotesAreKept` (`NotesKept`), for every number of notes and every limit of the list. `NotesInv`
  says that the directory and the files are one card's (`Directory`) and that a
  list that left nothing out is that card, so that one more than its highest number
  is free; a new note finds a free entry because there are as many as numbers.

**Ports.** `PortProofs`, under `RbBulkAssumption`, `RbPcmAssumption` and `RbControlAssumption`:

- `WritesAreSafe` (`BulkKept`), for every number of commands, packets in a chunk, resets and
  give-ups, and every kind of DMA. `OneDma`, `FlagIsDma` and `HeldIsWaited` hold of all of
  them, and so does that a status comes when as much is written as the host sent. That it
  is what the host sent is proved without the DMA, with one that drains each packet as it
  lands and with one that gets stuck; with one that is not paced it is false, as the run
  `dma_out_garbage` shows. `BulkInv` has four parts: `Types`; `Dmas` (which of the two DMAs runs,
  and that the flags say so); `Quiet` (what a DMA that is not drained holds); `Phases`
  (the host's count, the endpoint's and the driver's in each phase of a command).
  `DmaMin` is at least two packets, as `USB_DMA_MIN` (512 bytes) is eight; with one,
  a DMA that has not drained would count as complete.
- `PcmIsKept` (`PcmKept`), for every number of lines, frames and half-planes. The
  part about the shared interrupt and interface (`SharedRight`) is inductive as it
  stands; the order of the frames is not. `PcmInv` adds where each channel is in its two
  halves (`Planes`: what `fill_plane` took for it, and what was silence), so that the next
  half holds the next frames, and, for the recorder, which bank the interrupt hands
  over next (`Banks`).
- `ControlIsKept` (`ControlKept`), for every number of requests, bus resets and give-ups.
  `CtlInv` adds that a SETUP that is latched keeps everything else from moving
  (`SetupFirst`); where a request is on its way to the core, and that nothing of its
  data has moved before it is there (`OnItsWay`); that the packet the driver has
  handed to the controller is the one the host takes next (`Answered`); that a report is
  with the core or its last packet is latched (`Reported`); and what the driver has
  seen of the enumeration against what the host has done (`Enumerated`, `Settled`).

What the proofs needed of the constants, beyond what the models say, is what
the code has: a heap of whole units, sleeps of more than three ticks and of less than
half of what the counts hold, a window of the governor of at least one
tick, a mark that is no line, names of apps that are not screens' names.

**Only model-checked.** All liveness: TLAPS 1.4 does not reason about fairness
and ENABLED as these properties need it (`BlockDevice` is implemented in steps and
in liveness; the run shows both). `ReadsATime` for an RTC that does not take a time within
2 s: it holds for the times of the run, not for all (above). `KeepsPromise` has no proof yet.

## 5. The plan

Done: the kernel (`Kernel`, `KernelQueue` / `Channel`, `Tickless`, `CpuFreq`,
`Heap`), storage (`CardLog`, `DiskCache`, `SdCard`, `UsbBulk` / `UsbStorage` /
`BlockDevice`), the other drivers with behaviour of their own (`Keys`, `Rtc`,
`Calendar`, `Sound`, `Dsp`, `Sim`), the ui (`Screens`, `Notes`, `TextEdit`) and
the Rockbox port's PCM and USB drivers (`RbPcm`, `RbControl`, `RbBulk`),
with the theorems above.

Left, in this order:

1. Proofs: the steps of `KeepsPromise`.
2. The file browser with its folders (`apps/files.c`), which is what fills the
   stack of screens; the loader's checks of a file.
3. The tuner's seek (`drivers/fm.c`) against a tuner that does not answer.
4. A composition of `CardLog` with `UsbStorage`: the hand-over seen from both
   sides, with the session that outlives `usb_stop`.

## 6. Not modelled, and why

- Statistics and layout: the accounting of cycles per thread and of the idle
  share, free space, the layout of log lines, levels and peaks; drawing, fonts
  and icons.
- Register sequences of one device (display, tuner, codec, board), which are
  sequential and have no state a property would relate; so also volume and
  muting, the identification of a card, enumeration over the control endpoint
  and the contents of SCSI replies.
- Errors that leave everything as it was: no memory in `thread_create`; a
  register of the RTC that cannot be written, a second `rtc_set` meanwhile;
  failing transmissions and check characters of a SIM.
- States no caller in the repository reaches: sizes near 2^32 in `kmalloc`,
  apps whose stop function makes calls, handlers that keep the ui thread for
  more than a minute.
- What apps do with the drivers one call at a time (calculator, games, clock,
  torch, radio screens).
- The ports: overlays whose main programs are not in the repository, but for
  Rockbox's PCM and its USB driver. The emulator: device models to be compiled into QEMU, which
  follow the guest's accesses one by one; the boot ROM of the DSP is the
  other side of `Dsp`, and its USB controller that of `RbControl` and `RbBulk`. Host tools and scripts, partly vendored, sequential.
