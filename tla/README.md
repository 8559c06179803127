# A verification project for the nctuss emulated disk

The repository emulates the timing of an SSD on an ARM board. A kernel module
(`src/emulator_kernel/nctuss_emudisk_main.c`) presents a block device whose
requests take as long, in the board's time, as the emulated SSD would take. A
user program on another machine (`src/emulator_server/udp_server.cxx`) models the
SSD and stores the sectors; module and program talk over UDP while the board's
clock and its other CPU are stopped. A second module
(`src/emulator_kernel/nctuss_ramdisk_main.c`) does the same with the model and the
sectors in its own memory.

Here are TLA+ models of the parts in which state, time and concurrency meet, the
TLC runs that check them on small instances, and proofs, checked by TLAPS, for all
instances. Line numbers are those of the file named with them; "driver" means
`nctuss_emudisk_main.c`, "server" means `udp_server.cxx`.

## Inventory

| component | state it keeps | operations | modelled in |
|---|---|---|---|
| SSD timing model (server, `MySSDSim`) | per channel: last request id, completion time, direction, last sector | `setup`, `submit_request`, `get_next_responses` | `SSDSim` |
| sector store (server, `MyDb`) | sectors | `put_sector`, `get_sector` | `EmuDisk` (`storage`) |
| disk driver | `Emudisk.lock`, request id table with bounce buffers, `request_inflight`, next completion (time, ids), last completion time, the task's sleep state | strategy, processing task, softirq, load, unload | `EmuDisk`, `BlockDevice` |
| link (driver `communicate_with_emulator`, `nctuss_receive_skb`; server main loop) | id being waited for, reply flag, reply; highest id seen, last reply | call, poll, resend, receive; serve | `EmuLink`, `RPC` |
| pausing the other CPU (driver, `pause_OS`, `resume_OS`, `ipi_function`) | pause flag, stopped timer and its counter, saved interrupt state | pause, resume, the interrupt | `OSPause` |
| pause and link together | as above | reset; one or more calls in a pause | `EmulatorCall`, `Conversation` |
| RAM disk driver | as the disk driver without the id table; channels, sectors | strategy, processing task, softirq, load, unload | `RamDisk`, `BlockDevice`, `SSDSim` |
| response times (both) | two tables, filled at load | table set-up, lookup | `ResponseTime`; a constant in the other models |
| initialisation error paths, addresses | | `emudisk_init` | not modelled: straight-line code |
| FIQ variant of the pause, LED module, trace tools | | | not modelled: compiled out, one register write, offline text processing |

How they interact: the strategy runs under `Emudisk.lock`, which is also the queue's
lock, and calls the server once per message (submit a request, transfer each sector,
ask for the next completion). The task sleeps until the next completion on a
high-resolution timer, takes the lock, completes a batch of requests and asks for
the next completion. Completed requests reach the softirq, which ends each request,
takes the lock again, lowers `request_inflight` and starts a stopped queue, which
calls the strategy from inside the softirq. The strategy wakes the task if it has
to be up earlier than it thinks. Every call to the server runs between `pause_OS` and
`resume_OS`, with the lock held. The RAM disk has the same four processes and books its
own channels where the other driver calls the server.

What is hard in it: the driver keeps a *copy* of what the server will answer next
and must keep it exact while requests are submitted, timers fire, wake-ups cross and
batches complete; times may tie; the server books a channel whose completion has
passed in simulated time, not one whose completion has been reported; the driver
ignores a refused submission; impossible situations are `while(1)`; the flow control
that prevents them is spread over strategy and softirq; and the link must carry each
call out once although packets get lost and answers are late. The interrupt that parks
the other CPU is not waited for and may come in a later pause. The RAM disk chooses among
the channels it has *completed*, later than the server would, and must still book the
one the server books. PROJECT.json lists each hazard with its line and the properties
against it.

What makes each part correct: the timing model answers with the earliest completion
after a time and all requests that share it, and never loses a booked request; the
driver looks to the kernel like a block device and never reaches a `while(1)`, sleeps
through a completion, leaves the queue stopped or the task behind; the link is a
remote procedure call; unloading leaves nothing outstanding; during a call every other
CPU is parked or about to be, holds nothing the pausing CPU needs, and no time passes; the
RAM disk is a block device with the timing of the server, up to the speed at which its
32-bit tables overflow.

## The modules

**`SSDSim`** — the server's timing model. `ssd_channels` is the C array. `setup` leaves
direction and last sector arbitrary (`StaleHeads`), since neither the constructor nor
`setup()` initialises them. `submit_request` books `OldestChannel`, the scan at server
160-166, unless even that one is busy; the response time is the constant `Latency`,
looked up by `IsSequential`, direction and sector count. `get_next_responses` is the
query of server 256-303: a time and a set of ids, the empty set for "none".

**`EmuDisk`** (extends `SSDSim`) — driver and server together, the core of the project.

| code | TLA+ |
|---|---|
| strategy, one round of its loop, driver 1387-1491 | `StrategySubmit`, `StrategySkip` (not a `REQ_TYPE_FS`), `StrategyEmpty` |
| strategy, after the loop, driver 1500-1562 | `StrategyTail` with `NextResponseChanges`, `NeedToWakeUp` |
| task, driver 1162-1343 | `TaskStart`, `TaskIdleWake`, `TaskReturn`, `TaskRelock`, `TaskComplete`, `TaskGetNext` |
| softirq, driver 898-937 | `EndRequest`, `SoftirqDone` |
| request id table, driver 202-258 | `mapping`, `data`, `FirstFree`, `Batch` |
| load and unload, driver 1585-1591, 1885-2001 | `Init`, `AddDisk`, `Exit`, `KthreadStop`, `Unloaded` |
| `while(1)` branches | `StrategyWouldSpin`, `TaskWouldSpin`: the action is not taken, so that the system stops there |
| the kernel (block layer, clock, hrtimer) | `Issue`, `RunQueue`, `Tick`, `TimerExpire`, marked external |

`Emudisk.lock` is a variable. What a process does between taking the lock and its
next point of interest is one action; where the lock stays held across actions (the
rounds of the strategy, the task's batch) only the clock, the timer, kthread_stop and
the task's wake-up path can come in between. `taskState` is the task's scheduler
state, so a wake-up that comes between `set_current_state` and `schedule_hrtimeout` is
represented. The timer (`TimerExpire`, in both disks) may expire until `schedule_hrtimeout` returns, also
after a wake-up: the call then returns 0 although the task was woken first. A request's data is one
value per sector: `bio` (its pages), `data` (the
slot's bounce buffer), `storage` (the server's sectors).

Assumptions, each also where it is used: a call to the server is atomic, since the
clock and the other CPU are stopped around it (that it may be taken for one instant is what
`EmulatorCall` shows); completing a batch takes time (`BatchAssumption`: the clock, which counts
nanoseconds, moves by `BatchTicks` > 0), so that the next submission is later than the batch. The
driver needs that: it spins on a submission in the very instant of the last completion (1420), and with
`BatchTicks` = 0 TLC finds `NoSpin` violated there; so `NoSpin` says nothing of that equality. `blk_cleanup_queue` takes
the queue's lock before it returns; the kernel runs a queue that is not stopped and
has requests.

**`BlockDevice`** — what the kernel is promised: a request is served at one instant
between issue and end, a write puts its sectors on the disk, a read gets the sectors as
they are at that instant, at most `Depth` requests are served but not ended. `EmuDisk`
maps to it with `Device`: a request is served when it is submitted, and the pages of a
read in flight are what its slot's buffer holds for it.

**`EmuLink`** — the protocol between driver and server. `requests` and `replies` are the
packets under way; `Deliverable` makes the network first-in-first-out or, with
`Reorder`, arbitrary. `Poll` is one round of the driver's loop: it may receive, and it
may resend in the same round that brought the answer, because the counter is looked at
after the poll. `Serve` is one round of the server's loop: a reset is carried out
however often it comes (`ServeReset`), a newer id is carried out (`ServeNew`), the last
id is answered again and an older one hangs the server (`ServeOld`). Ids are counted
modulo `IdSpace`. The server's work is the log of the ids carried out since the reset;
a reply is the length of that log. A module is loaded again (`Reload`) only after more
than the reset has been called: `add_disk` reads the partition table. It zeroes what the driver keeps (`Zero`); what
is under way on the network and the server's state stay.

**`RPC`** — what the driver needs of the link: a call is carried out once and answered
with its own result.

**`RamDisk`** — the RAM disk, organised as `EmuDisk`; line numbers of `nctuss_ramdisk_main.c`.

| code | TLA+ |
|---|---|
| strategy, 351-510 | `StrategySubmit`, `StrategySkip`, `StrategyEmpty`, `StrategyTail` |
| choice of channel, 435-466 | `OldestFree`; sequential or not: `IsSequential` |
| next completion, 330-337, 468-482 | `EarliestBusy`, `LearnNext` |
| sector transfer, 152-186 | `Write` at submission, `Read` at completion |
| task, 191-349 | `TaskStart`, `TaskIdleWake`, `TaskReturn`, `TaskRelock`, `TaskComplete`, `TaskUnsetTrue`, `TaskFindNext` |
| softirq 104-122, load 538-635, unload 650-667 | `EndRequest`, `SoftirqDone`, `Init`, `AddDisk`, `Exit`, `KthreadStop`, `Unloaded` |

Here the clock may move while the lock is held, so completions are committed any time after
they pass. `try_process_next_without_sleep` is read before it is assigned on one path: as long
as it is "unset" both outcomes of the test are possible (`TaskUnsetTrue` and `TaskFindNext`).
The model starts with the task woken but not yet run, and `add_disk` cannot return, nor the
module be unloaded, before the partition table has been read. `AsServer` shows the channels as
an `SSDSim`; `MatchesServer` says that each submission is one `submit_request` of it that is not
refused. `Device` maps to `BlockDevice` otherwise than `EmuDisk` does: a write is served when it
is submitted, a read when it completes.

**`OSPause`** — the pause around a call, for any set of CPUs.

| code (driver) | TLA+ |
|---|---|
| `pause_OS`, 753-854 | `PauseBegin`, `StopTimer`, `Interrupt` |
| `resume_OS`, 856-896 | `ClearPaused`, `ResumeTimer`, `RestoreFlags` |
| `ipi_function`, 737-744 | `EnterIpi`, `LeaveIpi` |
| what surrounds them (kernel) | `Want`, `Acquire`, `Release` of `Emudisk.lock`, from the strategy (interrupts off) or the task (on); `IrqDisable`, `IrqEnable`, `TimerLock`, `TimerUnlock`, `Tick` |

One action is what a CPU does between two moments at which another could notice. The
interrupt is asynchronous: `nctuss_smp_invoke_function` is not part of the repository, but the trace
`ftrace_processing/emu_read_trace` (542-543) shows it to be a single `gic_raise_softirq`, so
`Interrupt` only makes it pending, and a CPU with interrupts off takes it when it turns them
on, possibly in the next pause. The timer's spinlock is defined in the patched kernel; the same trace
shows that `gt_compare_set`, which sets the timer's next event, takes a lock with interrupts off
(117), and that `ktime_get` takes none (483; the driver calls it even inside a pause, at 1325). Assumed: the
lock of `gt_compare_set` is `nctuss_gt_spinlock`, and under it the control register, whose enable bit
the driver clears to stop the counter, is read (`TimerLock`, into `gt_read`) and written back (`TimerUnlock`), as
setting a comparator of this timer does. A CPU could therefore start again a counter that was stopped
in between; that `pause_OS` takes the lock and keeps it until `resume_OS` prevents it, and a `StopTimer`
without the lock violates `CallTakesNoTime`. An interrupt may find the task spinning for
`Emudisk.lock` or holding it (`spin_lock_bh` leaves interrupts on), and its handler may set the
timer: `below` is what it has found the CPU doing. The second timer (TTC) is stopped and
started together with the first, and the preemption count has no effect on what is modelled;
both are left out.

**`EmulatorCall`** — `OSPause` and `EmuLink` together, by INSTANCE: each of its steps is a step of one
of them, of both (`FirstCall`: `pause_OS` returns and the first call of the pause is made) or a
guard of one on the other: `ClearPaused` comes after the last call has returned, a call is made by
the CPU that pauses, `Reset` (driver 1922) is the only call outside a pause and comes before
`add_disk`, a reload comes when nobody is in the driver. The network and the server go on during a
pause, other CPUs as far as `OSPause` lets them.

**`Conversation`** — what `EmuDisk` takes for granted, an extension of `RPC` by the clock and the
holder of the lock: while a conversation is open the clock stands still, the lock does not change
hands, and each call is carried out once; no conversation ends with a call unanswered; only the
reset takes time, when nobody holds the lock.

**`ResponseTime`** — the two tables with the numbers of the source. The server multiplies by
`speed_factor` per request in 64 bits; the RAM disk once at load, in 32. A product that does not fit is
undefined in C and takes any of `OverflowOutcomes`. It is the source of the constant
`Latency`, which the other models leave arbitrary.

**`MCEmuDisk`, `MCEmuLink`, `MCRamDisk`, `MCOSPause`, `MCEmulatorCall`, `MCResponseTime`** instantiate the
models for TLC. Definitions marked "mutant" are versions of the definition after them with a plausible
mistake; no action uses them. PROJECT.json pairs each property with a mutant that breaks it.

The theorems are in **`EmuDiskProofs`** (the timing model, types, the inductive invariant and the safety
properties), **`EmuDiskRefinement`**, **`RamDiskProofs`**, **`EmuLinkProofs`**, **`OSPauseProofs`**,
**`EmulatorCallProofs`** (which uses those of the two modules before it by INSTANCE),
**`ResponseTimeProofs`**, and **`NatLemmas`** (that the scans of arrays find a least element, which three of
them share).

## The runs

| run | instance | what it shows |
|---|---|---|
| `disk_safety` | 2 channels; 3 requests, each a write of sector 0, a write of sector 1 or a read of both; 700 thousand states | all safety properties of `EmuDisk`, no deadlock, and `IsBlockDevice` |
| `disk_one_channel` | 1 channel (the default of the module parameter); 4 requests, some not `REQ_TYPE_FS` | `IsBlockDevice` where the queue stops after every request; requests of another type damage nothing |
| `disk_liveness` | 2 channels, 3 writes of one sector, fairness | `RequestsEnd`: a queued request is ended; `UnloadFinishes`: unloading terminates. With one latency no completion overtakes another; that the task is never late when they do is `NoOversleep` in `disk_safety` and the theorem `SleepsNoLonger` |
| `disk_non_fs` | 1 channel, 2 requests, fairness | violation: a request that is not `REQ_TYPE_FS` is not skipped |
| `link_safety` | 3 loads, 5 calls each, 3 losses, 3 early resends, ids modulo 128 | calls are carried out once, in order, and answered with their own result; `IsRPC`; the server does not hang |
| `link_reorder` | 1 load, 3 calls, 2 early resends, overtaking, no loss | violation: a late duplicate is not ignored |
| `ram_safety` | 2 channels; 3 requests as in `disk_safety` | the RAM disk's safety properties, no deadlock, `MatchesServer`, `IsBlockDevice` |
| `ram_one_channel` | 1 channel; 3 requests, some not `REQ_TYPE_FS` | `IsBlockDevice` also where the driver hangs in such a request |
| `ram_liveness` | 2 channels; 3 requests, writes of a sector or reads of both; fairness | `RequestsEnd`, `UnloadFinishes`, whatever the unassigned flag holds |
| `os_pause` | 3 CPUs, any of which pauses the others | `OthersHeld`, `ParkedHoldsNothing`, `FlagsAreTheCallers`, `CallTakesNoTime`, `NoCircularWait` |
| `emulator_call` | 2 CPUs, 2 loads, 3 calls each, 1 loss, fairness | `IsConversation`: pause and link together are a `Conversation`; `EveryoneGoesOn`: every call returns and no CPU stays in the driver or in `ipi_function` |
| `response_time` | the tables of the source, `INT_MAX` = 2^31 - 1, sizes up to 128 sectors, 6 speed factors | RAM disk and server agree up to factor 7945 and the tables overflow beyond; every size is served |

Bounds and why they are enough:

- `disk_channels` = 2 with 3 requests is the least in which a request waits for a full
  device, two requests tie, a submission comes between a completion and its report, and
  a slot is reused. `SmallLatency` makes a sequential request faster than another and a
  larger one slower, so that a later submission can complete earlier, at the same time
  or later. The proofs cover every other number.
- `Slack`: the clock stops `Slack` ticks after the last completion any channel knows.
  Later ticks only make a sleeper later, which is already the case: with `Slack` = 0 the
  clock still goes past every completion, 1 in the run with one channel adds a tick.
- `StaleHeads` gives two arbitrary pairs in the run with one channel, one elsewhere; it
  decides only how fast a request is.
- `SYMMETRY` over requests is used only where no temporal property with fairness is
  checked; requests are interchangeable, each carries any command.
- `IdSpace` = 128 with `FirstId` = 123 puts the last id before the wrap within reach:
  the fifth call of a session takes it. The next call would have id 0, for which the
  code has no answer (the server spins, and id 0 marks a free slot of the table); the
  runs stop before it, and PROJECT.json lists the hazard.
- `MaxLosses` and `MaxEarly` are shared by all calls of a run, so that a single call
  can meet all of them.
- `MaxBegun` = 5 in `os_pause`: acquisitions and pauses of three CPUs together. One pauses while another waits
  for the lock and the third, interrupted, waits for the timer; or two pause one after the other with an interrupt
  taken too late in between. `CounterSpace` = 2 distinguishes a counter that stood still from one
  that ticked once. In `emulator_call` `MaxBegun` = 4 is a pause on each of two CPUs or in each of two
  loads of the module; `MaxCalls` = 3 is the reset and two calls, so that a pause can have more than one. The early resend
  is left to `link_safety`: here `MaxEarly` = 0 and `MaxLosses` = 1, so that a call is repeated because
  request or answer is lost. The theorem covers the rest.
- The speed factors of `response_time` are 0, 1, the default 1000, the two on either side of the
  limit, and a large one; `MAX_REQUEST_SECTOR_NUM` and the rates are those of the source.

Deadlock is checked in the safety and liveness runs of both disks and in `response_time`: the
only state in which nothing happens to a disk is `Finished`, the module gone and every softirq
done. It is not checked in the runs with requests of another type (the driver deadlocks, that
is the finding), in the link runs (they stop at `MaxCalls`), in `os_pause` and `emulator_call` (at `MaxBegun`).

Fairness is weak throughout. `Emudisk.lock` is a spinlock whose holders all leave it
after finitely many steps, and a process that waits for it is one action away; the
scheduler runs what is runnable; the clock ticks and timers expire. Nobody is obliged
to issue a request or to unload the module. In `EmulatorCall` the polling loop and the server's loop go
round, and the network loses at most `MaxLosses` packets; code with interrupts off and critical sections
end, a spinning CPU gets a lock that stays free, a pending interrupt is taken once interrupts are on.
That the emulator answers is not assumed but follows; nobody has to take a lock, to pause or to
call once more.

### Findings

- **A request of another type deadlocks the CPU** (`disk_non_fs`, `NonFsSkipped`).
  Driver 1412 prints "Skip non-CMD request" and 1413 calls `blk_end_request_all`, which
  takes the queue's lock that the strategy holds. The RAM disk has the same lines
  (`StrategySkip` of `RamDisk`).
- **An old duplicate hangs the server** (`link_reorder`, `DuplicatesIgnored`). The comment at
  server 615 says "Ignore duplicate requests"; for an id below the highest seen the code
  prints a line and enters `while(1)` (618). On a network that keeps packets in order
  it cannot happen, which is `NeverHung` in `link_safety`.

## The proofs

### Disk driver and server

For every value of the constants that satisfies their assumptions (at least one channel
and one sector per request; any finite set of requests; any latencies, zero included;
any commands whose sectors lie on the disk), TLAPS proves of `EmuDisk!Spec`:

| theorem | statement |
|---|---|
| `TypeCorrect` | `[]TypeOK` |
| `Invariant` | `[]IInv` |
| `NeverSpins`, `NeverRefused` | no `while(1)` is reached, no submission is refused |
| `TablesAgree` | the driver's table and the channels hold the same requests (`EmulatorAgrees`) |
| `SlotsExact` | a slot is in use exactly while its request is in flight (`MappingExact`) |
| `ExpectsNext`, `SleepsNoLonger` | the expected completion is exact; nobody sleeps through it |
| `StopsOnlyWhenFull`, `UnloadsClean` | flow control and unloading |
| `CompletesInOrder` | the action property `InCompletionOrder` |
| `ImplementsBlockDevice` | `EmuDisk` implements `BlockDevice` |

The argument. None of these is inductive alone. `IInv` ties together who holds the lock
(`LockOK`), how far loading and unloading are (`PhaseOK`), what the task may rely on when
it wakes (`TaskOK`), the two tables (`IdsOK`, `MappingExact`, `EmulatorAgrees`), the
expected completion (`NextOK`), the count of active requests (`CountOK`), and that the
last completion reported is in the past. Three ideas carry it:

1. *Counting* (`SlotLeft`, `ChannelLeft`, `OldestReported`). While the strategy goes on,
   fewer requests are active than there are channels. Slots in use map one-to-one into
   active requests, so a slot is free; outstanding channels map one-to-one into slots in
   use, so some channel has nothing to report, and the channel with the oldest completion
   is such a channel. That is why a submission is accepted and never overwrites a
   completion the driver has not heard of, although the server does not check for it.
2. *Half-known next completion* (`NextOK`, `ExpectedIsNext`, `TailLearnsNext`). Between a
   submission and the end of the strategy the ids the driver expects are some of those
   that complete at the expected time, perhaps not all and perhaps not the first. The
   query at the end restores equality; in the case of a tie the comparison of the numbers
   of ids is enough because one set contains the other.
3. *The task's beliefs* (`TaskOK`). A task on its way to a batch has a next completion that
   is not later than the time it slept until. The strategy may move that completion
   earlier, never later, which is why a timer that fires during a wake-up is harmless.

`EmuDiskProofs` has one lemma per action (`TickInv` ... `TaskGetNextInv`), joined in
`NextInv`; `BooksKept`, `NextKept` and `CountKept` dispose of what an action leaves alone.
The refinement needs no invariant beyond `IInv`: submissions map to `Serve`, `EndRequest`
to `End`, everything else to a stutter, a read's completion included, since the bounce
buffer already holds what the abstract page shows.

### RAM disk

Under the same assumptions, of `RamDisk!Spec`:

| theorem | statement |
|---|---|
| `TypeCorrect`, `Invariant` | `[]TypeOK`, `[]IInv` |
| `NeverSpins`, `SleepsNoLonger`, `FlowControlled` | no `while(1)`; no completion is slept through; channels, requests in flight and the stopped queue agree |
| `CompletesInOrder` | the action property `InCompletionOrder` |
| `TimingOfServer` | `MatchesServer`: the channels are those of an `SSDSim` |
| `ImplementsBlockDevice` | `RamDisk` implements `BlockDevice` |

The heart of the invariant is `OrderOK`: every completed channel is in the past and comes before
every channel in use, in the order both scans of the array use. The task keeps it because it
commits the earliest of those that have passed, the strategy because a new completion is not
before now. Hence the oldest completed channel is the oldest of all, the one the
server would book. That there *is* a completed channel while the strategy goes on is again
counting: channels in use map one-to-one into active requests, of which there are fewer.
`NextOK` is suspended while the task is between two passes (`"again"`), when the recorded
completion may already have been committed; the lock is held then.

### Link

For any number of calls, sessions, losses and resends, if the network keeps packets in order, or if the
driver sends again only when nothing is under way any more (`Orderly == ~Reorder \/ MaxEarly = 0`):
it is resending early *and* overtaking together that make the server hang. `TypeCorrect` and
`LeaksBounded` need neither. The counter must have room for a second id after the first
(`FirstId + 1 < IdSpace`).

| theorem | statement |
|---|---|
| `CarriesOutOnce`, `LosesNothing`, `AnswersRight` | calls are carried out in order, once, in their session, and answered with their own result |
| `NeverHangs` | the server's `while(1)` is not reached |
| `LeaksBounded` | on any network at most one buffer is lost per resend |
| `ImplementsRPC` | `EmuLink` implements `RPC` |

`NothingLost`, which `LosesNothing` states, is checked by no run of its own: `IsRPC` contains it.

The invariant describes the packets under way: first some repetitions of the call before the
current one (`RequestsAre(k)`, `RepliesAre(m)`), then packets of the current one. (Right after a reload there is no
current one, id 0, and what is under way belongs to the last call carried out.) A send appends to
the second part, a loss shortens either, a receipt takes from the first while it lasts; when the
server carries out the current call its first part is empty because the queue is first-in-first-out,
and that is the point where an overtaking packet would break everything (`link_reorder`).
A driver that waits has at most one packet under way (`OnePacket`), to which order is
nothing (`KeepsOrder`). The leak has an invariant of its own (`LeakInv`), since it must hold where the
server may have hung: each packet that is not about the current call stems from a resend.

### Pause

For any set of CPUs, any number of pauses and any delay of the interrupt: `PausesExclusive`,
`HoldsOthers`, `ParkedHasNoLock`, `RestoresCallersFlags`, `NoTimePasses`, `WaitingEnds`, besides `TypeCorrect` and
`Invariant`. The invariant says who holds which lock at each program point (`LocksOK`, where an
interrupted CPU counts as where it was interrupted), with
which interrupt state (`IrqsOK`), and what flag and timer look like (`PauseOK`). A CPU can be parked while
it waits for `Emudisk.lock`, or holds it as the task before its own pause; but it enters
`ipi_function` with a set flag only in somebody else's pause, so it is not the holder then. It never
holds the timer's lock, since it takes that with interrupts off. `my_flags` may be one variable for
all CPUs because it is written and read inside a pause, and pauses are exclusive.

`WaitingEnds` (property `NoCircularWait`) is about the flag and both locks at once. Who is waited for either
sets the timer (`SetterGoesOn`: such a CPU is not parked and waits for nobody) or holds `Emudisk.lock`,
itself or below an interrupt, and then waits at most for who sets the timer (`HolderWaitsForSetter`: any other
pausing CPU would hold `Emudisk.lock` too). So chains of waiting have at most two links.

### Pause and link together

| theorem | statement |
|---|---|
| `PauseKept`, `LinkKept` | the invariants of the two hold of `EmulatorCall` |
| `CallsInPauses` | `CallsOK`: nobody is in the driver before the reset has returned, and any other call is made in a pause that lasts until it returns; on any network |
| `ImplementsConversation` | `EmulatorCall` implements `Conversation`, if the network is `Orderly` |

Each step of the composition is a step, or a stutter, of either module (`PauseSteps`, `LinkSteps`), so what
is proved there holds here. `CallsOK` is what ties them together and is inductive with the types and
`OSPause!IInv`: a call that is not a reset is made at `"call"`, and only `ClearPaused` leaves `"call"`, which waits
for it. The refinement then reads off: the clock cannot tick at `"call"` because the timer is
stopped (`PauseOK`); the lock is acquired or released by a CPU that is not at `"call"` and excludes one that is
(`LocksOK`), hence, by `CallsOK`, with no call under way; the steps of the link are those of `RPC` (`EmuLink`'s
`NextImplements`), among which only `Call` invokes; and the reset, by `CallsOK`, meets a free lock.

### Response times

| theorem | statement |
|---|---|
| `SameTimes` | `SameUpToLimit`: up to speed factor 7945 the RAM disk's 32-bit entry is the server's response time for every request, and beyond it some entry of its table overflows |
| `SizesServed` | `EverySizeServed`: every size up to `MAX_REQUEST_SECTOR_NUM` finds the smallest entry that is large enough |

Assumed is the board (`Board`): `INT_MAX` is 2^31 - 1, and requests have at most 128 sectors, the
largest size of the table. The speed factor, which TLC tries at six values, is arbitrary here.

### Only model-checked

The liveness properties (`RequestsEnd`, `UnloadFinishes`, `EveryoneGoesOn`): fairness and
`ENABLED` are out of the prover's reach. They rest on invariants that are proved (the queue is
stopped only while a softirq is to come, the task never oversleeps, waiting ends after two
links), but the leads-to itself is TLC's. The two violations are TLC's as well.

## Not modelled

- The error paths and the set-up of addresses in `emudisk_init`: straight-line code.
- The variant of the pause that uses a fast interrupt (`USE_FIQ`, compiled out), sending a request and
  its data apart (likewise), the LED module (one register write), the trace tools (text processing
  after the fact, no part of the emulator).
- What the server does with packets the driver never sends: an `id_check` that is not the id
  (`while(1)`, server 630-633), a write without its data (dropped, 696-699), a packet shorter than a request (592).
- Packet headers and checksums, printed statistics, memory allocation failures, the lifetime of the
  kernel's own structures (the softirq reads `req->q` after it has given the request back).
- Request ids beyond the wrap of the 32-bit counter: the code has no answer to id 0, and the model
  stops at the last id before it.
- A crash of board or server: nothing is recovered by the code. The server's sectors are
  an array in memory in the default build (`USE_MEMORY_STORAGE`, server 27); a reload of the module is modelled
  (`Reload`).

## What could come next

Nothing in the repository with state of its own is left out of the models. What `EmuDisk` assumes of
its calls is what `EmulatorCall` implements (`Conversation`); that an `EmuDisk` whose calls are such
conversations implements the `EmuDisk` of today is argued here in words only: between two calls of a
conversation nothing that `EmuDisk` reads can change. With provers that handle fairness the leads-to
properties could follow from the invariants.
