------------------------------- MODULE RamDisk -------------------------------
(***************************************************************************)
(* The RAM disk emulator_kernel/nctuss_ramdisk_main.c: a block driver that *)
(* keeps the sectors in memory and models the SSD itself, in an array of   *)
(* channels.  The processes are those of EmuDisk: the block layer, the     *)
(* strategy (under Emudisk.lock, the queue's lock), a softirq per request  *)
(* and the processing task.  A write is carried out when it is submitted,  *)
(* a read when it completes.                                               *)
(*                                                                         *)
(* What a process does between taking the lock and its next point of       *)
(* interest is one action.  The clock may move while the lock is held;     *)
(* udelay(extra_delay) is such a move.                                     *)
(***************************************************************************)
EXTENDS Integers, FiniteSets

CONSTANTS Reqs,          \* identities of the I/O requests
          Commands,      \* what a request may ask for
          Sectors,       \* sectors of the disk
          Blank,         \* contents of a sector never written
          disk_channels, \* module parameter
          MAX_REQUEST_SECTOR_NUM,
          Latency,       \* Latency[sequential, rw, count]: the response times
          Slack          \* bound: the clock stops once it is Slack past
                         \* every completion time

Counts == 1 .. MAX_REQUEST_SECTOR_NUM

ASSUME ChannelsAssumption == disk_channels \in Nat \ {0}
ASSUME MaxSectorsAssumption == MAX_REQUEST_SECTOR_NUM \in Nat \ {0}
ASSUME LatencyAssumption == Latency \in [BOOLEAN \X {0, 1} \X Counts -> Nat]
ASSUME CommandsAssumption ==
  Commands \subseteq [cmd_type : {"fs", "pc"}, rw : {0, 1}, sector : Nat, count : Counts]
ASSUME SectorsAssumption ==
  /\ Sectors \subseteq Nat
  /\ \A c \in Commands : c.sector .. c.sector + c.count - 1 \subseteq Sectors
ASSUME ReqsAssumption  == IsFiniteSet(Reqs)
ASSUME SlackAssumption == Slack \in Nat

WRITE == 1
READ  == 0

VARIABLES
  now,           \* ktime_get()
  \* The block layer.
  stage,         \* where each request is
  attr,          \* the command each issued request carries
  bio,           \* the pages of each request, one value per sector
  stopped,       \* QUEUE_FLAG_STOPPED
  \* The driver.
  lock,          \* holder of Emudisk.lock
  channels,      \* nctuss_emudisk_channels
  storage,       \* Emudisk.data
  request_inflight,
  next_response_to_reply,
  next_time,     \* next_response_to_reply_time_kt
  \* nctuss_emudisk_strategy.
  spc,           \* program counter, "off" when no call is running
  need_to_wake_up,
  \* nctuss_emudisk_processing_task_func.
  taskPc,
  taskState,     \* task_struct.state
  sleep_until,   \* sleep_until_time_kt
  timerFired,    \* the hrtimer of schedule_hrtimeout has expired
  try_next,      \* try_process_next_without_sleep, "unset" until assigned
  phase          \* progress of emudisk_init and emudisk_exit

blockVars == <<stage, attr, bio>>
nextVars  == <<next_response_to_reply, next_time>>
stratVars == <<spc, need_to_wake_up>>
sleepVars == <<taskState, sleep_until, timerFired>>
taskVars  == <<taskPc, sleepVars, try_next>>

vars == <<now, blockVars, stopped, lock, channels, storage, request_inflight,
          nextVars, stratVars, taskVars, phase>>

NoReq   == "no request"
Values  == Reqs \cup {Blank}
Chan    == 0 .. disk_channels - 1
Offsets == 0 .. MAX_REQUEST_SECTOR_NUM - 1

Stages == {"new", "queued",
           "dequeued",     \* fetched and being failed: not a REQ_TYPE_FS
           "inflight",     \* in a channel
           "completing",   \* blk_complete_request done, softirq pending
           "ended",        \* blk_end_request_all done, softirq still running
           "done"}

Channels == [Chan -> [request_completion_time_kt : Nat,
                      request_completed          : BOOLEAN,
                      request                    : Reqs \cup {NoReq},
                      request_rw                 : {READ, WRITE},
                      request_last_sector        : Nat]]

TypeOK ==
  /\ now \in Nat
  /\ stage \in [Reqs -> Stages]
  /\ attr \in [Reqs -> Commands]
  /\ bio \in [Reqs -> [Offsets -> Values]]
  /\ stopped \in BOOLEAN
  /\ lock \in {"none", "strategy", "task"}
  /\ channels \in Channels
  /\ storage \in [Sectors -> Values]
  /\ request_inflight \in Int
  /\ next_response_to_reply \in BOOLEAN
  /\ next_time \in Nat
  /\ spc \in {"off", "loop", "tail", "ending"}
  /\ need_to_wake_up \in BOOLEAN
  /\ taskPc \in {"start", "idle", "sleep", "relock", "first", "again", "done"}
  /\ taskState \in {"running", "interruptible"}
  /\ sleep_until \in Nat
  /\ timerFired \in BOOLEAN
  /\ try_next \in {"unset", "false"}
  /\ phase \in {"probe", "live", "stopping", "joining", "unloaded"}

-----------------------------------------------------------------------------
(* emudisk_init up to add_disk.  The channels are static: zero where they  *)
(* are not set.  The task has been woken and may not have run yet.         *)
Init ==
  /\ now = 1
  /\ stage = [r \in Reqs |-> "new"]
  /\ attr \in [Reqs -> Commands]
  /\ bio = [r \in Reqs |-> [k \in Offsets |-> IF attr[r].rw = WRITE THEN r ELSE Blank]]
  /\ stopped = FALSE
  /\ lock = "none"
  /\ channels = [c \in Chan |-> [request_completion_time_kt |-> 0,
                                 request_completed          |-> TRUE,
                                 request                    |-> NoReq,
                                 request_rw                 |-> 0,
                                 request_last_sector        |-> 0]]
  /\ storage = [s \in Sectors |-> Blank]
  /\ request_inflight = 0
  /\ next_response_to_reply = FALSE
  /\ next_time = 0
  /\ spc = "off"
  /\ need_to_wake_up = FALSE
  /\ taskPc = "start"
  /\ taskState = "running"
  /\ sleep_until = 0
  /\ timerFired = FALSE
  /\ try_next = "unset"
  /\ phase = "probe"

\* add_disk returns when it has read the partition table of the new disk.
AddDisk ==
  /\ phase = "probe"
  /\ \E r \in Reqs : stage[r] \in {"ended", "done"}
  /\ phase' = "live"
  /\ UNCHANGED <<now, blockVars, stopped, lock, channels, storage, request_inflight,
                 nextVars, stratVars, taskVars>>

-----------------------------------------------------------------------------
(* The clock and the timer of the sleeping task.                           *)
CompletionTime(c) == channels[c].request_completion_time_kt

Tick ==
  /\ \E c \in Chan : now <= CompletionTime(c) + Slack
  /\ now' = now + 1
  /\ UNCHANGED <<blockVars, stopped, lock, channels, storage, request_inflight,
                 nextVars, stratVars, taskVars, phase>>

\* The timer runs as long as the task is in schedule_hrtimeout: it may also expire
\* after a wake-up, before the task gets to run and cancels it.
TimerExpire ==
  /\ taskPc = "sleep"
  /\ ~timerFired
  /\ now >= sleep_until
  /\ timerFired' = TRUE
  /\ taskState' = "running"
  /\ UNCHANGED <<now, blockVars, stopped, lock, channels, storage, request_inflight,
                 nextVars, stratVars, taskPc, sleep_until, try_next, phase>>

-----------------------------------------------------------------------------
(* The block layer (the kernel, external to the driver).                   *)
Issue(r) ==
  /\ phase \in {"probe", "live"}
  /\ lock = "none"
  /\ stage[r] = "new"
  /\ stage' = [stage EXCEPT ![r] = "queued"]
  /\ UNCHANGED <<now, attr, bio, stopped, lock, channels, storage, request_inflight,
                 nextVars, stratVars, taskVars, phase>>

Queued == {r \in Reqs : stage[r] = "queued"}

\* Entering the strategy: the caller holds the queue's lock.
EnterStrategy ==
  /\ lock' = "strategy"
  /\ spc' = "loop"
  /\ need_to_wake_up' = FALSE

\* The kernel runs a queue that has requests and is not stopped.
RunQueue ==
  /\ lock = "none"
  /\ ~stopped
  /\ Queued # {}
  /\ EnterStrategy
  /\ UNCHANGED <<now, blockVars, stopped, channels, storage, request_inflight,
                 nextVars, taskVars, phase>>

-----------------------------------------------------------------------------
(* The channels.                                                           *)
Free == {c \in Chan : channels[c].request_completed}
Busy == Chan \ Free

\* Earliest completion time first, lowest index among equals: the order both
\* scans of the array agree on, their comparisons being strict.
Before(c, d) == \/ CompletionTime(c) < CompletionTime(d)
                \/ CompletionTime(c) = CompletionTime(d) /\ c <= d

\* Mutant: the first free channel.
FirstFreeChannel == CHOOSE c \in Free : \A d \in Free : c <= d

\* "Should find the oldeset completed disk channel to match the behavior with
\* emulator server."
OldestFree == CHOOSE c \in Free : \A d \in Free : Before(c, d)

\* Some channel's last request had this direction and ended where r starts.
IsSequential(r) ==
  \E c \in Chan : /\ channels[c].request_rw = attr[r].rw
                  /\ channels[c].request_last_sector = attr[r].sector

\* nctuss_emudisk_transfer, a write and a read.
Write(r) ==
  storage' = [s \in Sectors |->
               IF s - attr[r].sector \in 0 .. attr[r].count - 1
                 THEN bio[r][s - attr[r].sector] ELSE storage[s]]

Read(r) ==
  bio' = [bio EXCEPT ![r] =
           [k \in Offsets |-> IF k < attr[r].count THEN storage[attr[r].sector + k]
                              ELSE bio[r][k]]]

PastTheEnd(r) == ~(attr[r].sector .. attr[r].sector + attr[r].count - 1 \subseteq Sectors)

-----------------------------------------------------------------------------
(* nctuss_emudisk_strategy.  One action per round of its loop.             *)
StrategyWouldSpin ==
  /\ spc = "loop"
  /\ \E r \in Queued : attr[r].cmd_type = "fs" /\ (Free = {} \/ PastTheEnd(r))

Submitted(r) ==
  [request_completion_time_kt |->
     now + Latency[IsSequential(r), attr[r].rw, attr[r].count],
   request_completed   |-> FALSE,
   request             |-> r,
   request_rw          |-> attr[r].rw,
   request_last_sector |-> attr[r].sector + attr[r].count]

\* Mutant: the task is not woken if it waits for something already.
LearnNextWithoutWake(time) ==
  IF ~next_response_to_reply \/ time < next_time
    THEN /\ next_response_to_reply' = TRUE
         /\ next_time' = time
         /\ need_to_wake_up' = (need_to_wake_up \/ ~next_response_to_reply)
    ELSE UNCHANGED <<nextVars, need_to_wake_up>>

LearnNext(time) ==
  IF ~next_response_to_reply \/ time < next_time
    THEN /\ next_response_to_reply' = TRUE
         /\ next_time' = time
         /\ need_to_wake_up' = TRUE
    ELSE UNCHANGED <<nextVars, need_to_wake_up>>

EarliestBusy == CHOOSE c \in Busy : \A d \in Busy : Before(c, d)

\* Mutant: the queue is stopped one request too late.
StopsQueueLate(inflight) == inflight > disk_channels

StopsQueue(inflight) == inflight >= disk_channels

StrategySubmit(r) ==
  /\ spc = "loop"
  /\ stage[r] = "queued"
  /\ attr[r].cmd_type = "fs"
  /\ ~StrategyWouldSpin
  /\ channels' = [channels EXCEPT ![OldestFree] = Submitted(r)]
  /\ IF attr[r].rw = WRITE THEN Write(r) ELSE UNCHANGED storage
  /\ LearnNext(CompletionTime(EarliestBusy)')
  /\ stage' = [stage EXCEPT ![r] = "inflight"]
  /\ request_inflight' = request_inflight + 1
  /\ stopped' = StopsQueue(request_inflight')
  /\ spc' = IF stopped' THEN "tail" ELSE "loop"
  /\ UNCHANGED <<now, attr, bio, lock, taskVars, phase>>

\* blk_fetch_request returns NULL.
StrategyEmpty ==
  /\ spc = "loop"
  /\ Queued = {}
  /\ spc' = "tail"
  /\ UNCHANGED <<now, blockVars, stopped, lock, channels, storage, request_inflight,
                 nextVars, need_to_wake_up, taskVars, phase>>

\* As in EmuDisk: ending a request that is not a REQ_TYPE_FS takes the lock this
\* call holds.  There is no step from "ending".
StrategySkip(r) ==
  /\ spc = "loop"
  /\ stage[r] = "queued"
  /\ attr[r].cmd_type # "fs"
  /\ stage' = [stage EXCEPT ![r] = "dequeued"]
  /\ spc' = "ending"
  /\ UNCHANGED <<now, attr, bio, stopped, lock, channels, storage, request_inflight,
                 nextVars, need_to_wake_up, taskVars, phase>>

wake_up_process == taskState' = "running"

StrategyTail ==
  /\ spc = "tail"
  /\ spc' = "off"
  /\ lock' = "none"
  /\ IF need_to_wake_up THEN wake_up_process ELSE UNCHANGED taskState
  /\ UNCHANGED <<now, blockVars, stopped, channels, storage, request_inflight,
                 nextVars, need_to_wake_up, taskPc, sleep_until, timerFired,
                 try_next, phase>>

-----------------------------------------------------------------------------
(* nctuss_emudisk_processing_task_func.                                    *)
SleepIdle ==          \* schedule_hrtimeout(NULL)
  /\ taskPc' = "idle"
  /\ taskState' = "interruptible"
  /\ lock' = "none"
  /\ UNCHANGED <<sleep_until, timerFired>>

SleepUntil(time) ==   \* resleep: schedule_hrtimeout(&sleep_until_time_kt)
  /\ taskPc' = "sleep"
  /\ taskState' = "interruptible"
  /\ sleep_until' = time
  /\ timerFired' = FALSE
  /\ lock' = "none"

TaskStart ==
  /\ taskPc = "start"
  /\ lock = "none"
  /\ IF next_response_to_reply THEN SleepUntil(next_time) ELSE SleepIdle
  /\ UNCHANGED <<now, blockVars, stopped, channels, storage, request_inflight,
                 nextVars, stratVars, try_next, phase>>

TaskIdleWake ==
  /\ taskPc = "idle"
  /\ taskState = "running"
  /\ lock = "none"
  /\ SleepUntil(next_time)
  /\ UNCHANGED <<now, blockVars, stopped, channels, storage, request_inflight,
                 nextVars, stratVars, try_next, phase>>

\* Mutant: Emudisk.stopping is not looked at.
TaskReturnUnconditionally ==
  /\ taskPc = "sleep"
  /\ taskState = "running"
  /\ taskPc' = "relock"
  /\ UNCHANGED <<now, blockVars, stopped, lock, channels, storage, request_inflight,
                 nextVars, stratVars, sleepVars, try_next, phase>>

\* schedule_hrtimeout returns, 0 if the timer has expired and -EINTR otherwise;
\* Emudisk.stopping is read without the lock.
TaskReturn ==
  /\ taskPc = "sleep"
  /\ taskState = "running"
  /\ taskPc' = IF phase \in {"stopping", "joining"} THEN "done" ELSE "relock"
  /\ UNCHANGED <<now, blockVars, stopped, lock, channels, storage, request_inflight,
                 nextVars, stratVars, sleepVars, try_next, phase>>

TaskRelock ==
  /\ taskPc = "relock"
  /\ lock = "none"
  /\ IF timerFired
       THEN taskPc' = "first" /\ lock' = "task" /\ UNCHANGED sleepVars
       ELSE SleepUntil(next_time)
  /\ UNCHANGED <<now, blockVars, stopped, channels, storage, request_inflight,
                 nextVars, stratVars, try_next, phase>>

\* The task holds the lock.  Each pass over the channels begins by reading the
\* clock; only the first compares it with next_response_to_reply_time_kt.
TaskWouldSpin == taskPc = "first" /\ next_time > now

Scanning == taskPc \in {"first", "again"} /\ ~TaskWouldSpin

Past == {c \in Busy : CompletionTime(c) < now}

\* Mutant: the variant of the code that is switched off, in order of index.
LowestPast == CHOOSE c \in Past : \A d \in Past : c <= d

\* "Commit response to kernel in strickly completion time order."
EarliestPast == CHOOSE c \in Past : \A d \in Past : Before(c, d)

\* Mutant: a read is completed without its data.
CompleteWithoutData(c) ==
  /\ stage' = [stage EXCEPT ![channels[c].request] = "completing"]
  /\ channels' = [channels EXCEPT ![c].request_completed = TRUE]
  /\ UNCHANGED bio

Complete(c) ==
  /\ IF attr[channels[c].request].rw = READ THEN Read(channels[c].request)
                                            ELSE UNCHANGED bio
  /\ stage' = [stage EXCEPT ![channels[c].request] = "completing"]
  /\ channels' = [channels EXCEPT ![c].request_completed = TRUE]

\* Mutant: the flag is not cleared.
TaskCompleteKeepFlag ==
  /\ Scanning
  /\ Past # {}
  /\ Complete(EarliestPast)
  /\ try_next' = "true"
  /\ taskPc' = "again"
  /\ UNCHANGED <<now, attr, stopped, lock, storage, request_inflight, nextVars,
                 stratVars, sleepVars, phase>>

\* A completion is found: the flag is set, tested and cleared, and the search
\* goes round again.
TaskComplete ==
  /\ Scanning
  /\ Past # {}
  /\ Complete(EarliestPast)
  /\ try_next' = "false"
  /\ taskPc' = "again"
  /\ UNCHANGED <<now, attr, stopped, lock, storage, request_inflight, nextVars,
                 stratVars, sleepVars, phase>>

\* None is found in the first pass, the timer having expired in the very instant
\* of the completion, and the flag was never assigned: its value may be anything.
TaskUnsetTrue ==
  /\ Scanning
  /\ Past = {}
  /\ try_next = "unset"
  /\ try_next' = "false"
  /\ taskPc' = "again"
  /\ UNCHANGED <<now, blockVars, stopped, lock, channels, storage, request_inflight,
                 nextVars, stratVars, sleepVars, phase>>

TaskFindNext ==
  /\ Scanning
  /\ Past = {}
  /\ next_response_to_reply' = (Busy # {})
  /\ IF Busy # {}
       THEN /\ next_time' = CompletionTime(EarliestBusy)
            /\ SleepUntil(next_time')
       ELSE SleepIdle /\ UNCHANGED next_time
  /\ UNCHANGED <<now, blockVars, stopped, channels, storage, request_inflight,
                 stratVars, try_next, phase>>

-----------------------------------------------------------------------------
(* nctuss_emudisk_softirq_done.  blk_end_request_all takes and releases    *)
(* the queue's lock.                                                       *)
EndRequest(r) ==
  /\ lock = "none"
  /\ stage[r] = "completing"
  /\ stage' = [stage EXCEPT ![r] = "ended"]
  /\ UNCHANGED <<now, attr, bio, stopped, lock, channels, storage, request_inflight,
                 nextVars, stratVars, taskVars, phase>>

\* Mutant: the queue is not started again.
SoftirqDoneOnly(r) ==
  /\ lock = "none"
  /\ stage[r] = "ended"
  /\ stage' = [stage EXCEPT ![r] = "done"]
  /\ request_inflight' = request_inflight - 1
  /\ UNCHANGED <<now, attr, bio, stopped, lock, stratVars, channels, storage,
                 nextVars, taskVars, phase>>

\* blk_start_queue runs the strategy at once, under the lock held here.
SoftirqDone(r) ==
  /\ lock = "none"
  /\ stage[r] = "ended"
  /\ stage' = [stage EXCEPT ![r] = "done"]
  /\ request_inflight' = request_inflight - 1
  /\ IF stopped THEN stopped' = FALSE /\ EnterStrategy
                ELSE UNCHANGED <<stopped, lock, stratVars>>
  /\ UNCHANGED <<now, attr, bio, channels, storage, nextVars, taskVars, phase>>

-----------------------------------------------------------------------------
(* emudisk_exit: as that of EmuDisk.                                       *)

\* del_gendisk and blk_cleanup_queue return once every request has ended.
Exit ==
  /\ phase = "live"
  /\ lock = "none"
  /\ \A r \in Reqs : stage[r] \in {"new", "ended", "done"}
  /\ phase' = "stopping"
  /\ UNCHANGED <<now, blockVars, stopped, lock, channels, storage, request_inflight,
                 nextVars, stratVars, taskVars>>

KthreadStop ==
  /\ phase = "stopping"
  /\ phase' = "joining"
  /\ wake_up_process
  /\ UNCHANGED <<now, blockVars, stopped, lock, channels, storage, request_inflight,
                 nextVars, stratVars, taskPc, sleep_until, timerFired, try_next>>

\* kthread_stop returns and the sectors are unmapped.
Unloaded ==
  /\ phase = "joining"
  /\ taskPc = "done"
  /\ phase' = "unloaded"
  /\ UNCHANGED <<now, blockVars, stopped, lock, channels, storage, request_inflight,
                 nextVars, stratVars, taskVars>>

\* The module is gone and every softirq has run: nothing is left to do.
Finished ==
  /\ phase = "unloaded"
  /\ \A r \in Reqs : stage[r] \in {"new", "done"}
  /\ lock = "none"
  /\ UNCHANGED vars

-----------------------------------------------------------------------------
BlockLayer == \/ \E r \in Reqs : Issue(r)
              \/ RunQueue
Strategy   == \/ \E r \in Reqs : StrategySubmit(r) \/ StrategySkip(r)
              \/ StrategyEmpty
              \/ StrategyTail
Task       == \/ TaskStart
              \/ TaskIdleWake
              \/ TaskReturn
              \/ TaskRelock
              \/ TaskComplete
              \/ TaskUnsetTrue
              \/ TaskFindNext
Softirq(r) == EndRequest(r) \/ SoftirqDone(r)
Module     == AddDisk \/ Exit \/ KthreadStop \/ Unloaded

Next == \/ Tick
        \/ TimerExpire
        \/ BlockLayer
        \/ Strategy
        \/ Task
        \/ \E r \in Reqs : Softirq(r)
        \/ Module
        \/ Finished

Spec == Init /\ [][Next]_vars

(* As for EmuDisk: the scheduler runs every process that can run and gives *)
(* a free lock to whoever waits for it; the clock ticks and timers expire. *)
Fairness == /\ WF_vars(Tick)
            /\ WF_vars(TimerExpire)
            /\ WF_vars(RunQueue)
            /\ WF_vars(Strategy)
            /\ WF_vars(Task)
            /\ \A r \in Reqs : WF_vars(Softirq(r))
            /\ WF_vars(AddDisk \/ KthreadStop \/ Unloaded)

FairSpec == Spec /\ Fairness

-----------------------------------------------------------------------------
(* Properties.                                                             *)

\* None of the driver's `while(1)' branches is reached: a submission finds a
\* channel (465) and stays on the disk (166), and the task that its timer has
\* woken is not early (233).
NoSpin == ~StrategyWouldSpin /\ ~TaskWouldSpin

\* A sleeping task that nobody has woken sleeps no longer than until the next
\* completion, and sleeps without a timer only if there is none.
NoOversleep ==
  lock = "none" /\ taskState = "interruptible" =>
    /\ taskPc = "idle" => Busy = {}
    /\ taskPc = "sleep" => \A c \in Busy : sleep_until <= CompletionTime(c)

\* The channels in use hold exactly the requests in flight, and the queue is
\* stopped only while some softirq is still to come that starts it again.
FlowControl ==
  lock = "none" =>
    /\ {channels[c].request : c \in Busy} = {r \in Reqs : stage[r] = "inflight"}
    /\ \A c, d \in Busy : channels[c].request = channels[d].request => c = d
    /\ stopped <=> request_inflight = disk_channels
    /\ request_inflight =
         Cardinality({r \in Reqs : stage[r] \in {"inflight", "completing", "ended"}})

\* Requests are committed "in strickly completion time order" (241), after
\* their completion time has passed: of the channels, those that completed
\* before are not later, those still in use not earlier.
InCompletionOrder ==
  [][\A c \in Busy :
       channels'[c].request_completed =>
         /\ CompletionTime(c) < now
         /\ \A d \in Chan : IF d \in Free THEN CompletionTime(d) <= CompletionTime(c)
                                          ELSE CompletionTime(c) <= CompletionTime(d)]_vars

\* Every request on the queue is eventually done with.
RequestsEnd == \A r \in Reqs : stage[r] = "queued" ~> stage[r] = "done"

\* Unloading terminates: the task always notices that it has to stop.
UnloadFinishes == phase = "stopping" ~> phase = "unloaded"

-----------------------------------------------------------------------------
(* The RAM disk has the timing of the emulator.  SSDSim chooses among all  *)
(* channels, the RAM disk among those it has completed; the RAM disk may   *)
(* be late in completing.  The channels are nevertheless those of an       *)
(* SSDSim to which every request is submitted and that refuses none.       *)
AsServer == [c \in Chan |-> [io_request_id       |-> -1,
                             completion_time     |-> CompletionTime(c),
                             request_rw          |-> channels[c].request_rw,
                             request_last_sector |-> channels[c].request_last_sector]]

Server == INSTANCE SSDSim WITH ssd_channels <- AsServer, StaleHeads <- {<<0, 0>>}

\* "match the behavior with emulator server" (436).
MatchesServer ==
  /\ Server!setup
  /\ [][\E r \in Reqs :
          /\ stage[r] = "queued" /\ stage'[r] = "inflight"
          /\ Server!Accepts(now)
          /\ Server!submit_request(now, attr[r].rw, attr[r].sector, attr[r].count,
                                   -1)]_AsServer

-----------------------------------------------------------------------------
(* The RAM disk is a block device: a write is served when it is submitted, *)
(* a read when it completes.                                               *)
AbstractStage(r) == CASE stage[r] = "new" -> "new"
                      [] stage[r] \in {"queued", "dequeued"} -> "pending"
                      [] stage[r] = "inflight" -> IF attr[r].rw = WRITE THEN "served"
                                                                       ELSE "pending"
                      [] stage[r] = "completing" -> "served"
                      [] stage[r] \in {"ended", "done"} -> "ended"

Device == INSTANCE BlockDevice WITH
            disk  <- storage,
            stage <- [r \in Reqs |-> AbstractStage(r)],
            page  <- bio,
            Depth <- disk_channels

IsBlockDevice == Device!Spec

-----------------------------------------------------------------------------
(* The invariant that carries the safety properties from state to state.   *)

LockOK ==
  /\ lock = "strategy" <=> spc # "off"
  /\ lock = "task" <=> taskPc \in {"first", "again"}
  /\ taskState = "interruptible" => taskPc \in {"idle", "sleep"}

\* While the strategy is at work, the task may still have to be woken.
WakePending == spc # "off" /\ need_to_wake_up

PhaseOK ==
  /\ taskPc = "start" => \A r \in Reqs : stage[r] \notin {"completing", "ended", "done"}
  /\ taskPc = "start" => phase = "probe"
  /\ taskPc = "done" => phase \in {"joining", "unloaded"}
  /\ phase = "unloaded" => taskPc = "done"
  /\ phase \in {"stopping", "joining", "unloaded"} =>
       /\ \A r \in Reqs : stage[r] \in {"new", "ended", "done"}
       /\ ~next_response_to_reply
       /\ ~WakePending
       /\ taskPc \notin {"relock", "first", "again"}

\* What the task waits for, and what it may rely on when it wakes.
TaskOK ==
  /\ taskPc \in {"sleep", "relock"} =>
       /\ next_response_to_reply => next_time <= sleep_until
       /\ timerFired => sleep_until <= now
  /\ taskPc = "sleep" /\ taskState = "interruptible" =>
       sleep_until <= next_time \/ WakePending
  /\ taskPc = "idle" /\ taskState = "interruptible" =>
       ~next_response_to_reply \/ WakePending
  /\ taskPc \in {"idle", "sleep"} /\ ~next_response_to_reply =>
       \/ taskPc = "idle" /\ taskState = "interruptible"
       \/ phase \in {"joining", "unloaded"}
  /\ taskPc = "relock" \/ WakePending => next_response_to_reply
  /\ taskPc = "first" => next_response_to_reply /\ next_time <= now

\* The next completion recorded is the earliest of the channels in use.
NextOK ==
  taskPc # "again" =>
    /\ next_response_to_reply <=> Busy # {}
    /\ \A c \in Busy : next_time <= CompletionTime(c)
    /\ Busy # {} => \E c \in Busy : next_time = CompletionTime(c)

\* The channels in use hold exactly the requests in flight, one each.
ChannelsOK ==
  /\ \A c \in Busy : channels[c].request \in Reqs /\ stage[channels[c].request] = "inflight"
  /\ \A r \in Reqs : stage[r] = "inflight" => \E c \in Busy : channels[c].request = r
  /\ \A c, d \in Busy : channels[c].request = channels[d].request => c = d

\* Every completed channel is in the past and before every channel in use.
OrderOK ==
  /\ \A c \in Free : CompletionTime(c) < now
  /\ \A c \in Free, d \in Busy : Before(c, d)

\* The requests the queue's flow control counts.
Active == {r \in Reqs : stage[r] \in {"inflight", "completing", "ended"}}

CountOK ==
  /\ request_inflight = Cardinality(Active)
  /\ IF spc \in {"off", "tail"}
       THEN /\ request_inflight <= disk_channels
            /\ stopped <=> request_inflight = disk_channels
       ELSE ~stopped /\ request_inflight < disk_channels

IInv ==
  /\ LockOK
  /\ PhaseOK
  /\ TaskOK
  /\ NextOK
  /\ ChannelsOK
  /\ OrderOK
  /\ CountOK
==============================================================================
