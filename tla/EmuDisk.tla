------------------------------- MODULE EmuDisk -------------------------------
(***************************************************************************)
(* The block driver emulator_kernel/nctuss_emudisk_main.c together with    *)
(* the emulator it talks to (SSDSim).  Four kinds of processes run         *)
(* concurrently on the CPUs of the board and share the struct Emudisk:     *)
(*                                                                         *)
(*   the block layer    issues requests, runs the request queue, ends      *)
(*                      completed requests                                 *)
(*   the strategy       nctuss_emudisk_strategy: takes requests off the    *)
(*                      queue and submits them; runs under Emudisk.lock,   *)
(*                      which is the queue's lock                          *)
(*   the softirq        nctuss_emudisk_softirq_done, per completed request *)
(*   the task           nctuss_emudisk_processing_task_func: sleeps until  *)
(*                      the next completion time and completes requests    *)
(*                                                                         *)
(* Emudisk.lock is explicit.  What a process does between taking the lock  *)
(* and its next point of interest is one action.  A call to the emulator   *)
(* is atomic: the driver stops the clock and the other CPU around it, and  *)
(* what the network may do meanwhile is the subject of module EmuLink.     *)
(***************************************************************************)
EXTENDS SSDSim

CONSTANTS Reqs,          \* identities of the I/O requests
          Commands,      \* what a request may ask for
          Sectors,       \* sectors the commands touch
          Blank,         \* contents of a sector never written
          BatchTicks,    \* how far the clock moves while a batch is completed
          Slack          \* bound: the clock stops once it is Slack past
                         \* every completion time

ASSUME CommandsAssumption ==
  Commands \subseteq [cmd_type : {"fs", "pc"}, rw : {0, 1}, sector : Nat, count : Counts]
ASSUME SectorsAssumption ==
  /\ Sectors \subseteq Nat
  /\ \A c \in Commands : c.sector .. c.sector + c.count - 1 \subseteq Sectors
ASSUME ReqsAssumption  == IsFiniteSet(Reqs)
ASSUME SlackAssumption == Slack \in Nat
\* The clock counts nanoseconds, a batch copies pages under the lock.
ASSUME BatchAssumption == BatchTicks \in Nat \ {0}

WRITE == 1
READ  == 0

VARIABLES
  now,           \* ktime_get()
  \* The block layer.
  stage,         \* where each request is
  attr,          \* the command each issued request carries
  bio,           \* the pages of each request, one value per sector
  stopped,       \* QUEUE_FLAG_STOPPED
  \* struct Emudisk and request_id_to_req_mapping.
  lock,          \* holder of Emudisk.lock
  mapping,       \* request_id_to_req_mapping: request_id and req per slot
  data,          \* ... and the bounce buffer of each slot
  request_inflight,
  udp_send_reply_id,
  latest_response_time,
  next_time,     \* next_response_to_reply_time_kt
  next_ids,      \* next_response_to_reply_ids and _num, as a set
  \* nctuss_emudisk_strategy.
  spc,           \* program counter, "off" when no call is running
  new_request_submitted,
  \* nctuss_emudisk_processing_task_func.
  taskPc,
  taskState,     \* task_struct.state
  sleep_until,   \* sleep_until_time_kt
  timerFired,    \* the hrtimer of schedule_hrtimeout has expired
  phase,         \* progress of emudisk_init and emudisk_exit
  \* The server's sector store (class MyDb).
  storage

blockVars == <<stage, attr, bio>>
replyVars == <<latest_response_time, next_time, next_ids>>
idVars    == <<udp_send_reply_id, request_inflight>>
slotVars  == <<mapping, data>>
stratVars == <<spc, new_request_submitted>>
taskVars  == <<taskPc, taskState, sleep_until, timerFired>>
serverVars == <<ssd_channels, storage>>

vars == <<now, blockVars, stopped, lock, slotVars, idVars, replyVars, stratVars,
          taskVars, phase, serverVars>>

NoReq  == "no request"
Values == Reqs \cup {Blank}

\* Sector offsets within a request, its pages and a slot's bounce buffer.
Offsets == 0 .. MAX_REQUEST_SECTOR_NUM - 1

Stages == {"new",          \* not issued
           "queued",       \* on the request queue
           "dequeued",     \* fetched and being failed: not a REQ_TYPE_FS
           "inflight",     \* submitted to the emulator
           "completing",   \* blk_complete_request done, softirq pending
           "ended",        \* blk_end_request_all done, softirq still running
           "done"}

TypeOK ==
  /\ ssd_channels \in Channels
  /\ now \in Nat
  /\ stage \in [Reqs -> Stages]
  /\ attr \in [Reqs -> Commands]
  /\ bio \in [Reqs -> [Offsets -> Values]]
  /\ stopped \in BOOLEAN
  /\ lock \in {"none", "strategy", "task"}
  /\ mapping \in [Chan -> [request_id : Nat, req : Reqs \cup {NoReq}]]
  /\ data \in [Chan -> [Offsets -> Values]]
  /\ request_inflight \in Int
  /\ udp_send_reply_id \in Nat \ {0}
  /\ latest_response_time \in Nat
  /\ next_time \in Nat
  /\ next_ids \subseteq Int
  /\ spc \in {"off", "loop", "tail", "ending"}
  /\ new_request_submitted \in BOOLEAN
  /\ taskPc \in {"start", "idle", "sleep", "relock", "batch", "getnext", "done"}
  /\ taskState \in {"running", "interruptible"}
  /\ sleep_until \in Nat
  /\ timerFired \in BOOLEAN
  /\ phase \in {"probe", "live", "stopping", "joining", "unloaded"}
  /\ storage \in [Sectors -> Values]

-----------------------------------------------------------------------------
(* emudisk_init up to setup_nctuss_emudisk_processing_task: the driver is  *)
(* zeroed, the emulator has been reset (request 123), the queue exists and *)
(* the task has been woken for the first time.                             *)
Init ==
  /\ setup
  /\ now = 1
  /\ stage = [r \in Reqs |-> "new"]
  /\ attr \in [Reqs -> Commands]
  /\ bio = [r \in Reqs |-> [k \in Offsets |-> IF attr[r].rw = WRITE THEN r ELSE Blank]]
  /\ stopped = FALSE
  /\ lock = "none"
  /\ mapping = [i \in Chan |-> [request_id |-> 0, req |-> NoReq]]
  /\ data = [i \in Chan |-> [k \in Offsets |-> Blank]]
  /\ request_inflight = 0
  /\ udp_send_reply_id = 124
  /\ latest_response_time = 0
  /\ next_time = 0
  /\ next_ids = {}
  /\ spc = "off"
  /\ new_request_submitted = FALSE
  /\ taskPc = "start"
  /\ taskState = "running"
  /\ sleep_until = 0
  /\ timerFired = FALSE
  /\ phase = "probe"
  /\ storage = [s \in Sectors |-> Blank]

(* emudisk_init waits until the task sleeps, then calls add_disk.          *)
AddDisk ==
  /\ phase = "probe"
  /\ taskState = "interruptible"
  /\ phase' = "live"
  /\ UNCHANGED <<now, blockVars, stopped, lock, slotVars, idVars, replyVars,
                 stratVars, taskVars, serverVars>>

-----------------------------------------------------------------------------
(* The clock and the timer of the sleeping task.                           *)
Tick ==
  /\ \E c \in Chan : now <= CompletionTime(c) + Slack
  /\ now' = now + 1
  /\ UNCHANGED <<blockVars, stopped, lock, slotVars, idVars, replyVars,
                 stratVars, taskVars, phase, serverVars>>

\* The timer runs as long as the task is in schedule_hrtimeout: it may also expire
\* after a wake-up, before the task gets to run and cancels it.
TimerExpire ==
  /\ taskPc = "sleep"
  /\ ~timerFired
  /\ now >= sleep_until
  /\ timerFired' = TRUE
  /\ taskState' = "running"
  /\ UNCHANGED <<now, blockVars, stopped, lock, slotVars, idVars, replyVars,
                 stratVars, taskPc, sleep_until, phase, serverVars>>

-----------------------------------------------------------------------------
(* The block layer (the kernel, external to the driver).                   *)
Issue(r) ==
  /\ phase = "live"
  /\ lock = "none"
  /\ stage[r] = "new"
  /\ stage' = [stage EXCEPT ![r] = "queued"]
  /\ UNCHANGED <<now, attr, bio, stopped, lock, slotVars, idVars, replyVars,
                 stratVars, taskVars, phase, serverVars>>

Queued == {r \in Reqs : stage[r] = "queued"}

\* Entering the strategy: the caller holds the queue's lock.
EnterStrategy ==
  /\ lock' = "strategy"
  /\ spc' = "loop"
  /\ new_request_submitted' = FALSE

\* The kernel runs a queue that has requests and is not stopped.
RunQueue ==
  /\ lock = "none"
  /\ ~stopped
  /\ Queued # {}
  /\ EnterStrategy
  /\ UNCHANGED <<now, blockVars, stopped, slotVars, idVars, replyVars,
                 taskVars, phase, serverVars>>

-----------------------------------------------------------------------------
(* The request id mapping table.                                           *)
FreeSlots == {i \in Chan : mapping[i].request_id = 0}
UsedSlots == Chan \ FreeSlots

FirstSlot == 0    \* mutant: the first slot, free or not

\* nctuss_put_request_id_to_req_mapping takes the first free slot and spins
\* forever if there is none.
FirstFree == CHOOSE i \in FreeSlots : \A j \in FreeSlots : i <= j

\* The slots nctuss_get_request_id_to_req_mapping finds for the ids about to be
\* replied to; it spins forever if an id is in no slot.
Batch == {i \in Chan : mapping[i].request_id \in next_ids}
BatchReqs == {mapping[i].req : i \in Batch}
BatchFound == \A id \in next_ids : \E i \in Chan : mapping[i].request_id = id

\* The first n elements from src, the rest of a buffer as it was.
CopyFirst(n, src, dst) == [k \in Offsets |-> IF k < n THEN src[k] ELSE dst[k]]

-----------------------------------------------------------------------------
(* nctuss_emudisk_strategy.  One action per round of its loop: the time is *)
(* read, a request fetched, a slot taken, the request submitted and its    *)
(* sectors transferred, one message each.                                  *)
StrategyWouldSpin ==
  /\ spc = "loop"
  /\ \E r \in Queued : attr[r].cmd_type = "fs"
  /\ now <= latest_response_time \/ FreeSlots = {}

\* Mutant: the emulator is sent the buffer before the pages are copied into it.
TransferDataTooEarly(r, slot) ==
  LET first == attr[r].sector
      count == attr[r].count
  IN  /\ data' = [data EXCEPT ![slot] = CopyFirst(count, bio[r], data[slot])]
      /\ storage' = [s \in Sectors |->
                      IF attr[r].rw = WRITE /\ s - first \in 0 .. count - 1
                        THEN data[slot][s - first] ELSE storage[s]]

TransferData(r, slot) ==
  LET first == attr[r].sector
      count == attr[r].count
  IN  IF attr[r].rw = WRITE
        THEN LET buf == CopyFirst(count, bio[r], data[slot])
             IN  /\ data' = [data EXCEPT ![slot] = buf]
                 /\ storage' = [s \in Sectors |->
                                 IF s - first \in 0 .. count - 1
                                   THEN buf[s - first] ELSE storage[s]]
        ELSE /\ data' = [data EXCEPT ![slot] =
                          [k \in Offsets |-> IF k < count THEN storage[first + k]
                                             ELSE data[slot][k]]]
             /\ UNCHANGED storage

\* Mutant: the queue is stopped one request too late.
StopsQueueLate(inflight) == inflight > disk_channels

StopsQueue(inflight) == inflight >= disk_channels

StrategySubmit(r) ==
  /\ spc = "loop"
  /\ stage[r] = "queued"
  /\ attr[r].cmd_type = "fs"
  /\ ~StrategyWouldSpin
  /\ mapping' = [mapping EXCEPT ![FirstFree] =
                  [request_id |-> udp_send_reply_id, req |-> r]]
  /\ submit_request(now, attr[r].rw, attr[r].sector, attr[r].count, udp_send_reply_id)
  /\ TransferData(r, FirstFree)
  /\ udp_send_reply_id' = udp_send_reply_id + 1 + attr[r].count
  /\ new_request_submitted' = TRUE
  /\ stage' = [stage EXCEPT ![r] = "inflight"]
  /\ request_inflight' = request_inflight + 1
  /\ stopped' = StopsQueue(request_inflight')
  /\ spc' = IF stopped' \/ Queued = {r} THEN "tail" ELSE "loop"
  /\ UNCHANGED <<now, attr, bio, lock, replyVars, taskVars, phase>>

\* blk_fetch_request returns NULL.
StrategyEmpty ==
  /\ spc = "loop"
  /\ Queued = {}
  /\ spc' = "tail"
  /\ UNCHANGED <<now, blockVars, stopped, lock, slotVars, idVars, replyVars,
                 new_request_submitted, taskVars, phase, serverVars>>

\* A request that is not a REQ_TYPE_FS is failed with blk_end_request_all,
\* which takes the queue's lock: the lock this call of the strategy holds.
\* There is no step from "ending".
StrategySkip(r) ==
  /\ spc = "loop"
  /\ stage[r] = "queued"
  /\ attr[r].cmd_type # "fs"
  /\ stage' = [stage EXCEPT ![r] = "dequeued"]
  /\ spc' = "ending"
  /\ UNCHANGED <<now, attr, bio, stopped, lock, slotVars, idVars, replyVars,
                 new_request_submitted, taskVars, phase, serverVars>>

\* The end of the strategy: learn the next completion, and wake the task if it
\* has to be woken earlier than it expects.
wake_up_process == taskState' = "running"

\* Mutant: a request that completes at the same time as the next one is missed.
NextResponseChangesUnlessTie(next) ==
  next.ids # {} /\ (next_ids = {} \/ next_time > next.time)

NextResponseChanges(next) ==
  /\ next.ids # {}
  /\ \/ next_ids = {}
     \/ next_time > next.time
     \/ next_time = next.time /\ Cardinality(next_ids) < Cardinality(next.ids)

\* Mutant: the task is woken only if it has nothing to wait for.
NeedToWakeUpIdle(next) == next.ids # {} /\ next_ids = {}

\* Mutant: the task is woken only if it waits for something later.
NeedToWakeUpEarlier(next) == next.ids # {} /\ next_time > next.time

NeedToWakeUp(next) ==
  next.ids # {} /\ (next_ids = {} \/ next_time > next.time)

StrategyTail ==
  LET next == get_next_responses(latest_response_time)
  IN  /\ spc = "tail"
      /\ spc' = "off"
      /\ lock' = "none"
      /\ IF new_request_submitted
           THEN /\ udp_send_reply_id' = udp_send_reply_id + 1
                /\ IF NextResponseChanges(next)
                     THEN next_time' = next.time /\ next_ids' = next.ids
                     ELSE UNCHANGED <<next_time, next_ids>>
                /\ IF NeedToWakeUp(next) THEN wake_up_process ELSE UNCHANGED taskState
           ELSE UNCHANGED <<udp_send_reply_id, next_time, next_ids, taskState>>
      /\ UNCHANGED <<now, blockVars, stopped, slotVars, request_inflight,
                     latest_response_time, new_request_submitted, taskPc,
                     sleep_until, timerFired, phase, serverVars>>

-----------------------------------------------------------------------------
(* nctuss_emudisk_processing_task_func.  The task gives the lock back only *)
(* after it has declared itself TASK_INTERRUPTIBLE, so that a wake-up that *)
(* comes before it sleeps is not lost.                                     *)
SleepIdle ==       \* schedule_hrtimeout(NULL)
  /\ taskPc' = "idle"
  /\ taskState' = "interruptible"
  /\ lock' = "none"
  /\ UNCHANGED <<sleep_until, timerFired>>

SleepUntil(time) ==   \* resleep: schedule_hrtimeout(&sleep_until_time_kt)
  /\ taskPc' = "sleep"
  /\ taskState' = "interruptible"
  /\ sleep_until' = time
  /\ timerFired' = FALSE
  /\ lock' = "none"

TaskStart ==
  /\ taskPc = "start"
  /\ lock = "none"
  /\ SleepIdle
  /\ UNCHANGED <<now, blockVars, stopped, slotVars, idVars, replyVars, stratVars,
                 phase, serverVars>>

TaskIdleWake ==
  /\ taskPc = "idle"
  /\ taskState = "running"
  /\ lock = "none"
  /\ SleepUntil(next_time)
  /\ UNCHANGED <<now, blockVars, stopped, slotVars, idVars, replyVars, stratVars,
                 phase, serverVars>>

\* Mutant: Emudisk.stopping is not looked at.
TaskReturnUnconditionally ==
  /\ taskPc = "sleep"
  /\ taskState = "running"
  /\ taskPc' = "relock"
  /\ UNCHANGED <<now, blockVars, stopped, lock, slotVars, idVars, replyVars,
                 stratVars, taskState, sleep_until, timerFired, phase, serverVars>>

\* schedule_hrtimeout returns, 0 if the timer has expired and -EINTR otherwise;
\* Emudisk.stopping is read without the lock.
TaskReturn ==
  /\ taskPc = "sleep"
  /\ taskState = "running"
  /\ taskPc' = IF phase \in {"stopping", "joining"} THEN "done" ELSE "relock"
  /\ UNCHANGED <<now, blockVars, stopped, lock, slotVars, idVars, replyVars,
                 stratVars, taskState, sleep_until, timerFired, phase, serverVars>>

TaskRelock ==
  /\ taskPc = "relock"
  /\ lock = "none"
  /\ IF timerFired
       THEN /\ taskPc' = "batch"
            /\ lock' = "task"
            /\ UNCHANGED <<taskState, sleep_until, timerFired>>
       ELSE SleepUntil(next_time)
  /\ UNCHANGED <<now, blockVars, stopped, slotVars, idVars, replyVars, stratVars,
                 phase, serverVars>>

TaskWouldSpin ==
  \/ /\ taskPc = "batch"
     /\ \/ latest_response_time > now
        \/ latest_response_time > next_time
        \/ next_ids = {}
        \/ ~BatchFound
  \/ /\ taskPc = "getnext"
     /\ LET next == get_next_responses(latest_response_time)
        IN  next.ids # {} /\ next.time < latest_response_time

\* Every request of the batch gives up its slot; a read takes its data with it.
TaskComplete ==
  /\ taskPc = "batch"
  /\ ~TaskWouldSpin
  /\ mapping' = [i \in Chan |-> IF i \in Batch THEN [mapping[i] EXCEPT !.request_id = 0]
                                ELSE mapping[i]]
  /\ latest_response_time' = next_time
  /\ bio' = [r \in Reqs |->
              IF \E i \in Batch : mapping[i].req = r /\ attr[r].rw = READ
                THEN CopyFirst(attr[r].count,
                               data[CHOOSE i \in Batch : mapping[i].req = r], bio[r])
                ELSE bio[r]]
  /\ stage' = [r \in Reqs |-> IF r \in BatchReqs THEN "completing" ELSE stage[r]]
  /\ taskPc' = "getnext"
  /\ now' = now + BatchTicks
  /\ UNCHANGED <<attr, stopped, lock, data, idVars, next_time, next_ids, stratVars,
                 taskState, sleep_until, timerFired, phase, serverVars>>

TaskGetNext ==
  LET next == get_next_responses(latest_response_time)
  IN  /\ taskPc = "getnext"
      /\ ~TaskWouldSpin
      /\ udp_send_reply_id' = udp_send_reply_id + 1
      /\ next_ids' = next.ids
      /\ IF next.ids = {}
           THEN SleepIdle /\ UNCHANGED next_time
           ELSE /\ next_time' = next.time
                /\ IF next.time < now
                     THEN /\ taskPc' = "batch"
                          /\ UNCHANGED <<lock, taskState, sleep_until, timerFired>>
                     ELSE SleepUntil(next.time)
      /\ UNCHANGED <<now, blockVars, stopped, slotVars, request_inflight,
                     latest_response_time, stratVars, phase, serverVars>>

-----------------------------------------------------------------------------
(* The softirq.  blk_end_request_all takes and releases the queue's lock;  *)
(* from then on the request is no longer the driver's.                     *)
EndRequest(r) ==
  /\ lock = "none"
  /\ stage[r] = "completing"
  /\ stage' = [stage EXCEPT ![r] = "ended"]
  /\ UNCHANGED <<now, attr, bio, stopped, lock, slotVars, idVars, replyVars,
                 stratVars, taskVars, phase, serverVars>>

\* Mutant: the queue is not started again.
SoftirqDoneOnly(r) ==
  /\ lock = "none"
  /\ stage[r] = "ended"
  /\ stage' = [stage EXCEPT ![r] = "done"]
  /\ request_inflight' = request_inflight - 1
  /\ UNCHANGED <<now, attr, bio, stopped, lock, stratVars, slotVars,
                 udp_send_reply_id, replyVars, taskVars, phase, serverVars>>

\* blk_start_queue runs the strategy at once, under the lock held here.
SoftirqDone(r) ==
  /\ lock = "none"
  /\ stage[r] = "ended"
  /\ stage' = [stage EXCEPT ![r] = "done"]
  /\ request_inflight' = request_inflight - 1
  /\ IF stopped THEN stopped' = FALSE /\ EnterStrategy
                ELSE UNCHANGED <<stopped, lock, stratVars>>
  /\ UNCHANGED <<now, attr, bio, slotVars, udp_send_reply_id, replyVars, taskVars,
                 phase, serverVars>>

-----------------------------------------------------------------------------
\* Mutant: stopping is set before the requests have drained.
ExitWithoutDraining ==
  /\ phase = "live"
  /\ lock = "none"
  /\ phase' = "stopping"
  /\ UNCHANGED <<now, blockVars, stopped, lock, slotVars, idVars, replyVars,
                 stratVars, taskVars, serverVars>>

(* emudisk_exit.  del_gendisk and blk_cleanup_queue return once every      *)
(* request has ended, the latter after taking the queue's lock; then       *)
(* stopping is set, and kthread_stop wakes the task and waits for it.      *)
Exit ==
  /\ phase = "live"
  /\ lock = "none"
  /\ \A r \in Reqs : stage[r] \in {"new", "ended", "done"}
  /\ phase' = "stopping"
  /\ UNCHANGED <<now, blockVars, stopped, lock, slotVars, idVars, replyVars,
                 stratVars, taskVars, serverVars>>

KthreadStop ==
  /\ phase = "stopping"
  /\ phase' = "joining"
  /\ wake_up_process
  /\ UNCHANGED <<now, blockVars, stopped, lock, slotVars, idVars, replyVars,
                 stratVars, taskPc, sleep_until, timerFired, serverVars>>

Unloaded ==
  /\ phase = "joining"
  /\ taskPc = "done"
  /\ phase' = "unloaded"
  /\ UNCHANGED <<now, blockVars, stopped, lock, slotVars, idVars, replyVars,
                 stratVars, taskVars, serverVars>>

-----------------------------------------------------------------------------
\* The module is gone and every softirq has run: nothing is left to do.
Finished ==
  /\ phase = "unloaded"
  /\ \A r \in Reqs : stage[r] \in {"new", "done"}
  /\ lock = "none"
  /\ UNCHANGED vars

BlockLayer == \/ \E r \in Reqs : Issue(r)
              \/ RunQueue
Strategy   == \/ \E r \in Reqs : StrategySubmit(r) \/ StrategySkip(r)
              \/ StrategyEmpty
              \/ StrategyTail
Task       == \/ TaskStart
              \/ TaskIdleWake
              \/ TaskReturn
              \/ TaskRelock
              \/ TaskComplete
              \/ TaskGetNext
Softirq(r) == EndRequest(r) \/ SoftirqDone(r)
Module     == AddDisk \/ Exit \/ KthreadStop \/ Unloaded

Next == \/ Tick
        \/ TimerExpire
        \/ BlockLayer
        \/ Strategy
        \/ Task
        \/ \E r \in Reqs : Softirq(r)
        \/ Module
        \/ Finished

Spec == Init /\ [][Next]_vars

(* The scheduler runs every process that can run and gives a free lock to  *)
(* whoever waits for it; the clock ticks and timers expire.  Nobody has to *)
(* issue a request or unload the module.                                   *)
Fairness == /\ WF_vars(Tick)
            /\ WF_vars(TimerExpire)
            /\ WF_vars(RunQueue)
            /\ WF_vars(Strategy)
            /\ WF_vars(Task)
            /\ \A r \in Reqs : WF_vars(Softirq(r))
            /\ WF_vars(AddDisk \/ KthreadStop \/ Unloaded)

FairSpec == Spec /\ Fairness

-----------------------------------------------------------------------------
(* Properties.                                                             *)

\* What the emulator still owes the driver: requests whose completion lies
\* after the last one reported.
Outstanding == Pending(latest_response_time)

\* None of the driver's `while(1)' branches is reached: the mapping table never
\* overflows and never misses an id (226, 255), no submission is before the last
\* completion reported (1420), and a batch is neither early nor empty (1245, 1249,
\* 1255, 1318).  That a submission is not in the very instant of that completion
\* either, which 1420 also refuses, is BatchAssumption and not a result.
NoSpin == ~StrategyWouldSpin /\ ~TaskWouldSpin

\* The driver does not look whether the emulator took a request (the reply type
\* is only printed, 559-565): it never submits one the emulator would refuse.
SubmitAccepted == spc = "loop" /\ Queued # {} /\ FreeSlots # {} => Accepts(now)

\* The driver's table and the emulator's channels name the same requests, each
\* once, between any two messages: no channel is booked over a completion that
\* has not been reported, and no request is reported twice or forgotten.
EmulatorAgrees ==
  /\ \A c \in Outstanding : \E i \in UsedSlots :
       mapping[i].request_id = ssd_channels[c].io_request_id
  /\ \A i \in UsedSlots : \E c \in Outstanding :
       mapping[i].request_id = ssd_channels[c].io_request_id
  /\ \A c, d \in Outstanding :
       ssd_channels[c].io_request_id = ssd_channels[d].io_request_id => c = d

\* The slots in use hold exactly the requests in flight, one slot each.
MappingExact ==
  /\ {mapping[i].req : i \in UsedSlots} = {r \in Reqs : stage[r] = "inflight"}
  /\ \A i, j \in UsedSlots :
       (\/ mapping[i].request_id = mapping[j].request_id
        \/ mapping[i].req = mapping[j].req) => i = j

\* Whenever the lock is free, what the driver believes comes next is what the
\* emulator would answer if asked, all requests that tie included.
NextIsEarliest ==
  lock = "none" =>
    LET next == get_next_responses(latest_response_time)
    IN  next_ids = next.ids /\ (next_ids # {} => next_time = next.time)

\* A sleeping task that nobody has woken sleeps no longer than until the next
\* completion, and sleeps without a timer only if there is none.
NoOversleep ==
  lock = "none" /\ taskState = "interruptible" =>
    /\ taskPc = "idle" => Outstanding = {}
    /\ taskPc = "sleep" => \A c \in Outstanding : sleep_until <= CompletionTime(c)

\* The queue is stopped only while the device is full, so that some softirq is
\* still to come that starts it again.
StoppedOnlyWhenFull ==
  lock = "none" =>
    /\ stopped <=> request_inflight = disk_channels
    /\ request_inflight =
         Cardinality({r \in Reqs : stage[r] \in {"inflight", "completing", "ended"}})

\* kthread_stop dereferences the task, which therefore does not leave before it;
\* and when the module is gone no request is left in its table or in the emulator.
\* (The softirq of a request that has ended may still be running.)
CleanUnload ==
  /\ taskPc = "done" => phase \in {"joining", "unloaded"}
  /\ phase = "unloaded" => /\ UsedSlots = {}
                           /\ Outstanding = {}
                           /\ \A r \in Reqs : stage[r] \in {"new", "ended", "done"}

\* Requests complete in the order of simulated time, not before their
\* completion time, and all those of one instant together.
InCompletionOrder ==
  [][\A i \in Chan :
       mapping[i].request_id # 0 /\ mapping'[i].request_id = 0 =>
         \E c \in Chan :
           /\ ssd_channels[c].io_request_id = mapping[i].request_id
           /\ CompletionTime(c) > latest_response_time
           /\ CompletionTime(c) = latest_response_time'
           /\ CompletionTime(c) <= now
           /\ \A d \in Outstanding :
                \/ CompletionTime(d) > CompletionTime(c)
                \/ \E j \in Chan :
                     /\ mapping[j].request_id = ssd_channels[d].io_request_id
                     /\ mapping'[j].request_id = 0]_vars

\* Every request on the queue is eventually done with.
RequestsEnd == \A r \in Reqs : stage[r] = "queued" ~> stage[r] = "done"

\* Unloading terminates: the task always notices that it has to stop.
UnloadFinishes == phase = "stopping" ~> phase = "unloaded"

\* "Skip non-CMD request" (line 1412): a request of another type is skipped.
NonFsSkipped ==
  \A r \in Reqs : stage[r] = "queued" /\ attr[r].cmd_type # "fs" ~> stage[r] = "done"

-----------------------------------------------------------------------------
(* The invariant that carries the safety properties from state to state.   *)

\* Who holds the lock is where the two threads of control say they are.
LockOK ==
  /\ lock = "strategy" <=> spc # "off"
  /\ lock = "task" <=> taskPc \in {"batch", "getnext"}
  /\ taskState = "interruptible" => taskPc \in {"idle", "sleep"}

PhaseOK ==
  /\ taskPc = "start" => phase = "probe"
  /\ phase = "probe" => /\ spc = "off"
                        /\ next_ids = {}
                        /\ \A r \in Reqs : stage[r] = "new"
  /\ taskPc = "done" => phase \in {"joining", "unloaded"}
  /\ phase = "unloaded" => taskPc = "done"
  /\ phase \in {"stopping", "joining", "unloaded"} =>
       /\ \A r \in Reqs : stage[r] \in {"new", "ended", "done"}
       /\ next_ids = {}
       /\ spc # "off" => ~new_request_submitted
       /\ taskPc \notin {"relock", "batch", "getnext"}

\* What the task waits for, and what it may rely on when it wakes.
TaskOK ==
  /\ taskPc \in {"sleep", "relock"} =>
       /\ next_ids # {} => next_time <= sleep_until
       /\ timerFired => sleep_until <= now
  /\ taskPc = "sleep" /\ taskState = "interruptible" => sleep_until <= next_time
  /\ taskPc = "idle" /\ taskState = "interruptible" => next_ids = {}
  /\ taskPc \in {"idle", "sleep"} /\ next_ids = {} =>
       \/ taskPc = "idle" /\ taskState = "interruptible"
       \/ phase \in {"joining", "unloaded"}
  /\ taskPc = "relock" => next_ids # {}
  /\ taskPc = "batch" => next_ids # {} /\ next_time <= now

IdsOK == \A i \in Chan : mapping[i].request_id < udp_send_reply_id

\* While the strategy adds requests, the ids of the next batch remain ids of
\* requests that complete at next_time, though they need no longer be all.
NextOK ==
  taskPc # "getnext" =>
    /\ next_ids # {} => \E c \in Outstanding : CompletionTime(c) = next_time
    /\ \A id \in next_ids : \E c \in Outstanding :
         CompletionTime(c) = next_time /\ ssd_channels[c].io_request_id = id
    /\ spc = "off" \/ ~new_request_submitted =>
         /\ next_ids = {ssd_channels[c].io_request_id :
                          c \in NextChannels(latest_response_time)}
         /\ \A c \in NextChannels(latest_response_time) : CompletionTime(c) = next_time

\* The requests the queue's flow control counts.
Active == {r \in Reqs : stage[r] \in {"inflight", "completing", "ended"}}

CountOK ==
  /\ request_inflight = Cardinality(Active)
  /\ request_inflight <= disk_channels
  /\ IF spc \in {"off", "tail"}
       THEN stopped <=> request_inflight = disk_channels
       ELSE ~stopped /\ request_inflight < disk_channels

IInv ==
  /\ LockOK
  /\ PhaseOK
  /\ latest_response_time < now
  /\ TaskOK
  /\ IdsOK
  /\ MappingExact
  /\ EmulatorAgrees
  /\ NextOK
  /\ CountOK

-----------------------------------------------------------------------------
(* The driver and its emulator are a block device.  A request is served    *)
(* when it is submitted; a read's pages get the data when it completes.    *)
AbstractStage(s) == CASE s = "new" -> "new"
                      [] s \in {"queued", "dequeued"} -> "pending"
                      [] s \in {"inflight", "completing"} -> "served"
                      [] s \in {"ended", "done"} -> "ended"

SlotOf(r) == CHOOSE i \in UsedSlots : mapping[i].req = r

AbstractPage(r) ==
  IF attr[r].rw = READ /\ stage[r] = "inflight"
    THEN CopyFirst(attr[r].count, data[SlotOf(r)], bio[r])
    ELSE bio[r]

Device == INSTANCE BlockDevice WITH
            disk  <- storage,
            stage <- [r \in Reqs |-> AbstractStage(stage[r])],
            page  <- [r \in Reqs |-> AbstractPage(r)],
            Depth <- disk_channels

IsBlockDevice == Device!Spec
=============================================================================
