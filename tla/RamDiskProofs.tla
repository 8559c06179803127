---------------------------- MODULE RamDiskProofs ----------------------------
(* The RAM disk is correct for every number of channels, every set of      *)
(* requests, every response time and every command.                        *)
EXTENDS RamDisk, NatLemmas, FiniteSetTheorems

\* Every command is about a stretch of sectors of the disk that fits a buffer.
LEMMA CommandFits ==
  ASSUME NEW c \in Commands
  PROVE  /\ c.rw \in {0, 1} /\ c.sector \in Nat /\ c.count \in Counts /\ c.count \in Nat
         /\ \A k \in Offsets : k < c.count => c.sector + k \in Sectors
         /\ 0 .. c.count - 1 \subseteq Offsets
PROOF
  <1>1. c.rw \in {0, 1} /\ c.sector \in Nat /\ c.count \in Counts
    BY CommandsAssumption
  <1>2. c.sector .. c.sector + c.count - 1 \subseteq Sectors
    BY SectorsAssumption
  <1> QED BY <1>1, <1>2, MaxSectorsAssumption DEF Counts, Offsets

LEMMA ChanFinite == IsFiniteSet(Chan) /\ Cardinality(Chan) = disk_channels
PROOF BY FS_Interval, ChannelsAssumption DEF Chan

\* The scans of the array find what they look for.
LEMMA EarliestOf ==
  ASSUME NEW f \in [Chan -> Nat], NEW S \in SUBSET Chan, S # {}
  PROVE  \E c \in S : \A d \in S : f[c] < f[d] \/ (f[c] = f[d] /\ c <= d)
PROOF
  <1>1. S \in SUBSET Nat /\ \A c \in S : f[c] \in Nat
    BY DEF Chan
  <1> QED BY <1>1, FirstOfSmallest

\* The type of one channel.
ChannelType == [request_completion_time_kt : Nat,
                request_completed          : BOOLEAN,
                request                    : Reqs \cup {NoReq},
                request_rw                 : {READ, WRITE},
                request_last_sector        : Nat]

LEMMA ChannelsAre == Channels = [Chan -> ChannelType]
PROOF BY DEF Channels, ChannelType

LEMMA Times ==
  ASSUME TypeOK
  PROVE  \A c \in Chan : CompletionTime(c) \in Nat
PROOF BY DEF TypeOK, Channels, CompletionTime

LEMMA EarliestIn ==
  ASSUME TypeOK, NEW S \in SUBSET Chan, S # {}
  PROVE  \E c \in S : \A d \in S : Before(c, d)
PROOF
  <1> DEFINE f == [c \in Chan |-> CompletionTime(c)]
  <1>1. f \in [Chan -> Nat] /\ \A c \in S : f[c] = CompletionTime(c)
    BY Times
  <1> HIDE DEF f
  <1>2. PICK c \in S : \A d \in S : f[c] < f[d] \/ (f[c] = f[d] /\ c <= d)
    BY <1>1, EarliestOf
  <1> QED BY <1>1, <1>2 DEF Before

LEMMA OldestFreeFound ==
  ASSUME TypeOK, Free # {}
  PROVE  OldestFree \in Free /\ \A d \in Free : Before(OldestFree, d)
PROOF
  <1>1. \E c \in Free : \A d \in Free : Before(c, d)
    BY EarliestIn DEF Free
  <1> QED BY <1>1 DEF OldestFree

LEMMA EarliestBusyFound ==
  ASSUME TypeOK, Busy # {}
  PROVE  EarliestBusy \in Busy /\ \A d \in Busy : CompletionTime(EarliestBusy) <= CompletionTime(d)
PROOF
  <1>1. \E c \in Busy : \A d \in Busy : Before(c, d)
    BY EarliestIn DEF Busy
  <1>2. EarliestBusy \in Busy /\ \A d \in Busy : Before(EarliestBusy, d)
    BY <1>1 DEF EarliestBusy
  <1> QED BY <1>2, Times DEF Before, Busy

\* A completed channel is before every channel in use that is not past.
LEMMA EarliestPastFound ==
  ASSUME TypeOK, Past # {}
  PROVE  /\ EarliestPast \in Busy
         /\ CompletionTime(EarliestPast) < now
         /\ \A d \in Busy : Before(EarliestPast, d)
PROOF
  <1>1. \E c \in Past : \A d \in Past : Before(c, d)
    BY EarliestIn DEF Past, Busy
  <1>2. EarliestPast \in Past /\ \A d \in Past : Before(EarliestPast, d)
    BY <1>1 DEF EarliestPast
  <1>3. ASSUME NEW d \in Busy, d \notin Past PROVE Before(EarliestPast, d)
    BY <1>2, <1>3, Times DEF TypeOK, Past, Busy, Before
  <1> QED BY <1>2, <1>3 DEF Past

-----------------------------------------------------------------------------
(* Type correctness.                                                       *)
LEMMA InitTypeOK == Init => TypeOK
PROOF
  <1> SUFFICES ASSUME Init PROVE TypeOK
    OBVIOUS
  <1>1. channels \in Channels
    <2> DEFINE empty == [request_completion_time_kt |-> 0, request_completed |-> TRUE,
                         request |-> NoReq, request_rw |-> 0, request_last_sector |-> 0]
    <2>1. empty \in ChannelType
      BY DEF ChannelType, READ, WRITE
    <2>2. channels = [c \in Chan |-> empty]
      BY DEF Init
    <2> HIDE DEF empty
    <2> QED BY <2>1, <2>2, ChannelsAre
  <1>2. bio \in [Reqs -> [Offsets -> Values]] /\ storage \in [Sectors -> Values]
    BY DEF Init, Values
  <1>3. stage \in [Reqs -> Stages]
    BY DEF Init, Stages
  <1>4. now \in Nat /\ request_inflight \in Int /\ next_time \in Nat /\ sleep_until \in Nat
    BY DEF Init
  <1>5. /\ stopped \in BOOLEAN /\ next_response_to_reply \in BOOLEAN
        /\ need_to_wake_up \in BOOLEAN /\ timerFired \in BOOLEAN
    BY DEF Init
  <1> QED BY <1>1, <1>2, <1>3, <1>4, <1>5 DEF Init, TypeOK

\* Reading the sectors of a request fills its pages with values.
LEMMA ReadTyped ==
  ASSUME TypeOK, NEW r, Read(r)
  PROVE  bio' \in [Reqs -> [Offsets -> Values]]
PROOF
  <1>1. CASE r \in Reqs
    <2> DEFINE got == [k \in Offsets |-> IF k < attr[r].count THEN storage[attr[r].sector + k]
                                         ELSE bio[r][k]]
    <2>1. attr[r] \in Commands
      BY <1>1 DEF TypeOK
    <2>2. got \in [Offsets -> Values]
      BY <1>1, <2>1, CommandFits DEF TypeOK
    <2>3. bio' = [bio EXCEPT ![r] = got]
      BY DEF Read
    <2> HIDE DEF got
    <2> QED BY <2>2, <2>3 DEF TypeOK
  <1>2. CASE r \notin Reqs
    BY <1>2 DEF Read, TypeOK
  <1> QED BY <1>1, <1>2

LEMMA CompleteTypeOK ==
  ASSUME TypeOK, TaskComplete
  PROVE  TypeOK'
PROOF
  <1> USE DEF TaskComplete, Complete
  <1>1. EarliestPast \in Chan
    BY EarliestPastFound DEF Busy
  <1>2. bio' \in [Reqs -> [Offsets -> Values]]
    <2>1. CASE attr[channels[EarliestPast].request].rw = READ
      BY <2>1, ReadTyped
    <2>2. CASE attr[channels[EarliestPast].request].rw # READ
      BY <2>2 DEF TypeOK
    <2> QED BY <2>1, <2>2
  <1>3. channels' \in Channels
    BY <1>1 DEF TypeOK, Channels
  <1>4. stage' \in [Reqs -> Stages]
    BY DEF TypeOK, Stages
  <1> QED BY <1>2, <1>3, <1>4 DEF TypeOK, nextVars, stratVars, sleepVars

LEMMA SubmitTypeOK ==
  ASSUME TypeOK, NEW r \in Reqs, StrategySubmit(r)
  PROVE  TypeOK'
PROOF
  <1>1. OldestFree \in Chan
    BY OldestFreeFound DEF StrategySubmit, StrategyWouldSpin, Queued, Free
  <1>2. attr[r] \in Commands /\ now \in Nat
    BY DEF TypeOK
  <1>3. now + Latency[IsSequential(r), attr[r].rw, attr[r].count] \in Nat
    <2> DEFINE delay == Latency[IsSequential(r), attr[r].rw, attr[r].count]
    <2>1. attr[r].rw \in {0, 1} /\ attr[r].count \in Counts
      BY <1>2, CommandFits
    <2>2. delay \in Nat
      BY <2>1, LatencyAssumption DEF IsSequential
    <2> HIDE DEF delay
    <2>3. now + delay \in Nat
      BY <1>2, <2>2
    <2> QED BY <2>3 DEF delay
  <1>4. Submitted(r) \in ChannelType
    <2>1. attr[r].rw \in {READ, WRITE} /\ attr[r].sector + attr[r].count \in Nat
      BY <1>2, CommandFits DEF READ, WRITE
    <2> QED BY <1>3, <2>1 DEF Submitted, ChannelType
  <1>5. channels' \in Channels
    <2>1. channels' = [channels EXCEPT ![OldestFree] = Submitted(r)]
      BY DEF StrategySubmit
    <2>2. channels \in [Chan -> ChannelType]
      BY ChannelsAre DEF TypeOK
    <2> QED BY <1>1, <1>4, <2>1, <2>2, ChannelsAre
  <1>6. storage' \in [Sectors -> Values]
    <2>1. CASE attr[r].rw = WRITE
      <3>1. \A x \in 0 .. attr[r].count - 1 : bio[r][x] \in Values
        BY <1>2, CommandFits DEF TypeOK
      <3>2. storage' = [s \in Sectors |-> IF s - attr[r].sector \in 0 .. attr[r].count - 1
                                            THEN bio[r][s - attr[r].sector] ELSE storage[s]]
        BY <2>1 DEF StrategySubmit, Write
      <3> QED BY <3>1, <3>2 DEF TypeOK
    <2>2. CASE attr[r].rw # WRITE
      BY <2>2 DEF StrategySubmit, TypeOK
    <2> QED BY <2>1, <2>2
  <1>7. CompletionTime(EarliestBusy)' \in Nat
    <2>1. OldestFree \in Busy'
      BY <1>1 DEF StrategySubmit, TypeOK, Channels, Submitted, Busy, Free
    <2> DEFINE f == [c \in Chan |-> CompletionTime(c)']
    <2>2. f \in [Chan -> Nat] /\ Busy' \in SUBSET Chan /\ Busy' # {}
      BY <1>5, <2>1 DEF Channels, CompletionTime, Busy
    <2>3. \A c \in Busy' : f[c] = CompletionTime(c)'
      BY DEF Busy
    <2> HIDE DEF f
    <2>4. PICK c \in Busy' : \A d \in Busy' : f[c] < f[d] \/ (f[c] = f[d] /\ c <= d)
      BY <2>2, EarliestOf
    <2>5. EarliestBusy' \in Busy'
      BY <2>3, <2>4 DEF EarliestBusy, Before
    <2> QED BY <2>2, <2>3, <2>5
  <1>8. /\ next_response_to_reply' \in BOOLEAN /\ next_time' \in Nat
        /\ need_to_wake_up' \in BOOLEAN
    <2> DEFINE time == CompletionTime(EarliestBusy)'
    <2>1. LearnNext(time)
      BY DEF StrategySubmit
    <2> HIDE DEF time
    <2>2. CASE ~next_response_to_reply \/ time < next_time
      BY <1>7, <2>1, <2>2 DEF LearnNext, time
    <2>3. CASE ~(~next_response_to_reply \/ time < next_time)
      BY <2>1, <2>3 DEF LearnNext, TypeOK, nextVars
    <2> QED BY <2>2, <2>3
  <1>9. stopped' \in BOOLEAN /\ request_inflight' \in Int /\ spc' \in {"tail", "loop"}
    BY DEF StrategySubmit, StopsQueue, TypeOK
  <1>10. stage' \in [Reqs -> Stages]
    BY DEF StrategySubmit, TypeOK, Stages
  <1> QED
    BY <1>5, <1>6, <1>8, <1>9, <1>10 DEF StrategySubmit, TypeOK, taskVars, sleepVars

LEMMA NextTypeOK == TypeOK /\ [Next]_vars => TypeOK'
PROOF
  <1> SUFFICES ASSUME TypeOK, [Next]_vars PROVE TypeOK'
    OBVIOUS
  <1> USE DEF TypeOK, blockVars, nextVars, stratVars, sleepVars, taskVars
  <1>1. CASE Tick
    BY <1>1 DEF Tick
  <1>2. CASE TimerExpire
    BY <1>2 DEF TimerExpire
  <1>3. CASE BlockLayer
    <2>1. CASE \E r \in Reqs : Issue(r)
      BY <2>1 DEF Issue, Stages
    <2>2. CASE RunQueue
      BY <2>2 DEF RunQueue, EnterStrategy
    <2> QED BY <1>3, <2>1, <2>2 DEF BlockLayer
  <1>4. CASE Strategy
    <2>1. CASE \E r \in Reqs : StrategySubmit(r)
      BY <2>1, SubmitTypeOK
    <2>2. CASE \E r \in Reqs : StrategySkip(r)
      BY <2>2 DEF StrategySkip, Stages
    <2>3. CASE StrategyEmpty
      BY <2>3 DEF StrategyEmpty
    <2>4. CASE StrategyTail
      BY <2>4 DEF StrategyTail, wake_up_process
    <2> QED BY <1>4, <2>1, <2>2, <2>3, <2>4 DEF Strategy
  <1>5. CASE Task
    <2>1. CASE TaskStart
      BY <2>1 DEF TaskStart, SleepIdle, SleepUntil
    <2>2. CASE TaskIdleWake
      BY <2>2 DEF TaskIdleWake, SleepUntil
    <2>3. CASE TaskReturn
      BY <2>3 DEF TaskReturn
    <2>4. CASE TaskRelock
      BY <2>4 DEF TaskRelock, SleepUntil
    <2>5. CASE TaskComplete
      BY <2>5, CompleteTypeOK
    <2>6. CASE TaskUnsetTrue
      BY <2>6 DEF TaskUnsetTrue
    <2>7. CASE TaskFindNext
      <3>1. next_response_to_reply' \in BOOLEAN
        BY <2>7 DEF TaskFindNext
      <3>2. CASE Busy # {}
        <4>1. CompletionTime(EarliestBusy) \in Nat
          BY <3>2, EarliestBusyFound, Times DEF Busy
        <4> QED BY <2>7, <3>1, <3>2, <4>1 DEF TaskFindNext, SleepUntil
      <3>3. CASE Busy = {}
        BY <2>7, <3>1, <3>3 DEF TaskFindNext, SleepIdle
      <3> QED BY <3>2, <3>3
    <2> QED BY <1>5, <2>1, <2>2, <2>3, <2>4, <2>5, <2>6, <2>7 DEF Task
  <1>6. ASSUME NEW r \in Reqs, EndRequest(r) PROVE TypeOK'
    BY <1>6 DEF EndRequest, Stages
  <1>7. ASSUME NEW r \in Reqs, SoftirqDone(r) PROVE TypeOK'
    <2>1. /\ stopped' \in BOOLEAN /\ need_to_wake_up' \in BOOLEAN
          /\ lock' \in {"none", "strategy", "task"} /\ spc' \in {"off", "loop", "tail", "ending"}
      BY <1>7 DEF SoftirqDone, EnterStrategy
    <2> QED BY <1>7, <2>1 DEF SoftirqDone, Stages
  <1>8. CASE Module
    BY <1>8 DEF Module, AddDisk, Exit, KthreadStop, Unloaded, wake_up_process
  <1>9. CASE UNCHANGED vars
    BY <1>9 DEF vars
  <1> QED
    BY <1>1, <1>2, <1>3, <1>4, <1>5, <1>6, <1>7, <1>8, <1>9 DEF Next, Softirq, Finished

\* Every variable keeps its type, whatever the actors do.
THEOREM TypeCorrect == Spec => []TypeOK
PROOF BY InitTypeOK, NextTypeOK, PTL DEF Spec

-----------------------------------------------------------------------------
(* Counting: while the strategy goes on, a channel is free.                *)
LEMMA ActiveFinite ==
  /\ IsFiniteSet(Active)
  /\ Cardinality(Active) \in Nat
PROOF
  <1>1. Active \in SUBSET Reqs
    BY DEF Active
  <1> QED BY <1>1, ReqsAssumption, FS_Subset, FS_CardinalityType

LEMMA ChannelLeft ==
  ASSUME TypeOK, ChannelsOK, CountOK, spc = "loop"
  PROVE  Free # {}
PROOF
  <1> SUFFICES ASSUME Free = {} PROVE FALSE
    OBVIOUS
  <1> DEFINE holds == [c \in Chan |-> channels[c].request]
  <1>1. Busy = Chan
    BY DEF Busy
  <1>2. holds \in [Chan -> Active]
    BY <1>1 DEF ChannelsOK, Active
  <1>3. Cardinality(Active) < Cardinality(Chan)
    BY ChanFinite DEF CountOK
  <1>4. PICK c, d \in Chan : c # d /\ holds[c] = holds[d]
    <2> HIDE DEF holds
    <2> QED BY <1>2, <1>3, ActiveFinite, ChanFinite, FS_PigeonHole
  <1> QED BY <1>1, <1>4 DEF ChannelsOK

-----------------------------------------------------------------------------
(* What most steps leave alone: no channel changes, nor who is in flight.  *)
LEMMA BooksKept ==
  ASSUME TypeOK, ChannelsOK, OrderOK, NextOK,
         UNCHANGED <<channels, nextVars>>,
         now' \in Nat, now' >= now,
         taskPc' # "again" => taskPc # "again",
         \A r \in Reqs : stage'[r] = "inflight" <=> stage[r] = "inflight"
  PROVE  ChannelsOK' /\ OrderOK' /\ NextOK'
PROOF
  <1>1. Free' = Free /\ Busy' = Busy /\ \A c : CompletionTime(c)' = CompletionTime(c)
    BY DEF Free, Busy, CompletionTime
  <1>2. ChannelsOK'
    BY <1>1 DEF ChannelsOK
  <1>3. OrderOK'
    BY <1>1, Times DEF OrderOK, Before, Free, TypeOK
  <1>4. NextOK'
    BY <1>1 DEF NextOK, nextVars
  <1> QED BY <1>2, <1>3, <1>4

\* Nor how many requests are active.
LEMMA CountKept ==
  ASSUME CountOK, UNCHANGED <<request_inflight, stopped>>,
         spc' = spc,
         \A r \in Reqs : (stage'[r] \in {"inflight", "completing", "ended"})
                           <=> (stage[r] \in {"inflight", "completing", "ended"})
  PROVE  CountOK'
PROOF
  <1>1. Active' = Active
    BY DEF Active
  <1> QED BY <1>1 DEF CountOK

-----------------------------------------------------------------------------
(* Each action keeps the invariant.                                        *)
LEMMA InitInv == Init => IInv
PROOF
  <1> SUFFICES ASSUME Init PROVE IInv
    OBVIOUS
  <1>1. Free = Chan /\ Busy = {} /\ Active = {}
    BY DEF Init, Free, Busy, Active
  <1>2. LockOK /\ PhaseOK /\ TaskOK
    BY DEF Init, LockOK, PhaseOK, TaskOK, WakePending
  <1>3. ChannelsOK /\ NextOK
    BY <1>1 DEF Init, ChannelsOK, NextOK
  <1>4. OrderOK
    BY <1>1 DEF Init, OrderOK, CompletionTime
  <1>5. CountOK
    BY <1>1, FS_EmptySet, ChannelsAssumption DEF Init, CountOK
  <1> QED BY <1>2, <1>3, <1>4, <1>5 DEF IInv

\* The clock, the timer, and the steps of loading and unloading.
LEMMA TickInv ==
  ASSUME TypeOK, IInv, Tick
  PROVE  IInv'
PROOF
  <1> USE DEF Tick, blockVars, stratVars, sleepVars, taskVars
  <1>1. ChannelsOK' /\ OrderOK' /\ NextOK'
    BY BooksKept DEF TypeOK, IInv
  <1>2. CountOK'
    BY CountKept DEF IInv
  <1>3. LockOK'
    BY DEF TypeOK, IInv, LockOK
  <1>4. PhaseOK'
    BY DEF TypeOK, IInv, PhaseOK, WakePending, nextVars
  <1>5. TaskOK'
    BY DEF TypeOK, IInv, TaskOK, WakePending, PhaseOK, nextVars
  <1> QED BY <1>1, <1>2, <1>3, <1>4, <1>5 DEF IInv

LEMMA TimerExpireInv ==
  ASSUME TypeOK, IInv, TimerExpire
  PROVE  IInv'
PROOF
  <1> USE DEF TimerExpire, blockVars, stratVars, sleepVars, taskVars
  <1>1. ChannelsOK' /\ OrderOK' /\ NextOK'
    BY BooksKept DEF TypeOK, IInv
  <1>2. CountOK'
    BY CountKept DEF IInv
  <1>3. LockOK'
    BY DEF TypeOK, IInv, LockOK
  <1>4. PhaseOK'
    BY DEF TypeOK, IInv, PhaseOK, WakePending, nextVars
  <1>5. TaskOK'
    BY DEF TypeOK, IInv, TaskOK, WakePending, PhaseOK, nextVars
  <1> QED BY <1>1, <1>2, <1>3, <1>4, <1>5 DEF IInv

LEMMA AddDiskInv ==
  ASSUME TypeOK, IInv, AddDisk
  PROVE  IInv'
PROOF
  <1> USE DEF AddDisk, blockVars, stratVars, sleepVars, taskVars
  <1>1. ChannelsOK' /\ OrderOK' /\ NextOK'
    BY BooksKept DEF TypeOK, IInv
  <1>2. CountOK'
    BY CountKept DEF IInv
  <1>3. LockOK'
    BY DEF TypeOK, IInv, LockOK
  <1>4. PhaseOK'
    BY DEF TypeOK, IInv, PhaseOK, WakePending, nextVars
  <1>5. TaskOK'
    BY DEF TypeOK, IInv, TaskOK, WakePending, PhaseOK, nextVars
  <1> QED BY <1>1, <1>2, <1>3, <1>4, <1>5 DEF IInv

LEMMA KthreadStopInv ==
  ASSUME TypeOK, IInv, KthreadStop
  PROVE  IInv'
PROOF
  <1> USE DEF KthreadStop, wake_up_process, blockVars, stratVars, sleepVars, taskVars
  <1>1. ChannelsOK' /\ OrderOK' /\ NextOK'
    BY BooksKept DEF TypeOK, IInv
  <1>2. CountOK'
    BY CountKept DEF IInv
  <1>3. LockOK'
    BY DEF TypeOK, IInv, LockOK
  <1>4. PhaseOK'
    BY DEF TypeOK, IInv, PhaseOK, WakePending, nextVars
  <1>5. TaskOK'
    BY DEF TypeOK, IInv, TaskOK, WakePending, PhaseOK, nextVars
  <1> QED BY <1>1, <1>2, <1>3, <1>4, <1>5 DEF IInv

LEMMA UnloadedInv ==
  ASSUME TypeOK, IInv, Unloaded
  PROVE  IInv'
PROOF
  <1> USE DEF Unloaded, blockVars, stratVars, sleepVars, taskVars
  <1>1. ChannelsOK' /\ OrderOK' /\ NextOK'
    BY BooksKept DEF TypeOK, IInv
  <1>2. CountOK'
    BY CountKept DEF IInv
  <1>3. LockOK'
    BY DEF TypeOK, IInv, LockOK
  <1>4. PhaseOK'
    BY DEF TypeOK, IInv, PhaseOK, WakePending, nextVars
  <1>5. TaskOK'
    BY DEF TypeOK, IInv, TaskOK, WakePending, PhaseOK, nextVars
  <1> QED BY <1>1, <1>2, <1>3, <1>4, <1>5 DEF IInv

\* Nothing is left to wait for once every request has ended.
LEMMA ExitInv ==
  ASSUME TypeOK, IInv, Exit
  PROVE  IInv'
PROOF
  <1> USE DEF Exit, blockVars, stratVars, sleepVars, taskVars
  <1>1. ChannelsOK' /\ OrderOK' /\ NextOK'
    BY BooksKept DEF TypeOK, IInv
  <1>2. CountOK'
    BY CountKept DEF IInv
  <1>3. LockOK'
    BY DEF TypeOK, IInv, LockOK
  <1>4. Busy = {}
    BY DEF IInv, ChannelsOK
  <1>5. taskPc \notin {"first", "again"} /\ spc = "off"
    BY DEF IInv, LockOK
  <1>6. ~next_response_to_reply
    BY <1>4, <1>5 DEF IInv, NextOK
  <1>7. taskPc # "relock" /\ taskPc # "start"
    BY <1>6 DEF IInv, TaskOK, PhaseOK
  <1>8. PhaseOK'
    BY <1>5, <1>6, <1>7 DEF IInv, PhaseOK, WakePending, nextVars
  <1>9. TaskOK'
    BY DEF TypeOK, IInv, TaskOK, WakePending, nextVars
  <1> QED BY <1>1, <1>2, <1>3, <1>8, <1>9 DEF IInv

\* The block layer and the softirq.
LEMMA IssueInv ==
  ASSUME TypeOK, IInv, NEW r \in Reqs, Issue(r)
  PROVE  IInv'
PROOF
  <1> USE DEF Issue, blockVars, stratVars, sleepVars, taskVars
  <1>1. ChannelsOK' /\ OrderOK' /\ NextOK'
    BY BooksKept DEF TypeOK, IInv
  <1>2. CountOK'
    BY CountKept DEF IInv
  <1>3. LockOK'
    BY DEF TypeOK, IInv, LockOK
  <1>4. PhaseOK'
    BY DEF TypeOK, IInv, PhaseOK, WakePending, nextVars
  <1>5. TaskOK'
    BY DEF TypeOK, IInv, TaskOK, WakePending, PhaseOK, nextVars
  <1> QED BY <1>1, <1>2, <1>3, <1>4, <1>5 DEF IInv

LEMMA EndRequestInv ==
  ASSUME TypeOK, IInv, NEW r \in Reqs, EndRequest(r)
  PROVE  IInv'
PROOF
  <1> USE DEF EndRequest, blockVars, stratVars, sleepVars, taskVars
  <1>1. ChannelsOK' /\ OrderOK' /\ NextOK'
    BY BooksKept DEF TypeOK, IInv
  <1>2. CountOK'
    BY CountKept DEF IInv
  <1>3. LockOK'
    BY DEF TypeOK, IInv, LockOK
  <1>4. PhaseOK'
    BY DEF TypeOK, IInv, PhaseOK, WakePending, nextVars
  <1>5. TaskOK'
    BY DEF TypeOK, IInv, TaskOK, WakePending, PhaseOK, nextVars
  <1> QED BY <1>1, <1>2, <1>3, <1>4, <1>5 DEF IInv

\* The task goes to sleep and wakes.
LEMMA TaskStartInv ==
  ASSUME TypeOK, IInv, TaskStart
  PROVE  IInv'
PROOF
  <1> USE DEF TaskStart, SleepIdle, SleepUntil, blockVars, stratVars, sleepVars, taskVars
  <1>1. ChannelsOK' /\ OrderOK' /\ NextOK'
    BY BooksKept DEF TypeOK, IInv
  <1>2. CountOK'
    BY CountKept DEF IInv
  <1>3. LockOK'
    BY DEF TypeOK, IInv, LockOK
  <1>4. PhaseOK'
    BY DEF TypeOK, IInv, PhaseOK, WakePending, nextVars
  <1>5. TaskOK'
    BY DEF TypeOK, IInv, TaskOK, WakePending, PhaseOK, nextVars
  <1> QED BY <1>1, <1>2, <1>3, <1>4, <1>5 DEF IInv

LEMMA TaskIdleWakeInv ==
  ASSUME TypeOK, IInv, TaskIdleWake
  PROVE  IInv'
PROOF
  <1> USE DEF TaskIdleWake, SleepUntil, blockVars, stratVars, sleepVars, taskVars
  <1>1. ChannelsOK' /\ OrderOK' /\ NextOK'
    BY BooksKept DEF TypeOK, IInv
  <1>2. CountOK'
    BY CountKept DEF IInv
  <1>3. LockOK'
    BY DEF TypeOK, IInv, LockOK
  <1>4. PhaseOK'
    BY DEF TypeOK, IInv, PhaseOK, WakePending, nextVars
  <1>5. TaskOK'
    BY DEF TypeOK, IInv, TaskOK, WakePending, PhaseOK, nextVars
  <1> QED BY <1>1, <1>2, <1>3, <1>4, <1>5 DEF IInv

LEMMA TaskReturnInv ==
  ASSUME TypeOK, IInv, TaskReturn
  PROVE  IInv'
PROOF
  <1> USE DEF TaskReturn, blockVars, stratVars, sleepVars, taskVars
  <1>1. ChannelsOK' /\ OrderOK' /\ NextOK'
    BY BooksKept DEF TypeOK, IInv
  <1>2. CountOK'
    BY CountKept DEF IInv
  <1>3. LockOK'
    BY DEF TypeOK, IInv, LockOK
  <1>4. PhaseOK'
    BY DEF TypeOK, IInv, PhaseOK, TaskOK, WakePending, nextVars
  <1>5. TaskOK'
    BY DEF TypeOK, IInv, TaskOK, WakePending, PhaseOK, nextVars
  <1> QED BY <1>1, <1>2, <1>3, <1>4, <1>5 DEF IInv

LEMMA TaskRelockInv ==
  ASSUME TypeOK, IInv, TaskRelock
  PROVE  IInv'
PROOF
  <1> USE DEF TaskRelock, SleepUntil, blockVars, stratVars, sleepVars, taskVars
  <1>1. ChannelsOK' /\ OrderOK' /\ NextOK'
    BY BooksKept DEF TypeOK, IInv
  <1>2. CountOK'
    BY CountKept DEF IInv
  <1>3. LockOK'
    BY DEF TypeOK, IInv, LockOK
  <1>4. PhaseOK'
    BY DEF TypeOK, IInv, PhaseOK, WakePending, nextVars
  <1>5. TaskOK'
    BY DEF TypeOK, IInv, TaskOK, WakePending, PhaseOK, nextVars
  <1> QED BY <1>1, <1>2, <1>3, <1>4, <1>5 DEF IInv

LEMMA TaskUnsetTrueInv ==
  ASSUME TypeOK, IInv, TaskUnsetTrue
  PROVE  IInv'
PROOF
  <1> USE DEF TaskUnsetTrue, Scanning, blockVars, stratVars, sleepVars, taskVars
  <1>1. ChannelsOK' /\ OrderOK' /\ NextOK'
    BY BooksKept DEF TypeOK, IInv
  <1>2. CountOK'
    BY CountKept DEF IInv
  <1>3. LockOK'
    BY DEF TypeOK, IInv, LockOK
  <1>4. PhaseOK'
    BY DEF TypeOK, IInv, PhaseOK, WakePending, nextVars
  <1>5. TaskOK'
    BY DEF TypeOK, IInv, TaskOK, WakePending, PhaseOK, nextVars
  <1> QED BY <1>1, <1>2, <1>3, <1>4, <1>5 DEF IInv

LEMMA StrategySkipInv ==
  ASSUME TypeOK, IInv, NEW r \in Reqs, StrategySkip(r)
  PROVE  IInv'
PROOF
  <1> USE DEF StrategySkip, blockVars, stratVars, sleepVars, taskVars
  <1>1. ChannelsOK' /\ OrderOK' /\ NextOK'
    BY BooksKept DEF TypeOK, IInv
  <1>2. CountOK'
    <2>1. Active' = Active
      BY DEF TypeOK, Active
    <2> QED BY <2>1 DEF IInv, CountOK
  <1>3. LockOK'
    BY DEF TypeOK, IInv, LockOK
  <1>4. PhaseOK'
    BY DEF TypeOK, IInv, PhaseOK, WakePending, nextVars
  <1>5. TaskOK'
    BY DEF TypeOK, IInv, TaskOK, WakePending, PhaseOK, nextVars
  <1> QED BY <1>1, <1>2, <1>3, <1>4, <1>5 DEF IInv

LEMMA StrategyEmptyInv ==
  ASSUME TypeOK, IInv, StrategyEmpty
  PROVE  IInv'
PROOF
  <1> USE DEF StrategyEmpty, blockVars, stratVars, sleepVars, taskVars
  <1>1. ChannelsOK' /\ OrderOK' /\ NextOK'
    BY BooksKept DEF TypeOK, IInv
  <1>2. CountOK'
    <2>1. Active' = Active
      BY DEF Active
    <2> QED BY <2>1, ChannelsAssumption DEF TypeOK, IInv, CountOK
  <1>3. LockOK'
    BY DEF TypeOK, IInv, LockOK
  <1>4. PhaseOK'
    BY DEF TypeOK, IInv, PhaseOK, WakePending, nextVars
  <1>5. TaskOK'
    BY DEF TypeOK, IInv, TaskOK, WakePending, PhaseOK, nextVars
  <1> QED BY <1>1, <1>2, <1>3, <1>4, <1>5 DEF IInv

\* The queue runs only when it is not stopped, that is, when a channel is left.
LEMMA RunQueueInv ==
  ASSUME TypeOK, IInv, RunQueue
  PROVE  IInv'
PROOF
  <1> USE DEF RunQueue, EnterStrategy, blockVars, stratVars, sleepVars, taskVars
  <1>1. ChannelsOK' /\ OrderOK' /\ NextOK'
    BY BooksKept DEF TypeOK, IInv
  <1>2. spc = "off"
    BY DEF IInv, LockOK
  <1>3. CountOK'
    <2>1. Active' = Active
      BY DEF Active
    <2> QED BY <1>2, <2>1, ChannelsAssumption DEF TypeOK, IInv, CountOK
  <1>4. LockOK'
    BY DEF TypeOK, IInv, LockOK
  <1>5. PhaseOK'
    BY DEF TypeOK, IInv, PhaseOK, WakePending, nextVars
  <1>6. TaskOK'
    BY <1>2 DEF TypeOK, IInv, TaskOK, WakePending, PhaseOK, nextVars
  <1> QED BY <1>1, <1>3, <1>4, <1>5, <1>6 DEF IInv

\* The softirq makes room for one more request and starts the queue.
LEMMA SoftirqDoneInv ==
  ASSUME TypeOK, IInv, NEW r \in Reqs, SoftirqDone(r)
  PROVE  IInv'
PROOF
  <1> USE DEF SoftirqDone, EnterStrategy, stratVars, sleepVars, taskVars
  <1>1. /\ stage[r] = "ended" /\ stage'[r] = "done"
        /\ \A q \in Reqs : q # r => stage'[q] = stage[q]
    BY DEF TypeOK
  <1>2. spc = "off" /\ taskPc \notin {"first", "again"}
    BY DEF IInv, LockOK
  <1>3. ChannelsOK' /\ OrderOK' /\ NextOK'
    BY <1>1, BooksKept DEF TypeOK, IInv
  <1>4. spc' \in {"off", "loop"} /\ ~stopped' /\ (spc' # "off" => ~need_to_wake_up')
    <2>1. CASE stopped
      BY <2>1
    <2>2. CASE ~stopped
      BY <1>2, <2>2
    <2> QED BY <2>1, <2>2
  <1>5. CountOK'
    <2>1. Active' = Active \ {r} /\ r \in Active
      BY <1>1 DEF Active
    <2>2. Cardinality(Active') = Cardinality(Active) - 1
      BY <2>1, ActiveFinite, FS_RemoveElement
    <2>3. request_inflight' = Cardinality(Active') /\ request_inflight' < disk_channels
      BY <1>2, <2>2, ActiveFinite, ChannelsAssumption DEF IInv, CountOK
    <2>4. request_inflight' \in Int /\ disk_channels \in Nat
      BY ChannelsAssumption DEF TypeOK
    <2> QED BY <1>4, <2>3, <2>4 DEF CountOK
  <1>6. taskPc # "start"
    BY <1>1 DEF IInv, PhaseOK
  <1>7. LockOK'
    <2>1. CASE stopped
      BY <1>2, <2>1 DEF IInv, LockOK
    <2>2. CASE ~stopped
      BY <2>2 DEF IInv, LockOK
    <2> QED BY <2>1, <2>2
  <1>8. PhaseOK'
    BY <1>1, <1>4, <1>6 DEF IInv, PhaseOK, WakePending, nextVars
  <1>9. TaskOK'
    BY <1>2, <1>4 DEF IInv, TaskOK, WakePending, nextVars
  <1> QED BY <1>3, <1>5, <1>7, <1>8, <1>9 DEF IInv

\* Leaving the strategy, the task is woken if the next completion has changed.
LEMMA StrategyTailInv ==
  ASSUME TypeOK, IInv, StrategyTail
  PROVE  IInv'
PROOF
  <1> USE DEF StrategyTail, wake_up_process, blockVars, sleepVars, taskVars
  <1>1. ChannelsOK' /\ OrderOK' /\ NextOK'
    BY BooksKept DEF TypeOK, IInv
  <1>2. CountOK'
    <2>1. Active' = Active
      BY DEF Active
    <2> QED BY <2>1 DEF TypeOK, IInv, CountOK
  <1>3. LockOK' /\ PhaseOK'
    BY DEF TypeOK, IInv, LockOK, PhaseOK, WakePending, nextVars
  <1>4. TaskOK'
    <2>1. CASE need_to_wake_up
      BY <2>1 DEF IInv, TaskOK, WakePending, nextVars
    <2>2. CASE ~need_to_wake_up
      BY <2>2 DEF IInv, TaskOK, WakePending, nextVars
    <2> QED BY <2>1, <2>2
  <1> QED BY <1>1, <1>2, <1>3, <1>4 DEF IInv

\* A completion leaves in the channel the latest of the times that have passed.
LEMMA TaskCompleteInv ==
  ASSUME TypeOK, IInv, TaskComplete
  PROVE  IInv'
PROOF
  <1> DEFINE c == EarliestPast
             r == channels[c].request
  <1>1. /\ c \in Busy /\ c \in Chan
        /\ CompletionTime(c) < now
        /\ \A d \in Busy : Before(c, d)
    BY EarliestPastFound DEF TaskComplete, Busy
  <1>2. /\ channels' = [channels EXCEPT ![c].request_completed = TRUE]
        /\ stage' = [stage EXCEPT ![r] = "completing"]
    BY DEF TaskComplete, Complete
  <1> HIDE DEF c
  <1>3. /\ \A d \in Chan : /\ CompletionTime(d)' = CompletionTime(d)
                           /\ channels'[d].request = channels[d].request
        /\ Free' = Free \cup {c}
        /\ Busy' = Busy \ {c}
    BY <1>1, <1>2 DEF TypeOK, Channels, CompletionTime, Free, Busy
  <1>4. r \in Reqs /\ stage[r] = "inflight"
    BY <1>1 DEF IInv, ChannelsOK
  <1> HIDE DEF r
  <1>5. stage'[r] = "completing" /\ \A q \in Reqs : q # r => stage'[q] = stage[q]
    BY <1>2, <1>4 DEF TypeOK
  <1>6. /\ UNCHANGED <<now, lock, request_inflight, stopped, nextVars, stratVars, sleepVars, phase>>
        /\ taskPc' = "again" /\ taskPc \in {"first", "again"}
    BY DEF TaskComplete, Scanning
  <1>7. ChannelsOK'
    <2>1. \A d \in Busy' : channels'[d].request \in Reqs /\ channels'[d].request # r
      BY <1>1, <1>3 DEF IInv, ChannelsOK, Busy, r
    <2> QED BY <1>1, <1>3, <1>5, <2>1 DEF IInv, ChannelsOK, Busy, r
  <1>8. OrderOK'
    <2>1. now \in Nat /\ Busy \subseteq Chan /\ Free \subseteq Chan
      BY DEF TypeOK, Busy, Free
    <2> QED BY <1>1, <1>3, <1>6, <2>1 DEF IInv, OrderOK, Before
  <1>9. NextOK' /\ LockOK'
    BY <1>6 DEF IInv, NextOK, LockOK, stratVars, sleepVars
  <1>10. CountOK'
    <2>1. Active' = Active
      BY <1>4, <1>5 DEF Active
    <2> QED BY <1>6, <2>1 DEF IInv, CountOK, stratVars
  <1>11. PhaseOK'
    BY <1>5, <1>6 DEF IInv, PhaseOK, LockOK, WakePending, stratVars, nextVars
  <1>12. TaskOK'
    BY <1>6 DEF IInv, TaskOK, WakePending, stratVars, nextVars
  <1> QED BY <1>7, <1>8, <1>9, <1>10, <1>11, <1>12 DEF IInv

\* With no completion past, the task learns what to sleep for.
LEMMA TaskFindNextInv ==
  ASSUME TypeOK, IInv, TaskFindNext
  PROVE  IInv'
PROOF
  <1> USE DEF TaskFindNext, blockVars, stratVars
  <1>1. /\ Free' = Free /\ Busy' = Busy /\ \A c : CompletionTime(c)' = CompletionTime(c)
        /\ spc = "off" /\ taskPc \in {"first", "again"}
    BY DEF Free, Busy, CompletionTime, Scanning, IInv, LockOK
  <1>2. ChannelsOK' /\ OrderOK'
    BY <1>1 DEF IInv, ChannelsOK, OrderOK, Before
  <1>3. CountOK'
    BY CountKept DEF IInv
  <1>4. phase \notin {"stopping", "joining", "unloaded"}
    BY <1>1 DEF IInv, PhaseOK
  <1>5. CASE Busy # {}
    <2>1. /\ EarliestBusy \in Busy
          /\ \A d \in Busy : CompletionTime(EarliestBusy) <= CompletionTime(d)
      BY <1>5, EarliestBusyFound
    <2>2. CompletionTime(EarliestBusy) \in Nat
      BY <2>1, Times DEF Busy
    <2>3. /\ next_response_to_reply' /\ next_time' = CompletionTime(EarliestBusy)
          /\ taskPc' = "sleep" /\ sleep_until' = next_time' /\ lock' = "none"
          /\ timerFired' = FALSE
      BY <1>5 DEF SleepUntil
    <2>4. NextOK'
      BY <1>1, <1>5, <2>1, <2>3 DEF NextOK
    <2>5. LockOK' /\ PhaseOK' /\ TaskOK'
      BY <1>1, <1>4, <2>2, <2>3 DEF IInv, LockOK, PhaseOK, TaskOK, WakePending
    <2> QED BY <1>2, <1>3, <2>4, <2>5 DEF IInv
  <1>6. CASE Busy = {}
    <2>1. /\ ~next_response_to_reply'
          /\ taskPc' = "idle" /\ taskState' = "interruptible" /\ lock' = "none"
      BY <1>6 DEF SleepIdle
    <2>2. NextOK'
      BY <1>1, <1>6, <2>1 DEF NextOK
    <2>3. LockOK' /\ PhaseOK' /\ TaskOK'
      BY <1>1, <1>4, <2>1 DEF IInv, LockOK, PhaseOK, TaskOK, WakePending
    <2> QED BY <1>2, <1>3, <2>2, <2>3 DEF IInv
  <1> QED BY <1>5, <1>6

\* The channel a submission books, and what the array is afterwards.
LEMMA SubmitBooks ==
  ASSUME TypeOK, IInv, NEW r \in Reqs, StrategySubmit(r)
  PROVE  \E f \in Free, e \in Busy' :
           /\ f = OldestFree /\ f \in Chan
           /\ \A d \in Free : Before(f, d)
           /\ channels' = [channels EXCEPT ![f] = Submitted(r)]
           /\ Free' = Free \ {f} /\ Busy' = Busy \cup {f}
           /\ CompletionTime(f)' \in Nat /\ CompletionTime(f)' >= now
           /\ channels'[f].request = r
           /\ \A d \in Chan : d # f => channels'[d] = channels[d]
           /\ e = EarliestBusy'
           /\ \A d \in Busy' : CompletionTime(e)' <= CompletionTime(d)'
PROOF
  <1>1. PICK f \in Free : f = OldestFree /\ \A d \in Free : Before(f, d)
    BY ChannelLeft, OldestFreeFound DEF IInv, StrategySubmit
  <1>2. f \in Chan
    BY <1>1 DEF Free
  <1>3. channels' = [channels EXCEPT ![f] = Submitted(r)]
    BY <1>1 DEF StrategySubmit
  <1> DEFINE delay == Latency[IsSequential(r), attr[r].rw, attr[r].count]
  <1>4. delay \in Nat
    <2>1. attr[r].rw \in {0, 1} /\ attr[r].count \in Counts
      BY CommandFits DEF TypeOK
    <2> QED BY <2>1, LatencyAssumption DEF IsSequential
  <1>5. /\ Submitted(r).request_completion_time_kt = now + delay
        /\ ~Submitted(r).request_completed
        /\ Submitted(r).request = r
    BY DEF Submitted
  <1> HIDE DEF delay
  <1>6. /\ channels'[f] = Submitted(r)
        /\ \A d \in Chan : d # f => channels'[d] = channels[d]
    BY <1>2, <1>3 DEF TypeOK, Channels
  <1>7. CompletionTime(f)' \in Nat /\ CompletionTime(f)' >= now
    <2>1. CompletionTime(f)' = now + delay
      BY <1>5, <1>6 DEF CompletionTime
    <2> QED BY <1>4, <2>1 DEF TypeOK
  <1>8. Free' = Free \ {f} /\ Busy' = Busy \cup {f}
    BY <1>1, <1>2, <1>5, <1>6 DEF Free, Busy
  <1>9. \A d \in Busy' : d \in Chan /\ CompletionTime(d)' \in Nat
    BY <1>6, <1>7, <1>8, Times DEF Busy, CompletionTime
  <1> DEFINE time == [d \in Chan |-> IF d \in Busy' THEN CompletionTime(d)' ELSE 0]
  <1>10. PICK e \in Busy' : \A d \in Busy' : time[e] < time[d] \/ (time[e] = time[d] /\ e <= d)
    <2>1. time \in [Chan -> Nat] /\ Busy' \in SUBSET Chan /\ Busy' # {}
      BY <1>8, <1>9
    <2> HIDE DEF time
    <2> QED BY <2>1, EarliestOf
  <1>11. \A d \in Busy' : time[d] = CompletionTime(d)'
    BY <1>9
  <1> HIDE DEF time
  <1>12. \E c \in Busy' : \A d \in Busy' : Before(c, d)'
    BY <1>10, <1>11 DEF Before
  <1>13. PICK c \in Busy' : c = EarliestBusy' /\ \A d \in Busy' : Before(c, d)'
    BY <1>12 DEF EarliestBusy
  <1>14. \A d \in Busy' : CompletionTime(c)' <= CompletionTime(d)'
    BY <1>9, <1>13 DEF Before
  <1> QED BY <1>1, <1>2, <1>3, <1>5, <1>6, <1>7, <1>8, <1>13, <1>14

\* A submission may bring the next completion forward, and then has the task
\* woken.
LEMMA LearnsNext ==
  ASSUME TypeOK, NEW time \in Nat, LearnNext(time)
  PROVE  /\ next_response_to_reply' /\ next_time' \in Nat /\ next_time' <= time
         /\ \/ next_time' = time /\ need_to_wake_up'
            \/ UNCHANGED <<nextVars, need_to_wake_up>>
         /\ next_response_to_reply => next_time' <= next_time
PROOF
  <1>1. CASE ~next_response_to_reply \/ time < next_time
    BY <1>1 DEF LearnNext, TypeOK
  <1>2. CASE ~(~next_response_to_reply \/ time < next_time)
    BY <1>2 DEF LearnNext, TypeOK, nextVars
  <1> QED BY <1>1, <1>2

LEMMA StrategySubmitInv ==
  ASSUME TypeOK, IInv, NEW r \in Reqs, StrategySubmit(r)
  PROVE  IInv'
PROOF
  <1>1. PICK f \in Chan, e \in Busy' :
          /\ f \in Free /\ Free' = Free \ {f} /\ Busy' = Busy \cup {f}
          /\ CompletionTime(f)' \in Nat /\ CompletionTime(f)' >= now
          /\ channels'[f].request = r
          /\ \A d \in Chan : d # f => channels'[d] = channels[d]
          /\ e = EarliestBusy'
          /\ \A d \in Busy' : CompletionTime(e)' <= CompletionTime(d)'
    BY SubmitBooks
  <1>2. \A d \in Chan : d # f => CompletionTime(d)' = CompletionTime(d)
    BY <1>1 DEF CompletionTime
  <1>3. CompletionTime(e)' \in Nat /\ e \in Chan
    BY <1>1, <1>2, Times DEF Busy
  <1>4. /\ next_response_to_reply' /\ next_time' \in Nat /\ next_time' <= CompletionTime(e)'
        /\ \/ next_time' = CompletionTime(e)' /\ need_to_wake_up'
           \/ UNCHANGED <<nextVars, need_to_wake_up>>
        /\ next_response_to_reply => next_time' <= next_time
    <2>1. LearnNext(CompletionTime(e)')
      <3>1. CompletionTime(EarliestBusy)' = CompletionTime(e)'
        BY <1>1 DEF CompletionTime
      <3> QED BY <3>1 DEF StrategySubmit
    <2> QED BY <1>3, <2>1, LearnsNext
  <1>5. /\ stage[r] = "queued" /\ stage'[r] = "inflight"
        /\ \A q \in Reqs : q # r => stage'[q] = stage[q]
        /\ spc = "loop" /\ taskPc \notin {"first", "again"} /\ lock = "strategy"
        /\ spc' \in {"tail", "loop"}
        /\ UNCHANGED <<now, lock, taskVars, phase>>
    BY DEF TypeOK, StrategySubmit, IInv, LockOK
  <1>6. phase \notin {"stopping", "joining", "unloaded"}
    BY <1>5 DEF IInv, PhaseOK
  <1>7. ChannelsOK'
    <2>1. \A d \in Busy : d # f /\ channels'[d] = channels[d] /\ channels[d].request # r
      BY <1>1, <1>5 DEF Busy, IInv, ChannelsOK
    <2> QED BY <1>1, <1>5, <2>1 DEF IInv, ChannelsOK
  <1>8. OrderOK'
    <2>1. \A d \in Free' : CompletionTime(d)' = CompletionTime(d) /\ CompletionTime(d) \in Nat
      BY <1>1, <1>2, Times DEF Free
    <2>2. \A d \in Busy : CompletionTime(d)' = CompletionTime(d)
      BY <1>1, <1>2 DEF Busy
    <2>3. now \in Nat /\ now' = now
      BY <1>5 DEF TypeOK
    <2> QED BY <1>1, <2>1, <2>2, <2>3 DEF IInv, OrderOK, Before
  <1>9. NextOK'
    <2>1. \A d \in Busy' : CompletionTime(d)' \in Nat
      BY <1>1, <1>2, Times DEF Busy
    <2>2. \A d \in Busy' : next_time' <= CompletionTime(d)'
      BY <1>1, <1>3, <1>4, <2>1
    <2>3. \E d \in Busy' : next_time' = CompletionTime(d)'
      <3>1. CASE next_time' = CompletionTime(e)'
        BY <3>1
      <3>2. CASE UNCHANGED nextVars
        <4>1. next_response_to_reply
          BY <1>4, <3>2 DEF nextVars
        <4>2. PICK d \in Busy : next_time = CompletionTime(d)
          BY <1>5, <4>1 DEF IInv, NextOK
        <4>3. d \in Busy' /\ d # f /\ d \in Chan
          BY <1>1 DEF Busy
        <4> QED BY <1>2, <3>2, <4>2, <4>3 DEF nextVars
      <3> QED BY <1>4, <3>1, <3>2
    <2> QED BY <1>1, <1>4, <2>2, <2>3 DEF NextOK
  <1>10. CountOK'
    <2>1. Active' = Active \cup {r} /\ r \notin Active
      BY <1>5 DEF Active
    <2>2. Cardinality(Active') = Cardinality(Active) + 1
      BY <2>1, ActiveFinite, FS_AddElement
    <2>3. /\ request_inflight' = Cardinality(Active') /\ request_inflight' \in Nat
          /\ request_inflight' <= disk_channels
      BY <1>5, <2>2, ActiveFinite, ChannelsAssumption DEF StrategySubmit, IInv, CountOK
    <2>4. stopped' <=> request_inflight' >= disk_channels
      BY DEF StrategySubmit, StopsQueue
    <2>5. IF stopped' THEN spc' = "tail" ELSE spc' = "loop"
      BY DEF StrategySubmit
    <2> QED BY <2>3, <2>4, <2>5, ChannelsAssumption DEF CountOK
  <1>11. LockOK'
    BY <1>5 DEF IInv, LockOK, taskVars, sleepVars
  <1>12. PhaseOK'
    BY <1>5, <1>6 DEF IInv, PhaseOK, taskVars, sleepVars
  <1>13. TaskOK'
    <2>1. taskPc \in {"sleep", "relock"} => next_response_to_reply /\ next_time <= sleep_until
      BY <1>6 DEF IInv, TaskOK
    <2>2. taskPc \in {"sleep", "relock"} => next_time' <= sleep_until
      BY <1>4, <2>1 DEF TypeOK
    <2>3. WakePending => WakePending'
      BY <1>4, <1>5 DEF WakePending
    <2>4. WakePending' \/ UNCHANGED nextVars
      BY <1>4, <1>5 DEF WakePending
    <2> QED BY <1>4, <1>5, <2>2, <2>3, <2>4 DEF IInv, TaskOK, taskVars, sleepVars, nextVars
  <1> QED BY <1>7, <1>8, <1>9, <1>10, <1>11, <1>12, <1>13 DEF IInv

LEMMA NextInv == TypeOK /\ IInv /\ [Next]_vars => IInv'
PROOF
  <1> SUFFICES ASSUME TypeOK, IInv, [Next]_vars PROVE IInv'
    OBVIOUS
  <1>1. CASE UNCHANGED vars
    <2> USE <1>1 DEF vars, blockVars, stratVars, taskVars, sleepVars
    <2>1. ChannelsOK' /\ OrderOK' /\ NextOK' /\ CountOK'
      BY BooksKept, CountKept DEF TypeOK, IInv
    <2>2. LockOK' /\ PhaseOK' /\ TaskOK'
      BY DEF IInv, LockOK, PhaseOK, TaskOK, WakePending, nextVars
    <2> QED BY <2>1, <2>2 DEF IInv
  <1>2. CASE BlockLayer
    BY <1>2, IssueInv, RunQueueInv DEF BlockLayer
  <1>3. CASE Strategy
    BY <1>3, StrategySubmitInv, StrategySkipInv, StrategyEmptyInv, StrategyTailInv DEF Strategy
  <1>4. CASE Task
    BY <1>4, TaskStartInv, TaskIdleWakeInv, TaskReturnInv, TaskRelockInv, TaskCompleteInv,
       TaskUnsetTrueInv, TaskFindNextInv DEF Task
  <1>5. CASE \E r \in Reqs : Softirq(r)
    BY <1>5, EndRequestInv, SoftirqDoneInv DEF Softirq
  <1>6. CASE Module
    BY <1>6, AddDiskInv, ExitInv, KthreadStopInv, UnloadedInv DEF Module
  <1> QED
    BY <1>1, <1>2, <1>3, <1>4, <1>5, <1>6, TickInv, TimerExpireInv DEF Next, Finished

\* The inductive invariant: the lock, the phases, what the task waits for, the
\* order of the channels and the count behind the flow control.
THEOREM Invariant == Spec => []IInv
PROOF
  <1>1. Init => IInv
    BY InitInv
  <1>2. TypeOK /\ IInv /\ [Next]_vars => IInv'
    BY NextInv
  <1> QED BY <1>1, <1>2, TypeCorrect, PTL DEF Spec

-----------------------------------------------------------------------------
\* None of the driver's while(1) branches is reached: a submission finds a
\* channel and stays on the disk, the woken task is not early.
THEOREM NeverSpins == Spec => []NoSpin
PROOF
  <1>1. TypeOK /\ IInv => NoSpin
    <2> SUFFICES ASSUME TypeOK, IInv PROVE ~StrategyWouldSpin /\ ~TaskWouldSpin
      BY DEF NoSpin
    <2>1. spc = "loop" => Free # {}
      BY ChannelLeft DEF IInv
    <2>2. \A r \in Reqs : ~PastTheEnd(r)
      BY SectorsAssumption DEF TypeOK, PastTheEnd
    <2>3. ~StrategyWouldSpin
      BY <2>1, <2>2 DEF StrategyWouldSpin, Queued
    <2>4. ~TaskWouldSpin
      BY DEF TypeOK, IInv, TaskOK, TaskWouldSpin
    <2> QED BY <2>3, <2>4
  <1> QED BY <1>1, TypeCorrect, Invariant, PTL

\* A sleeping task that nobody has woken does not sleep past the next completion.
THEOREM SleepsNoLonger == Spec => []NoOversleep
PROOF
  <1>1. TypeOK /\ IInv => NoOversleep
    <2> SUFFICES ASSUME TypeOK, IInv, lock = "none", taskState = "interruptible"
                 PROVE  /\ taskPc = "idle" => Busy = {}
                        /\ taskPc = "sleep" => \A c \in Busy : sleep_until <= CompletionTime(c)
      BY DEF NoOversleep
    <2>1. ~WakePending /\ taskPc # "again"
      BY DEF IInv, LockOK, WakePending
    <2>2. taskPc = "idle" => Busy = {}
      BY <2>1 DEF IInv, TaskOK, NextOK
    <2>3. ASSUME taskPc = "sleep", NEW c \in Busy PROVE sleep_until <= CompletionTime(c)
      <3>1. sleep_until <= next_time /\ next_time <= CompletionTime(c)
        BY <2>1, <2>3 DEF IInv, TaskOK, NextOK
      <3>2. sleep_until \in Nat /\ next_time \in Nat /\ CompletionTime(c) \in Nat
        BY Times DEF TypeOK, Busy
      <3> QED BY <3>1, <3>2
    <2> QED BY <2>2, <2>3
  <1> QED BY <1>1, TypeCorrect, Invariant, PTL

\* The channels in use hold the requests in flight, and the queue is stopped if
\* and only if disk_channels requests await the end of their softirq.
THEOREM FlowControlled == Spec => []FlowControl
PROOF
  <1>1. IInv => FlowControl
    <2> SUFFICES ASSUME IInv, lock = "none" PROVE FlowControl
      BY DEF FlowControl
    <2>1. spc = "off"
      BY DEF IInv, LockOK
    <2>2. {channels[c].request : c \in Busy} = {r \in Reqs : stage[r] = "inflight"}
      BY DEF IInv, ChannelsOK
    <2>3. stopped <=> request_inflight = disk_channels
      BY <2>1 DEF IInv, CountOK
    <2> QED BY <2>2, <2>3 DEF FlowControl, IInv, ChannelsOK, CountOK, Active
  <1> QED BY <1>1, Invariant, PTL

-----------------------------------------------------------------------------
(* Which steps move a channel.                                             *)
LEMMA ChannelSteps ==
  ASSUME [Next]_vars
  PROVE  \/ \E r \in Reqs : StrategySubmit(r)
         \/ TaskComplete
         \/ UNCHANGED <<channels, storage, bio>>
PROOF
  <1> USE DEF blockVars
  <1>1. CASE Strategy
    BY <1>1 DEF Strategy, StrategySkip, StrategyEmpty, StrategyTail
  <1>2. CASE Task
    BY <1>2 DEF Task, TaskStart, TaskIdleWake, TaskReturn, TaskRelock, TaskUnsetTrue, TaskFindNext
  <1>3. CASE \E r \in Reqs : Softirq(r)
    BY <1>3 DEF Softirq, EndRequest, SoftirqDone
  <1>4. CASE BlockLayer \/ Tick \/ TimerExpire
    BY <1>4 DEF BlockLayer, Issue, RunQueue, Tick, TimerExpire
  <1>5. CASE Module
    BY <1>5 DEF Module, AddDisk, Exit, KthreadStop, Unloaded
  <1>6. CASE Finished \/ UNCHANGED vars
    BY <1>6 DEF Finished, vars
  <1> QED BY <1>1, <1>2, <1>3, <1>4, <1>5, <1>6 DEF Next

\* Requests are committed in the order of their completion times, never early.
THEOREM CompletesInOrder == Spec => InCompletionOrder
PROOF
  <1> DEFINE Ordered ==
        \A c \in Busy :
          channels'[c].request_completed =>
            /\ CompletionTime(c) < now
            /\ \A d \in Chan : IF d \in Free THEN CompletionTime(d) <= CompletionTime(c)
                                             ELSE CompletionTime(c) <= CompletionTime(d)
  <1>1. TypeOK /\ IInv /\ [Next]_vars => Ordered
    <2> SUFFICES ASSUME TypeOK, IInv, [Next]_vars, NEW c \in Busy, channels'[c].request_completed
                 PROVE  /\ CompletionTime(c) < now
                        /\ \A d \in Chan : IF d \in Free
                                             THEN CompletionTime(d) <= CompletionTime(c)
                                             ELSE CompletionTime(c) <= CompletionTime(d)
      OBVIOUS
    <2>1. c \in Chan /\ ~channels[c].request_completed
      BY DEF Busy, Free
    <2>2. ~UNCHANGED channels
      BY <2>1
    <2>3. ASSUME NEW r \in Reqs, StrategySubmit(r) PROVE FALSE
      <3>1. PICK f \in Free : \A d \in Chan : d # f => channels'[d] = channels[d]
        BY <2>3, SubmitBooks
      <3>2. c # f
        BY DEF Busy
      <3> QED BY <2>1, <3>1, <3>2
    <2>4. TaskComplete
      BY <2>2, <2>3, ChannelSteps
    <2>5. PICK e \in Busy : /\ e = EarliestPast
                            /\ CompletionTime(e) < now
                            /\ \A d \in Busy : Before(e, d)
      BY <2>4, EarliestPastFound DEF TaskComplete
    <2>6. channels' = [channels EXCEPT ![e].request_completed = TRUE]
      BY <2>4, <2>5 DEF TaskComplete, Complete
    <2>7. c = e
      BY <2>1, <2>6 DEF TypeOK, Channels
    <2>8. \A d \in Chan : CompletionTime(d) \in Nat
      BY Times
    <2>9. \A d \in Free : Before(d, c)
      BY DEF IInv, OrderOK
    <2> QED BY <2>1, <2>5, <2>7, <2>8, <2>9 DEF Before, Busy
  <1> HIDE DEF Ordered
  <1>2. Spec => [][Ordered]_vars
    BY <1>1, TypeCorrect, Invariant, PTL DEF Spec
  <1> QED BY <1>2 DEF InCompletionOrder, Ordered

-----------------------------------------------------------------------------
(* The timing of the emulator.                                             *)

\* The channel the RAM disk books, the oldest of those it has completed, is the
\* oldest of all, and submit_request accepts the submission.
LEMMA SameChannel ==
  ASSUME TypeOK, IInv, NEW f \in Free, \A d \in Free : Before(f, d)
  PROVE  Server!OldestChannel = f /\ Server!Accepts(now)
PROOF
  <1>1. Server!Chan = Chan
    BY DEF Server!Chan, Chan
  <1>2. \A c \in Chan : Server!CompletionTime(c) = CompletionTime(c) /\ CompletionTime(c) \in Nat
    BY Times DEF Server!CompletionTime, AsServer
  <1>3. f \in Chan /\ \A d \in Chan : Before(f, d)
    BY DEF IInv, OrderOK, Free, Busy
  <1>4. Server!Oldest(f)
    BY <1>1, <1>2, <1>3 DEF Server!Oldest, Before
  <1>5. ASSUME NEW c \in Chan, Server!Oldest(c) PROVE c = f
    <2>1. c \in Nat /\ f \in Nat /\ CompletionTime(c) \in Nat /\ CompletionTime(f) \in Nat
      BY <1>2, <1>3 DEF Chan
    <2>2. CompletionTime(c) < CompletionTime(f) \/ (CompletionTime(c) = CompletionTime(f) /\ c <= f)
      BY <1>1, <1>2, <1>3, <1>5 DEF Server!Oldest
    <2>3. CompletionTime(f) < CompletionTime(c) \/ (CompletionTime(f) = CompletionTime(c) /\ f <= c)
      BY <1>3 DEF Before
    <2> QED BY <2>1, <2>2, <2>3
  <1>6. Server!OldestChannel = f
    BY <1>1, <1>3, <1>4, <1>5 DEF Server!OldestChannel
  <1>7. Server!Accepts(now)
    BY <1>2, <1>3, <1>6 DEF Server!Accepts, IInv, OrderOK
  <1> QED BY <1>6, <1>7

\* What the RAM disk writes into the channel is what submit_request writes.
LEMMA SubmitMatches ==
  ASSUME TypeOK, IInv, NEW r \in Reqs, StrategySubmit(r)
  PROVE  /\ Server!Accepts(now)
         /\ Server!submit_request(now, attr[r].rw, attr[r].sector, attr[r].count, -1)
PROOF
  <1>1. PICK f \in Free : /\ f \in Chan
                          /\ \A d \in Free : Before(f, d)
                          /\ channels' = [channels EXCEPT ![f] = Submitted(r)]
    BY SubmitBooks
  <1>2. Server!OldestChannel = f /\ Server!Accepts(now)
    BY <1>1, SameChannel
  <1>3. IsSequential(r) <=> Server!IsSequential(attr[r].rw, attr[r].sector)
    <2>1. \A c \in Chan : /\ AsServer[c].request_rw = channels[c].request_rw
                          /\ AsServer[c].request_last_sector = channels[c].request_last_sector
      BY DEF AsServer
    <2> QED BY <2>1 DEF IsSequential, Server!IsSequential, Server!Chan, Chan
  <1> DEFINE seq == IsSequential(r)
             delay == Latency[Server!IsSequential(attr[r].rw, attr[r].sector), attr[r].rw, attr[r].count]
             booked == [io_request_id       |-> -1,
                        completion_time     |-> now + delay,
                        request_rw          |-> attr[r].rw,
                        request_last_sector |-> attr[r].sector + attr[r].count]
  <1>4. Latency[IsSequential(r), attr[r].rw, attr[r].count] = delay
    BY <1>3 DEF IsSequential, Server!IsSequential
  <1>5. /\ Submitted(r).request_completion_time_kt = now + delay
        /\ Submitted(r).request_rw = attr[r].rw
        /\ Submitted(r).request_last_sector = attr[r].sector + attr[r].count
    BY <1>4 DEF Submitted
  <1> HIDE DEF delay
  <1>6. channels'[f] = Submitted(r) /\ \A d \in Chan : d # f => channels'[d] = channels[d]
    BY <1>1 DEF TypeOK, Channels
  <1>7. AsServer' = [AsServer EXCEPT ![f] = booked]
    BY <1>5, <1>6 DEF AsServer, CompletionTime
  <1> QED BY <1>2, <1>7 DEF Server!submit_request, delay

\* The channels of the RAM disk are those of a MySSDSim to which every request is
\* submitted and that refuses none.
THEOREM TimingOfServer == Spec => MatchesServer
PROOF
  <1> DEFINE Submits == \E r \in Reqs :
               /\ stage[r] = "queued" /\ stage'[r] = "inflight"
               /\ Server!Accepts(now)
               /\ Server!submit_request(now, attr[r].rw, attr[r].sector, attr[r].count, -1)
  <1>1. Init => Server!setup
    <2> SUFFICES ASSUME Init PROVE Server!setup
      OBVIOUS
    <2> DEFINE head == [c \in Chan |-> <<0, 0>>]
    <2>1. head \in [Chan -> {<<0, 0>>}] /\ \A c \in Chan : head[c][1] = 0 /\ head[c][2] = 0
      OBVIOUS
    <2>2. AsServer = [c \in Chan |-> [io_request_id       |-> -1,
                                      completion_time     |-> 0,
                                      request_rw          |-> head[c][1],
                                      request_last_sector |-> head[c][2]]]
      BY DEF Init, AsServer, CompletionTime
    <2> HIDE DEF head
    <2> QED BY <2>1, <2>2 DEF Server!setup, Server!NotInUse, Server!Chan, Chan
  <1>2. TypeOK /\ IInv /\ [Next]_vars => [Submits]_AsServer
    <2> SUFFICES ASSUME TypeOK, IInv, [Next]_vars PROVE [Submits]_AsServer
      OBVIOUS
    <2>1. ASSUME NEW r \in Reqs, StrategySubmit(r) PROVE Submits
      <3>1. stage[r] = "queued" /\ stage'[r] = "inflight"
        BY <2>1 DEF StrategySubmit, TypeOK
      <3> QED BY <2>1, <3>1, SubmitMatches
    <2>2. CASE TaskComplete
      <3>1. PICK e \in Chan : channels' = [channels EXCEPT ![e].request_completed = TRUE]
        BY <2>2, EarliestPastFound DEF TaskComplete, Complete, Busy
      <3>2. \A c \in Chan :
              /\ channels'[c].request_completion_time_kt = channels[c].request_completion_time_kt
              /\ channels'[c].request_rw = channels[c].request_rw
              /\ channels'[c].request_last_sector = channels[c].request_last_sector
        BY <3>1 DEF TypeOK, Channels
      <3>3. AsServer' = AsServer
        BY <3>2 DEF AsServer, CompletionTime
      <3> QED BY <3>3
    <2>3. CASE UNCHANGED <<channels, storage, bio>>
      BY <2>3 DEF AsServer, CompletionTime
    <2> QED BY <2>1, <2>2, <2>3, ChannelSteps
  <1> HIDE DEF Submits
  <1>3. Spec => Server!setup /\ [][Submits]_AsServer
    BY <1>1, <1>2, TypeCorrect, Invariant, PTL DEF Spec
  <1> QED BY <1>3 DEF MatchesServer, Submits

-----------------------------------------------------------------------------
(* What the kernel sees of the RAM disk is a block device.                 *)
LEMMA SameCardinality == \A S : Device!Cardinality(S) = Cardinality(S)
PROOF BY Zenon DEF Device!Cardinality, Cardinality

\* The kernel's view of a request depends on its own stage and command only.
LEMMA StageSeen ==
  ASSUME NEW r \in Reqs, UNCHANGED attr, \A q \in Reqs : q # r => stage'[q] = stage[q]
  PROVE  [q \in Reqs |-> AbstractStage(q)]'
           = [[q \in Reqs |-> AbstractStage(q)] EXCEPT ![r] = AbstractStage(r)']
PROOF
  <1>1. \A q \in Reqs : q # r => AbstractStage(q)' = AbstractStage(q)
    BY DEF AbstractStage
  <1> DEFINE view(q) == AbstractStage(q)
  <1>2. \A q \in Reqs : q # r => view(q)' = view(q)
    BY <1>1
  <1> HIDE DEF view
  <1>3. [q \in Reqs |-> view(q)]' = [[q \in Reqs |-> view(q)] EXCEPT ![r] = view(r)']
    BY <1>2
  <1> QED BY <1>3 DEF view

\* A served request is active: its channel or its softirq is still to come.
LEMMA ServedActive ==
  ASSUME TypeOK, NEW r \in Reqs, AbstractStage(r) = "served"
  PROVE  r \in Active
PROOF BY DEF AbstractStage, Active, TypeOK, Stages

\* One more request may be served while the others served are few enough.
LEMMA MayServe ==
  ASSUME TypeOK, NEW S \in SUBSET Active, Cardinality(S) < disk_channels,
         \A q \in Reqs : AbstractStage(q) = "served" => q \in S
  PROVE  Device!Cardinality({q \in Reqs : [p \in Reqs |-> AbstractStage(p)][q] = "served"})
           < disk_channels
PROOF
  <1> DEFINE served == {q \in Reqs : [p \in Reqs |-> AbstractStage(p)][q] = "served"}
  <1>1. served \in SUBSET S
    OBVIOUS
  <1>2. IsFiniteSet(S) /\ Cardinality(S) \in Nat
    BY ActiveFinite, FS_Subset, FS_CardinalityType
  <1> HIDE DEF served
  <1>3. Cardinality(served) <= Cardinality(S) /\ Cardinality(served) \in Nat
    BY <1>1, <1>2, FS_Subset, FS_CardinalityType
  <1>4. Cardinality(served) < disk_channels
    BY <1>2, <1>3, ChannelsAssumption
  <1> QED BY <1>4, SameCardinality DEF served

\* The submission of a write serves it; that of a read changes nothing the
\* kernel sees.
LEMMA SubmitImplements ==
  ASSUME TypeOK, IInv, NEW r \in Reqs, StrategySubmit(r)
  PROVE  Device!Serve(r) \/ UNCHANGED Device!vars
PROOF
  <1> DEFINE astage == [q \in Reqs |-> AbstractStage(q)]
  <1>1. /\ stage[r] = "queued" /\ stage'[r] = "inflight"
        /\ \A q \in Reqs : q # r => stage'[q] = stage[q]
        /\ UNCHANGED <<attr, bio>>
    BY DEF TypeOK, StrategySubmit
  <1>2. astage' = [astage EXCEPT ![r] = AbstractStage(r)']
    BY <1>1, StageSeen
  <1>3. astage[r] = "pending"
    BY <1>1 DEF AbstractStage
  <1>4. CASE attr[r].rw = 1
    <2>1. AbstractStage(r)' = "served"
      BY <1>1, <1>4 DEF AbstractStage, WRITE
    <2>2. Cardinality(Active) < disk_channels
      BY DEF StrategySubmit, IInv, CountOK
    <2>3. Device!Cardinality({q \in Reqs : astage[q] = "served"}) < disk_channels
      BY <2>2, ServedActive, MayServe
    <2>4. Device!Write(r)
      BY <1>1, <1>4 DEF StrategySubmit, Write, WRITE, Device!Write
    <2> QED BY <1>1, <1>2, <1>3, <1>4, <2>1, <2>3, <2>4 DEF Device!Serve
  <1>5. CASE attr[r].rw # 1
    <2>1. AbstractStage(r)' = "pending" /\ UNCHANGED storage
      BY <1>1, <1>5 DEF AbstractStage, WRITE, StrategySubmit
    <2>2. [astage EXCEPT ![r] = "pending"] = astage
      BY <1>3
    <2> QED BY <1>1, <1>2, <2>1, <2>2 DEF Device!vars
  <1> QED BY <1>4, <1>5

\* The completion of a read serves it; that of a write changes nothing the
\* kernel sees.
LEMMA CompleteImplements ==
  ASSUME TypeOK, IInv, TaskComplete
  PROVE  \/ \E r \in Reqs : Device!Serve(r)
         \/ UNCHANGED Device!vars
PROOF
  <1> DEFINE astage == [q \in Reqs |-> AbstractStage(q)]
  <1>1. PICK r \in Reqs : r = channels[EarliestPast].request /\ stage[r] = "inflight"
    BY EarliestPastFound DEF TaskComplete, Busy, IInv, ChannelsOK
  <1>2. /\ stage'[r] = "completing"
        /\ \A q \in Reqs : q # r => stage'[q] = stage[q]
        /\ UNCHANGED <<attr, storage>>
        /\ attr[r].rw = READ => Read(r)
        /\ attr[r].rw # READ => UNCHANGED bio
    BY <1>1 DEF TypeOK, TaskComplete, Complete
  <1>3. astage' = [astage EXCEPT ![r] = AbstractStage(r)'] /\ AbstractStage(r)' = "served"
    BY <1>2, StageSeen DEF AbstractStage
  <1>4. attr[r].rw \in {0, 1}
    BY CommandFits DEF TypeOK
  <1>5. CASE attr[r].rw = 0
    <2>1. astage[r] = "pending"
      BY <1>1, <1>5 DEF AbstractStage, WRITE
    <2>2. Cardinality(Active) <= disk_channels
      BY DEF TaskComplete, Scanning, IInv, CountOK, LockOK
    <2>3. Cardinality(Active \ {r}) < disk_channels
      <3>1. r \in Active
        BY <1>1 DEF Active
      <3>2. Cardinality(Active \ {r}) = Cardinality(Active) - 1
        BY <3>1, ActiveFinite, FS_RemoveElement
      <3> QED BY <2>2, <3>2, ActiveFinite, ChannelsAssumption
    <2>4. \A q \in Reqs : AbstractStage(q) = "served" => q \in Active \ {r}
      BY <2>1, ServedActive
    <2>5. Device!Cardinality({q \in Reqs : astage[q] = "served"}) < disk_channels
      BY <2>3, <2>4, MayServe
    <2>6. Device!Read(r)
      BY <1>2, <1>5 DEF Read, READ, Device!Read, Device!Offsets, Offsets
    <2>7. Device!Serve(r)
      <3>1. astage' = [astage EXCEPT ![r] = "served"]
        BY <1>3
      <3> QED BY <1>2, <1>5, <2>1, <2>5, <2>6, <3>1 DEF Device!Serve
    <2> QED BY <2>7
  <1>6. CASE attr[r].rw = 1
    <2>1. astage[r] = "served" /\ UNCHANGED bio
      BY <1>1, <1>2, <1>6 DEF AbstractStage, WRITE, READ
    <2>2. [astage EXCEPT ![r] = "served"] = astage
      BY <2>1
    <2> QED BY <1>2, <1>3, <2>1, <2>2 DEF Device!vars
  <1> QED BY <1>4, <1>5, <1>6

\* Steps that only move a request from one stage to another.
LEMMA MoveSeen ==
  ASSUME TypeOK, NEW r \in Reqs, NEW s, stage' = [stage EXCEPT ![r] = s],
         UNCHANGED <<attr, bio, storage>>
  PROVE  /\ stage'[r] = s
         /\ [q \in Reqs |-> AbstractStage(q)]'
              = [[q \in Reqs |-> AbstractStage(q)] EXCEPT ![r] = AbstractStage(r)']
PROOF
  <1>1. stage'[r] = s /\ \A q \in Reqs : q # r => stage'[q] = stage[q]
    BY DEF TypeOK
  <1> QED BY <1>1, StageSeen

\* A move the kernel does not see.
LEMMA MoveUnseen ==
  ASSUME NEW r \in Reqs, AbstractStage(r)' = AbstractStage(r),
         [q \in Reqs |-> AbstractStage(q)]'
           = [[q \in Reqs |-> AbstractStage(q)] EXCEPT ![r] = AbstractStage(r)'],
         UNCHANGED <<attr, bio, storage>>
  PROVE  UNCHANGED Device!vars
PROOF
  <1>1. [[q \in Reqs |-> AbstractStage(q)] EXCEPT ![r] = AbstractStage(r)]
          = [q \in Reqs |-> AbstractStage(q)]
    OBVIOUS
  <1> QED BY <1>1 DEF Device!vars

\* Every step of the RAM disk is a step of the device or none.
LEMMA NextImplements ==
  ASSUME TypeOK, IInv, [Next]_vars
  PROVE  [Device!Next]_(Device!vars)
PROOF
  <1>1. CASE \E r \in Reqs : Issue(r)
    <2> SUFFICES ASSUME NEW r \in Reqs, Issue(r) PROVE Device!Issue(r)
      BY <1>1 DEF Device!Next
    <2>1. /\ stage[r] = "new" /\ stage' = [stage EXCEPT ![r] = "queued"]
          /\ UNCHANGED <<attr, bio, storage>>
      BY DEF Issue
    <2>2. stage'[r] = "queued"
      BY <2>1, MoveSeen
    <2>3. AbstractStage(r) = "new" /\ AbstractStage(r)' = "pending"
      BY <2>1, <2>2 DEF AbstractStage
    <2> QED BY <2>1, <2>3, MoveSeen DEF Device!Issue
  <1>2. CASE \E r \in Reqs : EndRequest(r)
    <2> SUFFICES ASSUME NEW r \in Reqs, EndRequest(r) PROVE Device!End(r)
      BY <1>2 DEF Device!Next
    <2>1. /\ stage[r] = "completing" /\ stage' = [stage EXCEPT ![r] = "ended"]
          /\ UNCHANGED <<attr, bio, storage>>
      BY DEF EndRequest
    <2>2. stage'[r] = "ended"
      BY <2>1, MoveSeen
    <2>3. AbstractStage(r) = "served" /\ AbstractStage(r)' = "ended"
      BY <2>1, <2>2 DEF AbstractStage
    <2> QED BY <2>1, <2>3, MoveSeen DEF Device!End
  <1>3. CASE \E r \in Reqs : StrategySubmit(r)
    BY <1>3, SubmitImplements DEF Device!Next
  <1>4. CASE TaskComplete
    BY <1>4, CompleteImplements DEF Device!Next
  <1>5. CASE \E r \in Reqs : StrategySkip(r)
    <2> SUFFICES ASSUME NEW r \in Reqs, StrategySkip(r) PROVE UNCHANGED Device!vars
      BY <1>5
    <2>1. /\ stage[r] = "queued" /\ stage' = [stage EXCEPT ![r] = "dequeued"]
          /\ UNCHANGED <<attr, bio, storage>>
      BY DEF StrategySkip
    <2>2. AbstractStage(r) = "pending" /\ AbstractStage(r)' = "pending"
      BY <2>1, MoveSeen DEF AbstractStage
    <2> QED BY <2>1, <2>2, MoveSeen, MoveUnseen
  <1>6. CASE \E r \in Reqs : SoftirqDone(r)
    <2> SUFFICES ASSUME NEW r \in Reqs, SoftirqDone(r) PROVE UNCHANGED Device!vars
      BY <1>6
    <2>1. /\ stage[r] = "ended" /\ stage' = [stage EXCEPT ![r] = "done"]
          /\ UNCHANGED <<attr, bio, storage>>
      BY DEF SoftirqDone
    <2>2. AbstractStage(r) = "ended" /\ AbstractStage(r)' = "ended"
      BY <2>1, MoveSeen DEF AbstractStage
    <2> QED BY <2>1, <2>2, MoveSeen, MoveUnseen
  <1>7. CASE UNCHANGED <<stage, attr, bio, storage>>
    BY <1>7 DEF Device!vars, AbstractStage
  <1>8. \/ \E r \in Reqs : Issue(r) \/ EndRequest(r) \/ StrategySubmit(r) \/ StrategySkip(r)
                           \/ SoftirqDone(r)
        \/ TaskComplete
        \/ UNCHANGED <<stage, attr, bio, storage>>
    <2> USE DEF blockVars
    <2>1. CASE Strategy
      BY <2>1 DEF Strategy, StrategyEmpty, StrategyTail
    <2>2. CASE Task
      BY <2>2 DEF Task, TaskStart, TaskIdleWake, TaskReturn, TaskRelock, TaskUnsetTrue,
                  TaskFindNext
    <2>3. CASE \E r \in Reqs : Softirq(r)
      BY <2>3 DEF Softirq
    <2>4. CASE BlockLayer \/ Tick \/ TimerExpire
      BY <2>4 DEF BlockLayer, RunQueue, Tick, TimerExpire
    <2>5. CASE Module
      BY <2>5 DEF Module, AddDisk, Exit, KthreadStop, Unloaded
    <2>6. CASE Finished \/ UNCHANGED vars
      BY <2>6 DEF Finished, vars
    <2> QED BY <2>1, <2>2, <2>3, <2>4, <2>5, <2>6 DEF Next
  <1> QED BY <1>1, <1>2, <1>3, <1>4, <1>5, <1>6, <1>7, <1>8

\* The RAM disk is a block device too: each request is served at one instant, a
\* write when it is submitted and a read when it completes.
THEOREM ImplementsBlockDevice == Spec => IsBlockDevice
PROOF
  <1>1. Init => Device!Init
    <2> SUFFICES ASSUME Init PROVE Device!Init
      OBVIOUS
    <2>1. [r \in Reqs |-> AbstractStage(r)] = [r \in Reqs |-> "new"]
      BY DEF Init, AbstractStage
    <2> QED BY <2>1 DEF Init, WRITE, Device!Init, Device!Offsets, Offsets
  <1>2. TypeOK /\ IInv /\ [Next]_vars => [Device!Next]_(Device!vars)
    BY NextImplements
  <1> QED BY <1>1, <1>2, TypeCorrect, Invariant, PTL DEF Spec, IsBlockDevice, Device!Spec
==============================================================================
