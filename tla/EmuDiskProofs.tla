---------------------------- MODULE EmuDiskProofs ----------------------------
(* The driver of module EmuDisk is correct for every number of channels,   *)
(* every set of requests, every response time and every command.  This     *)
(* module: what the timing model SSDSim computes, types, and the inductive *)
(* invariant of EmuDisk with the safety properties it carries.             *)
EXTENDS EmuDisk, NatLemmas, FiniteSetTheorems, TLAPS

-----------------------------------------------------------------------------
(* The timing model.                                                       *)
\* There are disk_channels channels.
LEMMA ChanFinite == IsFiniteSet(Chan) /\ Cardinality(Chan) = disk_channels
PROOF BY FS_Interval, ChannelsAssumption DEF Chan

\* The scan at the head of submit_request always finds a channel, the lowest
\* among the oldest.
LEMMA OldestExists ==
  ASSUME ssd_channels \in Channels
  PROVE  OldestChannel \in Chan /\ Oldest(OldestChannel)
PROOF
  <1>1. \A c \in Chan : CompletionTime(c) \in Nat
    BY DEF Channels, CompletionTime
  <1>2. 0 \in Chan
    BY ChannelsAssumption DEF Chan
  <1> DEFINE Times == {CompletionTime(c) : c \in Chan}
  <1>3. PICK t \in Times : \A u \in Times : t <= u
    <2>1. Times \in SUBSET Nat /\ Times # {}
      BY <1>1, <1>2
    <2> HIDE DEF Times
    <2> QED BY <2>1, NatHasMinimum
  <1> DEFINE First == {c \in Chan : CompletionTime(c) = t}
  <1>4. PICK f \in First : \A g \in First : f <= g
    <2>1. First \in SUBSET Nat /\ First # {}
      BY <1>3 DEF Chan
    <2> HIDE DEF First
    <2> QED BY <2>1, NatHasMinimum
  <1>5. ASSUME NEW d \in Chan
        PROVE  \/ CompletionTime(f) < CompletionTime(d)
               \/ CompletionTime(f) = CompletionTime(d) /\ f <= d
    <2>1. CompletionTime(f) <= CompletionTime(d)
      BY <1>3, <1>4
    <2>2. CASE CompletionTime(f) = CompletionTime(d)
      BY <1>4, <2>2
    <2>3. CASE CompletionTime(f) # CompletionTime(d)
      BY <1>1, <1>4, <2>1, <2>3
    <2> QED BY <2>2, <2>3
  <1>6. f \in Chan /\ Oldest(f)
    BY <1>4, <1>5 DEF Oldest
  <1> QED BY <1>6 DEF OldestChannel

\* submit_request keeps the channels well-formed; an accepted request takes the
\* oldest channel, completes no earlier than now, and no other channel changes.
LEMMA SubmitBooks ==
  ASSUME ssd_channels \in Channels,
         NEW time \in Nat, NEW rw \in {0, 1}, NEW sector \in Nat,
         NEW count \in Counts, NEW id \in Int,
         submit_request(time, rw, sector, count, id)
  PROVE  /\ ssd_channels' \in Channels
         /\ Accepts(time) =>
              /\ ssd_channels'[OldestChannel].io_request_id = id
              /\ ssd_channels'[OldestChannel].completion_time >= time
              /\ \A c \in Chan \ {OldestChannel} : ssd_channels'[c] = ssd_channels[c]
PROOF
  <1> DEFINE delay  == Latency[IsSequential(rw, sector), rw, count]
             booked == [io_request_id |-> id, completion_time |-> time + delay,
                        request_rw |-> rw, request_last_sector |-> sector + count]
  <1>1. ssd_channels' = IF Accepts(time)
                          THEN [ssd_channels EXCEPT ![OldestChannel] = booked]
                          ELSE ssd_channels
    BY DEF submit_request
  <1>2. delay \in Nat
    BY LatencyAssumption DEF IsSequential
  <1>3. count \in Nat
    BY DEF Counts
  <1>4. OldestChannel \in Chan
    BY OldestExists
  <1> HIDE DEF delay
  <1>5. /\ booked \in [io_request_id : Int, completion_time : Nat,
                       request_rw : Int, request_last_sector : Int]
        /\ booked.io_request_id = id
        /\ booked.completion_time >= time
    BY <1>2, <1>3
  <1> HIDE DEF booked
  <1> QED BY <1>1, <1>4, <1>5 DEF Channels

\* If anything completes after t, some channel completes first.
LEMMA NextExists ==
  ASSUME ssd_channels \in Channels, NEW t, Pending(t) # {}
  PROVE  NextChannels(t) # {}
PROOF
  <1> DEFINE Times == {CompletionTime(c) : c \in Pending(t)}
  <1>1. Times \in SUBSET Nat /\ Times # {}
    BY DEF Channels, CompletionTime, Pending
  <1>2. PICK m \in Times : \A u \in Times : m <= u
    <2> HIDE DEF Times
    <2> QED BY <1>1, NatHasMinimum
  <1> QED BY <1>2 DEF NextChannels

\* What a reply of get_next_responses says.
LEMMA NextResponses ==
  ASSUME ssd_channels \in Channels, NEW t \in Nat
  PROVE  LET next == get_next_responses(t)
         IN  /\ next.time \in Nat
             /\ next.ids = {ssd_channels[c].io_request_id : c \in NextChannels(t)}
             /\ next.ids = {} <=> Pending(t) = {}
             /\ \A c \in NextChannels(t) : CompletionTime(c) = next.time
             /\ \A c \in Pending(t) : next.time <= CompletionTime(c)
             /\ next.ids # {} => next.time > t
PROOF
  <1> DEFINE next == get_next_responses(t)
  <1>1. next.ids = {ssd_channels[c].io_request_id : c \in NextChannels(t)}
    BY DEF get_next_responses
  <1>2. NextChannels(t) \subseteq Pending(t) /\ Pending(t) \subseteq Chan
    BY DEF NextChannels, Pending
  <1>3. \A c \in Chan : CompletionTime(c) \in Nat
    BY DEF Channels, CompletionTime
  <1>4. CASE Pending(t) = {}
    <2>1. next.time = 0
      BY <1>4 DEF get_next_responses
    <2> QED BY <1>1, <1>2, <1>4, <2>1
  <1>5. CASE Pending(t) # {}
    <2> DEFINE first == CHOOSE c \in NextChannels(t) : TRUE
    <2>1. first \in NextChannels(t)
      BY <1>5, NextExists
    <2>2. next.time = CompletionTime(first)
      BY <1>5 DEF get_next_responses
    <2> HIDE DEF first, next
    <2>3. \A c \in Pending(t) : next.time <= CompletionTime(c)
      BY <2>1, <2>2 DEF NextChannels
    <2>4. \A c \in NextChannels(t) : CompletionTime(c) = next.time
      <3> SUFFICES ASSUME NEW c \in NextChannels(t) PROVE CompletionTime(c) = next.time
        OBVIOUS
      <3>1. CompletionTime(c) <= CompletionTime(first)
        BY <1>2, <2>1 DEF NextChannels
      <3> QED BY <1>2, <1>3, <2>1, <2>2, <2>3, <3>1
    <2>5. next.time > t /\ next.time \in Nat
      BY <1>2, <1>3, <2>1, <2>2 DEF Pending
    <2>6. next.ids # {}
      BY <1>1, <2>1
    <2> QED BY <1>1, <1>5, <2>3, <2>4, <2>5, <2>6 DEF next
  <1> QED BY <1>4, <1>5

-----------------------------------------------------------------------------
(* The driver.                                                             *)

\* Every command is about a stretch of sectors of the disk that fits a buffer.
LEMMA CommandFits ==
  ASSUME NEW c \in Commands
  PROVE  /\ c.rw \in {0, 1} /\ c.sector \in Nat /\ c.count \in Counts /\ c.count \in Nat
         /\ \A k \in Offsets : k < c.count => c.sector + k \in Sectors
         /\ 0 .. c.count - 1 \subseteq Offsets
PROOF
  <1>1. c.rw \in {0, 1} /\ c.sector \in Nat /\ c.count \in Counts
    BY CommandsAssumption
  <1>2. c.sector .. c.sector + c.count - 1 \subseteq Sectors
    BY SectorsAssumption
  <1> QED BY <1>1, <1>2, MaxSectorsAssumption DEF Counts, Offsets

\* A table with a free slot has a first one.
LEMMA FirstFreeExists ==
  ASSUME FreeSlots # {}
  PROVE  FirstFree \in Chan /\ FirstFree \in FreeSlots
PROOF
  <1>1. FreeSlots \in SUBSET Nat
    BY DEF FreeSlots, Chan
  <1>2. PICK f \in FreeSlots : \A j \in FreeSlots : f <= j
    BY <1>1, NatHasMinimum
  <1> QED BY <1>2 DEF FirstFree, FreeSlots

\* Copying between buffers yields a buffer.
LEMMA CopyTyped ==
  ASSUME NEW n \in Nat, NEW src \in [Offsets -> Values], NEW dst \in [Offsets -> Values]
  PROVE  CopyFirst(n, src, dst) \in [Offsets -> Values]
PROOF BY DEF CopyFirst

-----------------------------------------------------------------------------
(* Type correctness.                                                       *)
LEMMA InitTypeOK == Init => TypeOK
PROOF
  <1> SUFFICES ASSUME Init PROVE TypeOK
    OBVIOUS
  <1>1. ssd_channels \in Channels
    <2>1. PICK head \in [Chan -> StaleHeads] :
            ssd_channels = [c \in Chan |-> [io_request_id       |-> NotInUse,
                                            completion_time     |-> 0,
                                            request_rw          |-> head[c][1],
                                            request_last_sector |-> head[c][2]]]
      BY DEF Init, setup
    <2>2. \A c \in Chan : head[c][1] \in Int /\ head[c][2] \in Int
      BY HeadsAssumption
    <2> QED BY <2>1, <2>2 DEF Channels, NotInUse
  <1>2. bio \in [Reqs -> [Offsets -> Values]]
    BY DEF Init, Values
  <1>3. /\ now \in Nat /\ request_inflight \in Int /\ udp_send_reply_id \in Nat \ {0}
        /\ latest_response_time \in Nat /\ next_time \in Nat /\ next_ids \subseteq Int
        /\ sleep_until \in Nat
    BY DEF Init
  <1>4. /\ stopped \in BOOLEAN /\ new_request_submitted \in BOOLEAN /\ timerFired \in BOOLEAN
    BY DEF Init
  <1>5. /\ stage \in [Reqs -> Stages]
        /\ mapping \in [Chan -> [request_id : Nat, req : Reqs \cup {NoReq}]]
        /\ data \in [Chan -> [Offsets -> Values]]
        /\ storage \in [Sectors -> Values]
    BY DEF Init, Stages, Values
  <1> QED BY <1>1, <1>2, <1>3, <1>4, <1>5 DEF Init, TypeOK

\* The transfer of a request's sectors keeps the buffers and the disk well-formed.
LEMMA TransferTyped ==
  ASSUME TypeOK, NEW r \in Reqs, NEW slot \in Chan, TransferData(r, slot)
  PROVE  data' \in [Chan -> [Offsets -> Values]] /\ storage' \in [Sectors -> Values]
PROOF
  <1>1. attr[r] \in Commands
    BY DEF TypeOK
  <1> DEFINE first == attr[r].sector
             count == attr[r].count
             buf == CopyFirst(count, bio[r], data[slot])
             got == [k \in Offsets |-> IF k < count THEN storage[first + k]
                                       ELSE data[slot][k]]
  <1>2. buf \in [Offsets -> Values]
    BY <1>1, CommandFits, CopyTyped DEF TypeOK
  <1>3. got \in [Offsets -> Values]
    BY <1>1, CommandFits DEF TypeOK
  <1>4. CASE attr[r].rw = WRITE
    <2>1. data' = [data EXCEPT ![slot] = buf]
      BY <1>4 DEF TransferData
    <2>2. storage' = [s \in Sectors |-> IF s - first \in 0 .. count - 1
                                         THEN buf[s - first] ELSE storage[s]]
      BY <1>4 DEF TransferData
    <2>3. \A x \in 0 .. count - 1 : buf[x] \in Values
      BY <1>1, <1>2, CommandFits
    <2> HIDE DEF buf
    <2> QED BY <1>2, <2>1, <2>2, <2>3 DEF TypeOK
  <1>5. CASE attr[r].rw # WRITE
    <2>1. data' = [data EXCEPT ![slot] = got] /\ storage' = storage
      BY <1>5 DEF TransferData
    <2> HIDE DEF got
    <2> QED BY <1>3, <2>1 DEF TypeOK
  <1> QED BY <1>4, <1>5

LEMMA SubmitTypeOK ==
  ASSUME TypeOK, NEW r \in Reqs, StrategySubmit(r)
  PROVE  TypeOK'
PROOF
  <1>1. FirstFree \in Chan
    BY FirstFreeExists DEF StrategySubmit, StrategyWouldSpin, Queued
  <1>2. attr[r] \in Commands
    BY DEF TypeOK
  <1>3. ssd_channels' \in Channels
    BY <1>2, CommandFits, SubmitBooks DEF TypeOK, StrategySubmit
  <1>4. data' \in [Chan -> [Offsets -> Values]] /\ storage' \in [Sectors -> Values]
    BY <1>1, TransferTyped DEF StrategySubmit
  <1>5. udp_send_reply_id' \in Nat \ {0}
    BY <1>2, CommandFits DEF StrategySubmit, TypeOK
  <1>6. mapping' \in [Chan -> [request_id : Nat, req : Reqs \cup {NoReq}]]
    BY <1>1 DEF StrategySubmit, TypeOK
  <1> QED
    BY <1>3, <1>4, <1>5, <1>6
    DEF StrategySubmit, StopsQueue, TypeOK, Stages, replyVars, taskVars

LEMMA CompleteTypeOK ==
  ASSUME TypeOK, TaskComplete
  PROVE  TypeOK'
PROOF
  <1>1. bio' \in [Reqs -> [Offsets -> Values]]
    <2> SUFFICES ASSUME NEW r \in Reqs, NEW i \in Batch, mapping[i].req = r
                 PROVE  CopyFirst(attr[r].count,
                                  data[CHOOSE j \in Batch : mapping[j].req = r], bio[r])
                          \in [Offsets -> Values]
      BY DEF TaskComplete, TypeOK
    <2>1. (CHOOSE j \in Batch : mapping[j].req = r) \in Chan
      BY DEF Batch
    <2>2. attr[r] \in Commands
      BY DEF TypeOK
    <2> QED BY <2>1, <2>2, CommandFits, CopyTyped DEF TypeOK
  <1>2. mapping' \in [Chan -> [request_id : Nat, req : Reqs \cup {NoReq}]]
    BY DEF TaskComplete, TypeOK
  <1>3. now' \in Nat
    BY BatchAssumption DEF TaskComplete, TypeOK
  <1> QED
    BY <1>1, <1>2, <1>3
    DEF TaskComplete, TypeOK, Stages, idVars, stratVars, serverVars

\* A reply of the emulator about its next completions is well-formed.
LEMMA ReplyTyped ==
  ASSUME TypeOK
  PROVE  LET next == get_next_responses(latest_response_time)
         IN  next.time \in Nat /\ next.ids \subseteq Int
PROOF
  <1>1. NextChannels(latest_response_time) \subseteq Chan
    BY DEF NextChannels, Pending
  <1>2. ssd_channels \in Channels /\ latest_response_time \in Nat
    BY DEF TypeOK
  <1>3. \A c \in Chan : ssd_channels[c].io_request_id \in Int
    BY <1>2 DEF Channels
  <1> QED BY <1>1, <1>2, <1>3, NextResponses

LEMMA NextTypeOK == TypeOK /\ [Next]_vars => TypeOK'
PROOF
  <1> SUFFICES ASSUME TypeOK, [Next]_vars PROVE TypeOK'
    OBVIOUS
  <1> USE DEF TypeOK, blockVars, replyVars, idVars, slotVars, stratVars, taskVars, serverVars
  <1>1. CASE Tick
    BY <1>1 DEF Tick
  <1>2. CASE TimerExpire
    BY <1>2 DEF TimerExpire
  <1>3. CASE BlockLayer
    <2>1. CASE \E r \in Reqs : Issue(r)
      BY <2>1 DEF Issue, Stages
    <2>2. CASE RunQueue
      BY <2>2 DEF RunQueue, EnterStrategy
    <2> QED BY <1>3, <2>1, <2>2 DEF BlockLayer
  <1>4. CASE Strategy
    <2>1. CASE \E r \in Reqs : StrategySubmit(r)
      BY <2>1, SubmitTypeOK
    <2>2. CASE \E r \in Reqs : StrategySkip(r)
      BY <2>2 DEF StrategySkip, Stages
    <2>3. CASE StrategyEmpty
      BY <2>3 DEF StrategyEmpty
    <2>4. CASE StrategyTail
      <3>1. next_time' \in Nat /\ next_ids' \subseteq Int
        BY <2>4, ReplyTyped DEF StrategyTail
      <3>2. taskState' \in {"running", "interruptible"}
        BY <2>4 DEF StrategyTail, wake_up_process
      <3>3. udp_send_reply_id' \in Nat \ {0}
        BY <2>4 DEF StrategyTail
      <3> QED BY <2>4, <3>1, <3>2, <3>3 DEF StrategyTail
    <2> QED BY <1>4, <2>1, <2>2, <2>3, <2>4 DEF Strategy
  <1>5. CASE Task
    <2>1. CASE TaskStart
      BY <2>1 DEF TaskStart, SleepIdle
    <2>2. CASE TaskIdleWake
      BY <2>2 DEF TaskIdleWake, SleepUntil
    <2>3. CASE TaskReturn
      BY <2>3 DEF TaskReturn
    <2>4. CASE TaskRelock
      BY <2>4 DEF TaskRelock, SleepUntil
    <2>5. CASE TaskComplete
      BY <2>5, CompleteTypeOK
    <2>6. CASE TaskGetNext
      <3>1. next_time' \in Nat /\ next_ids' \subseteq Int /\ udp_send_reply_id' \in Nat \ {0}
        BY <2>6, ReplyTyped DEF TaskGetNext
      <3>2. /\ taskPc' \in {"idle", "sleep", "batch"} /\ lock' \in {"none", "strategy", "task"}
            /\ taskState' \in {"running", "interruptible"}
            /\ sleep_until' \in Nat /\ timerFired' \in BOOLEAN
        BY <2>6, ReplyTyped DEF TaskGetNext, SleepIdle, SleepUntil
      <3> QED BY <2>6, <3>1, <3>2 DEF TaskGetNext
    <2> QED BY <1>5, <2>1, <2>2, <2>3, <2>4, <2>5, <2>6 DEF Task
  <1>6. ASSUME NEW r \in Reqs, EndRequest(r) PROVE TypeOK'
    BY <1>6 DEF EndRequest, Stages
  <1>7. ASSUME NEW r \in Reqs, SoftirqDone(r) PROVE TypeOK'
    <2>1. /\ stopped' \in BOOLEAN /\ new_request_submitted' \in BOOLEAN
          /\ lock' \in {"none", "strategy", "task"} /\ spc' \in {"off", "loop", "tail", "ending"}
      BY <1>7 DEF SoftirqDone, EnterStrategy
    <2> QED BY <1>7, <2>1 DEF SoftirqDone, Stages
  <1>8. CASE AddDisk
    BY <1>8 DEF AddDisk
  <1>9. CASE Exit
    BY <1>9 DEF Exit
  <1>10. CASE KthreadStop
    BY <1>10 DEF KthreadStop, wake_up_process
  <1>11. CASE Unloaded
    BY <1>11 DEF Unloaded
  <1>12. CASE UNCHANGED vars
    BY <1>12 DEF vars
  <1> QED
    BY <1>1, <1>2, <1>3, <1>4, <1>5, <1>6, <1>7, <1>8, <1>9, <1>10, <1>11, <1>12
    DEF Next, Softirq, Module, Finished

\* Every variable keeps its type, whatever the actors do.
THEOREM TypeCorrect == Spec => []TypeOK
PROOF BY InitTypeOK, NextTypeOK, PTL DEF Spec

-----------------------------------------------------------------------------
(* Counting.  The strategy goes on only while fewer requests are active    *)
(* than there are channels; hence a slot is free, and a channel has        *)
(* nothing to report any more.                                             *)
LEMMA ActiveFinite ==
  /\ IsFiniteSet(Active)
  /\ Cardinality(Active) \in Nat
PROOF
  <1>1. Active \in SUBSET Reqs
    BY DEF Active
  <1> QED BY <1>1, ReqsAssumption, FS_Subset, FS_CardinalityType

\* nctuss_put_request_id_to_req_mapping finds a slot: each slot in use holds a
\* request of its own that is in flight.
LEMMA SlotLeft ==
  ASSUME TypeOK, MappingExact, CountOK, spc = "loop"
  PROVE  FreeSlots # {}
PROOF
  <1> SUFFICES ASSUME FreeSlots = {} PROVE FALSE
    OBVIOUS
  <1> DEFINE holds == [i \in Chan |-> mapping[i].req]
  <1>1. UsedSlots = Chan
    BY DEF UsedSlots
  <1>2. \A i \in Chan : mapping[i].req \in Active
    BY <1>1 DEF MappingExact, Active
  <1>3. holds \in [Chan -> Active]
    BY <1>2
  <1>4. Cardinality(Active) < Cardinality(Chan)
    BY ChanFinite DEF CountOK
  <1>5. PICK i, j \in Chan : i # j /\ holds[i] = holds[j]
    <2> HIDE DEF holds
    <2> QED BY <1>3, <1>4, ActiveFinite, ChanFinite, FS_PigeonHole
  <1> QED BY <1>1, <1>5 DEF MappingExact

\* Some channel's last completion has been reported: each other one belongs to
\* a slot in use of its own.
LEMMA ChannelLeft ==
  ASSUME TypeOK, MappingExact, EmulatorAgrees, CountOK, spc = "loop"
  PROVE  \E c \in Chan : c \notin Outstanding
PROOF
  <1> SUFFICES ASSUME \A c \in Chan : c \in Outstanding PROVE FALSE
    OBVIOUS
  <1> DEFINE slot == [c \in Chan |-> CHOOSE i \in UsedSlots :
                                       mapping[i].request_id = ssd_channels[c].io_request_id]
  <1>1. \A c \in Chan : /\ slot[c] \in UsedSlots
                        /\ mapping[slot[c]].request_id = ssd_channels[c].io_request_id
    BY DEF EmulatorAgrees
  <1>2. slot \in [Chan -> UsedSlots]
    BY <1>1
  <1> HIDE DEF slot
  <1>3. UsedSlots \in SUBSET Chan /\ UsedSlots # Chan
    BY SlotLeft DEF UsedSlots, FreeSlots
  <1>4. IsFiniteSet(UsedSlots) /\ Cardinality(UsedSlots) < Cardinality(Chan)
    <2>1. IsFiniteSet(UsedSlots) /\ Cardinality(UsedSlots) <= Cardinality(Chan)
          /\ Cardinality(UsedSlots) # Cardinality(Chan)
      BY <1>3, ChanFinite, FS_Subset
    <2>2. Cardinality(UsedSlots) \in Nat /\ Cardinality(Chan) \in Nat
      BY <2>1, ChanFinite, FS_CardinalityType
    <2> QED BY <2>1, <2>2
  <1>5. PICK c, d \in Chan : c # d /\ slot[c] = slot[d]
    BY <1>2, <1>4, ChanFinite, FS_PigeonHole
  <1>6. ssd_channels[c].io_request_id = ssd_channels[d].io_request_id
    BY <1>1, <1>5
  <1> QED BY <1>5, <1>6 DEF EmulatorAgrees

\* So submit_request finds a channel that is not busy, and never books one whose
\* completion the driver has still to hear of.
LEMMA OldestReported ==
  ASSUME TypeOK, MappingExact, EmulatorAgrees, CountOK, latest_response_time < now,
         spc = "loop"
  PROVE  OldestChannel \in Chan \ Outstanding /\ Accepts(now)
PROOF
  <1>1. PICK c \in Chan : c \notin Outstanding
    BY ChannelLeft
  <1>2. \A d \in Chan : CompletionTime(d) \in Nat
    BY DEF TypeOK, Channels, CompletionTime
  <1>3. latest_response_time \in Nat /\ now \in Nat
    BY DEF TypeOK
  <1>4. CompletionTime(c) <= latest_response_time
    BY <1>1, <1>2, <1>3 DEF Outstanding, Pending
  <1>5. OldestChannel \in Chan /\ CompletionTime(OldestChannel) <= CompletionTime(c)
    BY <1>2, OldestExists DEF TypeOK, Oldest
  <1>6. CompletionTime(OldestChannel) <= latest_response_time
    BY <1>2, <1>3, <1>4, <1>5
  <1> QED BY <1>2, <1>3, <1>5, <1>6 DEF Outstanding, Pending, Accepts

-----------------------------------------------------------------------------
(* What most steps leave alone.                                            *)

\* No slot, no channel and no report changes: the tables still agree.
LEMMA BooksKept ==
  ASSUME TypeOK, IdsOK, MappingExact, EmulatorAgrees,
         UNCHANGED <<mapping, ssd_channels, latest_response_time>>,
         udp_send_reply_id' \in Nat, udp_send_reply_id' >= udp_send_reply_id,
         \A r \in Reqs : stage'[r] = "inflight" <=> stage[r] = "inflight"
  PROVE  IdsOK' /\ MappingExact' /\ EmulatorAgrees'
PROOF
  <1>1. IdsOK'
    BY DEF IdsOK, TypeOK
  <1>2. UsedSlots' = UsedSlots /\ Outstanding' = Outstanding
    BY DEF UsedSlots, FreeSlots, Outstanding, Pending, CompletionTime
  <1>3. MappingExact'
    <2>1. {r \in Reqs : stage'[r] = "inflight"} = {r \in Reqs : stage[r] = "inflight"}
      OBVIOUS
    <2> QED BY <1>2, <2>1 DEF MappingExact
  <1>4. EmulatorAgrees'
    BY <1>2 DEF EmulatorAgrees
  <1> QED BY <1>1, <1>3, <1>4

\* Nor does what the driver expects next.
LEMMA NextKept ==
  ASSUME NextOK, UNCHANGED <<replyVars, ssd_channels>>,
         taskPc' # "getnext" => taskPc # "getnext",
         spc' = "off" \/ ~new_request_submitted' => spc = "off" \/ ~new_request_submitted
  PROVE  NextOK'
PROOF
  <1>1. /\ Outstanding' = Outstanding
        /\ NextChannels(latest_response_time)' = NextChannels(latest_response_time)
    BY DEF Outstanding, NextChannels, Pending, CompletionTime, replyVars
  <1>2. \A c : CompletionTime(c)' = CompletionTime(c)
    BY DEF CompletionTime
  <1> QED BY <1>1, <1>2 DEF NextOK, replyVars

\* Nor how many requests are active.
LEMMA CountKept ==
  ASSUME CountOK, UNCHANGED <<request_inflight, stopped>>,
         spc' = spc,
         \A r \in Reqs : (stage'[r] \in {"inflight", "completing", "ended"})
                           <=> (stage[r] \in {"inflight", "completing", "ended"})
  PROVE  CountOK'
PROOF
  <1>1. Active' = Active
    BY DEF Active
  <1> QED BY <1>1 DEF CountOK

-----------------------------------------------------------------------------
(* Each action keeps the invariant.                                        *)
LEMMA InitInv == Init => IInv
PROOF
  <1> SUFFICES ASSUME Init PROVE IInv
    OBVIOUS
  <1>1. UsedSlots = {} /\ Active = {}
    BY DEF Init, UsedSlots, FreeSlots, Active
  <1>2. \A c \in Chan : CompletionTime(c) = 0
    BY DEF Init, setup, CompletionTime
  <1>3. Outstanding = {} /\ NextChannels(latest_response_time) = {}
    BY <1>2 DEF Init, Outstanding, Pending, NextChannels
  <1>4. LockOK /\ PhaseOK /\ latest_response_time < now /\ TaskOK /\ IdsOK
    BY DEF Init, LockOK, PhaseOK, TaskOK, IdsOK
  <1>5. MappingExact
    BY <1>1 DEF Init, MappingExact
  <1>6. EmulatorAgrees
    BY <1>1, <1>3 DEF EmulatorAgrees
  <1>7. NextOK
    BY <1>3 DEF Init, NextOK
  <1>8. CountOK
    BY <1>1, FS_EmptySet, ChannelsAssumption DEF Init, CountOK
  <1> QED BY <1>4, <1>5, <1>6, <1>7, <1>8 DEF IInv

\* The clock, the timer, and the steps of loading and unloading.
LEMMA TickInv ==
  ASSUME TypeOK, IInv, Tick
  PROVE  IInv'
PROOF
  <1> USE DEF Tick, blockVars, replyVars, idVars, slotVars, stratVars, taskVars, serverVars
  <1>1. IdsOK' /\ MappingExact' /\ EmulatorAgrees'
    BY BooksKept DEF TypeOK, IInv
  <1>2. NextOK' /\ CountOK'
    BY NextKept, CountKept DEF IInv
  <1>3. (latest_response_time < now)' /\ TaskOK'
    BY DEF TypeOK, IInv, TaskOK
  <1>4. LockOK' /\ PhaseOK'
    BY DEF IInv, LockOK, PhaseOK
  <1> QED BY <1>1, <1>2, <1>3, <1>4 DEF IInv

LEMMA TimerExpireInv ==
  ASSUME TypeOK, IInv, TimerExpire
  PROVE  IInv'
PROOF
  <1> USE DEF TimerExpire, blockVars, replyVars, idVars, slotVars, stratVars, serverVars
  <1>1. IdsOK' /\ MappingExact' /\ EmulatorAgrees'
    BY BooksKept DEF TypeOK, IInv
  <1>2. NextOK' /\ CountOK'
    BY NextKept, CountKept DEF IInv
  <1>3. (latest_response_time < now)' /\ TaskOK'
    BY DEF TypeOK, IInv, TaskOK
  <1>4. LockOK' /\ PhaseOK'
    BY DEF IInv, LockOK, PhaseOK
  <1> QED BY <1>1, <1>2, <1>3, <1>4 DEF IInv

LEMMA AddDiskInv ==
  ASSUME TypeOK, IInv, AddDisk
  PROVE  IInv'
PROOF
  <1> USE DEF AddDisk, blockVars, replyVars, idVars, slotVars, stratVars, taskVars, serverVars
  <1>1. IdsOK' /\ MappingExact' /\ EmulatorAgrees'
    BY BooksKept DEF TypeOK, IInv
  <1>2. NextOK' /\ CountOK'
    BY NextKept, CountKept DEF IInv
  <1>3. LockOK' /\ PhaseOK' /\ (latest_response_time < now)' /\ TaskOK'
    BY DEF TypeOK, IInv, LockOK, PhaseOK, TaskOK
  <1> QED BY <1>1, <1>2, <1>3 DEF IInv

\* When every request has ended the driver expects nothing and the task is on
\* its way to sleep without a timer.
LEMMA ExitInv ==
  ASSUME TypeOK, IInv, Exit
  PROVE  IInv'
PROOF
  <1> USE DEF Exit, blockVars, replyVars, idVars, slotVars, stratVars, taskVars, serverVars
  <1>1. IdsOK' /\ MappingExact' /\ EmulatorAgrees'
    BY BooksKept DEF TypeOK, IInv
  <1>2. NextOK' /\ CountOK'
    BY NextKept, CountKept DEF IInv
  <1>3. UsedSlots = {}
    <2>1. {r \in Reqs : stage[r] = "inflight"} = {}
      OBVIOUS
    <2> QED BY <2>1 DEF IInv, MappingExact
  <1>4. Outstanding = {}
    BY <1>3 DEF IInv, EmulatorAgrees
  <1>5. spc = "off" /\ taskPc \notin {"batch", "getnext"}
    BY DEF IInv, LockOK
  <1>6. next_ids = {}
    BY <1>4, <1>5 DEF IInv, NextOK
  <1>7. LockOK' /\ PhaseOK' /\ (latest_response_time < now)' /\ TaskOK'
    BY <1>5, <1>6 DEF TypeOK, IInv, LockOK, PhaseOK, TaskOK
  <1> QED BY <1>1, <1>2, <1>7 DEF IInv

LEMMA KthreadStopInv ==
  ASSUME TypeOK, IInv, KthreadStop
  PROVE  IInv'
PROOF
  <1> USE DEF KthreadStop, wake_up_process, blockVars, replyVars, idVars, slotVars,
              stratVars, serverVars
  <1>1. IdsOK' /\ MappingExact' /\ EmulatorAgrees'
    BY BooksKept DEF TypeOK, IInv
  <1>2. NextOK' /\ CountOK'
    BY NextKept, CountKept DEF IInv
  <1>3. LockOK' /\ PhaseOK' /\ (latest_response_time < now)' /\ TaskOK'
    BY DEF TypeOK, IInv, LockOK, PhaseOK, TaskOK
  <1> QED BY <1>1, <1>2, <1>3 DEF IInv

LEMMA UnloadedInv ==
  ASSUME TypeOK, IInv, Unloaded
  PROVE  IInv'
PROOF
  <1> USE DEF Unloaded, blockVars, replyVars, idVars, slotVars, stratVars, taskVars, serverVars
  <1>1. IdsOK' /\ MappingExact' /\ EmulatorAgrees'
    BY BooksKept DEF TypeOK, IInv
  <1>2. NextOK' /\ CountOK'
    BY NextKept, CountKept DEF IInv
  <1>3. LockOK' /\ PhaseOK' /\ (latest_response_time < now)' /\ TaskOK'
    BY DEF TypeOK, IInv, LockOK, PhaseOK, TaskOK
  <1> QED BY <1>1, <1>2, <1>3 DEF IInv

\* The block layer.
LEMMA IssueInv ==
  ASSUME TypeOK, IInv, NEW r \in Reqs, Issue(r)
  PROVE  IInv'
PROOF
  <1> USE DEF Issue, replyVars, idVars, slotVars, stratVars, taskVars, serverVars
  <1>1. /\ stage[r] = "new" /\ stage'[r] = "queued"
        /\ \A q \in Reqs : q # r => stage'[q] = stage[q]
    BY DEF TypeOK
  <1>2. IdsOK' /\ MappingExact' /\ EmulatorAgrees'
    BY <1>1, BooksKept DEF TypeOK, IInv
  <1>3. NextOK' /\ CountOK'
    BY <1>1, NextKept, CountKept DEF IInv
  <1>4. LockOK' /\ PhaseOK' /\ (latest_response_time < now)' /\ TaskOK'
    BY DEF TypeOK, IInv, LockOK, PhaseOK, TaskOK
  <1> QED BY <1>2, <1>3, <1>4 DEF IInv

LEMMA RunQueueInv ==
  ASSUME TypeOK, IInv, RunQueue
  PROVE  IInv'
PROOF
  <1> USE DEF RunQueue, EnterStrategy, blockVars, replyVars, idVars, slotVars, taskVars,
              serverVars
  <1>1. spc = "off" /\ taskPc \notin {"batch", "getnext"}
    BY DEF IInv, LockOK
  <1>2. PICK r \in Reqs : stage[r] = "queued"
    BY DEF Queued
  <1>3. phase = "live"
    BY <1>2 DEF TypeOK, IInv, PhaseOK
  <1>4. IdsOK' /\ MappingExact' /\ EmulatorAgrees'
    BY BooksKept DEF TypeOK, IInv
  <1>5. NextOK'
    BY <1>1, NextKept DEF IInv
  <1>6. CountOK'
    <2>1. Active' = Active
      BY DEF Active
    <2>2. request_inflight <= disk_channels /\ request_inflight # disk_channels
      BY <1>1 DEF IInv, CountOK
    <2>3. request_inflight < disk_channels
      BY <2>2, ChannelsAssumption DEF TypeOK
    <2> QED BY <2>1, <2>3 DEF IInv, CountOK
  <1>7. LockOK' /\ PhaseOK' /\ (latest_response_time < now)' /\ TaskOK'
    BY <1>1, <1>3 DEF TypeOK, IInv, LockOK, PhaseOK, TaskOK
  <1> QED BY <1>4, <1>5, <1>6, <1>7 DEF IInv

-----------------------------------------------------------------------------
(* The softirq.                                                            *)
LEMMA EndRequestInv ==
  ASSUME TypeOK, IInv, NEW r \in Reqs, EndRequest(r)
  PROVE  IInv'
PROOF
  <1> USE DEF EndRequest, replyVars, idVars, slotVars, stratVars, taskVars, serverVars
  <1>1. /\ stage[r] = "completing" /\ stage'[r] = "ended"
        /\ \A q \in Reqs : q # r => stage'[q] = stage[q]
    BY DEF TypeOK
  <1>2. IdsOK' /\ MappingExact' /\ EmulatorAgrees'
    BY <1>1, BooksKept DEF TypeOK, IInv
  <1>3. NextOK' /\ CountOK'
    BY <1>1, NextKept, CountKept DEF IInv
  <1>4. LockOK' /\ PhaseOK' /\ (latest_response_time < now)' /\ TaskOK'
    BY <1>1 DEF TypeOK, IInv, LockOK, PhaseOK, TaskOK
  <1> QED BY <1>2, <1>3, <1>4 DEF IInv

LEMMA SoftirqDoneInv ==
  ASSUME TypeOK, IInv, NEW r \in Reqs, SoftirqDone(r)
  PROVE  IInv'
PROOF
  <1> USE DEF SoftirqDone, EnterStrategy, replyVars, slotVars, stratVars, taskVars, serverVars
  <1>1. /\ stage[r] = "ended" /\ stage'[r] = "done"
        /\ \A q \in Reqs : q # r => stage'[q] = stage[q]
    BY DEF TypeOK
  <1>2. spc = "off" /\ taskPc \notin {"batch", "getnext"}
    BY DEF IInv, LockOK
  <1>3. IdsOK' /\ MappingExact' /\ EmulatorAgrees'
    BY <1>1, BooksKept DEF TypeOK, IInv
  <1>4. NextOK'
    BY <1>2, NextKept DEF IInv
  <1>5. CountOK'
    <2>1. Active' = Active \ {r} /\ r \in Active
      BY <1>1 DEF Active
    <2>2. Cardinality(Active') = Cardinality(Active) - 1
      BY <2>1, ActiveFinite, FS_RemoveElement
    <2>3. /\ request_inflight' = Cardinality(Active')
          /\ request_inflight' < disk_channels
      BY <2>2, ActiveFinite, ChannelsAssumption DEF IInv, CountOK
    <2>4. ~stopped' /\ spc' \in {"off", "loop"}
      <3>1. CASE stopped
        BY <3>1
      <3>2. CASE ~stopped
        BY <1>2, <3>2
      <3> QED BY <3>1, <3>2
    <2>5. request_inflight' \in Int /\ disk_channels \in Nat
      BY ChannelsAssumption DEF TypeOK
    <2> QED BY <2>3, <2>4, <2>5 DEF CountOK
  <1>6. phase # "probe"
    BY <1>1 DEF IInv, PhaseOK
  <1>7. LockOK'
    <2>1. CASE stopped
      BY <1>2, <2>1 DEF IInv, LockOK
    <2>2. CASE ~stopped
      BY <2>2 DEF IInv, LockOK
    <2> QED BY <2>1, <2>2
  <1>8. PhaseOK'
    <2>1. spc' # "off" => ~new_request_submitted'
      <3>1. CASE stopped
        BY <3>1
      <3>2. CASE ~stopped
        BY <1>2, <3>2
      <3> QED BY <3>1, <3>2
    <2> QED BY <1>1, <1>6, <2>1 DEF TypeOK, IInv, PhaseOK
  <1>9. (latest_response_time < now)' /\ TaskOK'
    BY DEF TypeOK, IInv, TaskOK
  <1> QED BY <1>3, <1>4, <1>5, <1>7, <1>8, <1>9 DEF IInv

-----------------------------------------------------------------------------
(* The strategy.                                                           *)
LEMMA StrategyEmptyInv ==
  ASSUME TypeOK, IInv, StrategyEmpty
  PROVE  IInv'
PROOF
  <1> USE DEF StrategyEmpty, blockVars, replyVars, idVars, slotVars, taskVars, serverVars
  <1>1. IdsOK' /\ MappingExact' /\ EmulatorAgrees'
    BY BooksKept DEF TypeOK, IInv
  <1>2. NextOK'
    BY NextKept DEF IInv
  <1>3. CountOK'
    <2>1. Active' = Active
      BY DEF Active
    <2> QED BY <2>1, ChannelsAssumption DEF TypeOK, IInv, CountOK
  <1>4. LockOK' /\ PhaseOK' /\ (latest_response_time < now)' /\ TaskOK'
    BY DEF TypeOK, IInv, LockOK, PhaseOK, TaskOK
  <1> QED BY <1>1, <1>2, <1>3, <1>4 DEF IInv

LEMMA StrategySkipInv ==
  ASSUME TypeOK, IInv, NEW r \in Reqs, StrategySkip(r)
  PROVE  IInv'
PROOF
  <1> USE DEF StrategySkip, replyVars, idVars, slotVars, taskVars, serverVars
  <1>1. /\ stage[r] = "queued" /\ stage'[r] = "dequeued"
        /\ \A q \in Reqs : q # r => stage'[q] = stage[q]
    BY DEF TypeOK
  <1>2. phase = "live"
    BY <1>1 DEF TypeOK, IInv, PhaseOK
  <1>3. IdsOK' /\ MappingExact' /\ EmulatorAgrees'
    BY <1>1, BooksKept DEF TypeOK, IInv
  <1>4. NextOK'
    BY NextKept DEF IInv
  <1>5. CountOK'
    <2>1. Active' = Active
      BY <1>1 DEF Active
    <2> QED BY <2>1 DEF IInv, CountOK
  <1>6. LockOK' /\ PhaseOK' /\ (latest_response_time < now)' /\ TaskOK'
    BY <1>1, <1>2 DEF TypeOK, IInv, LockOK, PhaseOK, TaskOK
  <1> QED BY <1>3, <1>4, <1>5, <1>6 DEF IInv

\* A submission takes a free slot and a channel with nothing to report, under an
\* id neither table has seen.
LEMMA StrategySubmitInv ==
  ASSUME TypeOK, IInv, NEW r \in Reqs, StrategySubmit(r)
  PROVE  IInv'
PROOF
  <1>1. PICK f \in FreeSlots : f = FirstFree /\ f \in Chan
    BY FirstFreeExists DEF StrategySubmit, StrategyWouldSpin, Queued
  <1>2. PICK o \in Chan : o = OldestChannel /\ o \notin Outstanding /\ Accepts(now)
    BY OldestReported DEF StrategySubmit, IInv
  <1>id. PICK n \in Nat \ {0} : n = udp_send_reply_id
    BY DEF TypeOK
  <1>cmd. attr[r] \in Commands /\ attr[r].count \in Nat \ {0}
    BY CommandFits DEF TypeOK, Counts
  <1>3. /\ ssd_channels' \in Channels
        /\ ssd_channels'[o].io_request_id = n
        /\ ssd_channels'[o].completion_time >= now
        /\ \A c \in Chan \ {o} : ssd_channels'[c] = ssd_channels[c]
    <2>1. submit_request(now, attr[r].rw, attr[r].sector, attr[r].count, n)
      BY <1>id DEF StrategySubmit
    <2>2. ssd_channels \in Channels /\ now \in Nat /\ n \in Int
      BY DEF TypeOK
    <2>3. attr[r].rw \in {0, 1} /\ attr[r].sector \in Nat /\ attr[r].count \in Counts
      BY <1>cmd, CommandFits
    <2> QED BY <1>2, <2>1, <2>2, <2>3, SubmitBooks
  <1>4. /\ mapping'[f] = [request_id |-> n, req |-> r]
        /\ \A i \in Chan \ {f} : mapping'[i] = mapping[i]
    BY <1>1, <1>id DEF TypeOK, StrategySubmit
  <1>5. /\ stage[r] = "queued" /\ stage'[r] = "inflight"
        /\ \A q \in Reqs : q # r => stage'[q] = stage[q]
    BY DEF TypeOK, StrategySubmit
  <1>6. UNCHANGED <<now, lock, latest_response_time, next_time, next_ids, taskPc,
                    taskState, sleep_until, timerFired, phase>>
    BY DEF StrategySubmit, replyVars, taskVars
  <1>7. udp_send_reply_id' \in Nat /\ udp_send_reply_id' > n
    BY <1>id, <1>cmd DEF StrategySubmit
  <1>8. spc = "loop" /\ spc' \in {"loop", "tail"} /\ new_request_submitted' = TRUE
    BY DEF StrategySubmit
  <1>9. phase = "live"
    BY <1>5 DEF TypeOK, IInv, PhaseOK
  <1>10. latest_response_time \in Nat /\ now \in Nat
    BY DEF TypeOK
  <1>11. UsedSlots' = UsedSlots \cup {f} /\ f \notin UsedSlots
    BY <1>1, <1>4, <1>7 DEF UsedSlots, FreeSlots
  <1>12. Outstanding' = Outstanding \cup {o}
    <2>1. \A c \in Chan \ {o} : CompletionTime(c)' = CompletionTime(c)
      BY <1>3 DEF CompletionTime
    <2>2. CompletionTime(o)' > latest_response_time
      BY <1>2, <1>3, <1>10 DEF IInv, CompletionTime, Channels
    <2> QED BY <1>2, <1>6, <2>1, <2>2 DEF Outstanding, Pending
  <1>13. /\ \A c \in Outstanding : c \in Chan \ {o}
         /\ \A i \in UsedSlots : i \in Chan \ {f}
    BY <1>1, <1>2, <1>11 DEF Outstanding, Pending, UsedSlots
  <1>14. \A i \in UsedSlots : mapping[i].request_id # n
    BY <1>id, <1>13 DEF IInv, IdsOK, TypeOK
  <1>15. \A c \in Outstanding : ssd_channels[c].io_request_id # n
    BY <1>14 DEF IInv, EmulatorAgrees
  <1>16. IdsOK'
    BY <1>1, <1>4, <1>7, <1>id DEF IInv, IdsOK, TypeOK
  <1>17. MappingExact'
    <2>1. {q \in Reqs : stage'[q] = "inflight"}
            = {q \in Reqs : stage[q] = "inflight"} \cup {r}
      BY <1>5
    <2>2. {mapping'[i].req : i \in UsedSlots'}
            = {mapping[i].req : i \in UsedSlots} \cup {r}
      BY <1>4, <1>11, <1>13
    <2>3. \A i \in UsedSlots : mapping[i].req # r
      BY <1>5 DEF IInv, MappingExact
    <2>4. \A i, j \in UsedSlots' :
            (\/ mapping'[i].request_id = mapping'[j].request_id
             \/ mapping'[i].req = mapping'[j].req) => i = j
      BY <1>4, <1>11, <1>13, <1>14, <2>3 DEF IInv, MappingExact
    <2> QED BY <2>1, <2>2, <2>4 DEF IInv, MappingExact
  <1>18. EmulatorAgrees'
    <2>1. \A c \in Outstanding' : \E i \in UsedSlots' :
            mapping'[i].request_id = ssd_channels'[c].io_request_id
      BY <1>3, <1>4, <1>11, <1>12, <1>13 DEF IInv, EmulatorAgrees
    <2>2. \A i \in UsedSlots' : \E c \in Outstanding' :
            mapping'[i].request_id = ssd_channels'[c].io_request_id
      BY <1>3, <1>4, <1>11, <1>12, <1>13 DEF IInv, EmulatorAgrees
    <2>3. \A c, d \in Outstanding' :
            ssd_channels'[c].io_request_id = ssd_channels'[d].io_request_id => c = d
      BY <1>3, <1>12, <1>13, <1>15 DEF IInv, EmulatorAgrees
    <2> QED BY <2>1, <2>2, <2>3 DEF EmulatorAgrees
  <1>19. NextOK'
    <2>1. \A c \in Outstanding : /\ c \in Outstanding'
                                 /\ CompletionTime(c)' = CompletionTime(c)
                                 /\ ssd_channels'[c].io_request_id
                                      = ssd_channels[c].io_request_id
      BY <1>3, <1>12, <1>13 DEF CompletionTime
    <2> QED BY <1>6, <1>8, <2>1 DEF IInv, NextOK
  <1>20. CountOK'
    <2>1. Active' = Active \cup {r} /\ r \notin Active
      BY <1>5 DEF Active
    <2>2. Cardinality(Active') = Cardinality(Active) + 1
      BY <2>1, ActiveFinite, FS_AddElement
    <2>3. /\ request_inflight < disk_channels
          /\ request_inflight' = request_inflight + 1
          /\ request_inflight' = Cardinality(Active')
      BY <1>8, <2>2 DEF IInv, CountOK, StrategySubmit
    <2>4. request_inflight \in Int /\ disk_channels \in Nat
      BY ChannelsAssumption DEF TypeOK
    <2>5. stopped' <=> request_inflight' = disk_channels
      <3>1. request_inflight' >= disk_channels <=> request_inflight' = disk_channels
        BY <2>3, <2>4
      <3> QED BY <3>1, Zenon DEF StrategySubmit, StopsQueue
    <2>6. spc' = "loop" => ~stopped'
      BY DEF StrategySubmit
    <2> QED BY <1>8, <2>3, <2>4, <2>5, <2>6 DEF CountOK
  <1>21. LockOK' /\ PhaseOK' /\ (latest_response_time < now)' /\ TaskOK'
    BY <1>6, <1>8, <1>9 DEF TypeOK, IInv, LockOK, PhaseOK, TaskOK
  <1> QED BY <1>16, <1>17, <1>18, <1>19, <1>20, <1>21 DEF IInv

\* The reply of get_next_responses against what the driver expected.  Between
\* two submissions the ids expected are some of those that complete next.
LEMMA ExpectedIsNext ==
  ASSUME TypeOK, IInv, taskPc # "getnext"
  PROVE  LET next == get_next_responses(latest_response_time)
         IN  /\ next.ids = {} => next_ids = {}
             /\ next_ids # {} => next.ids # {} /\ next.time <= next_time
             /\ next_ids # {} /\ next.time = next_time => next_ids \subseteq next.ids
PROOF
  <1> DEFINE next == get_next_responses(latest_response_time)
  <1>1. ssd_channels \in Channels /\ latest_response_time \in Nat
    BY DEF TypeOK
  <1>2. /\ next.ids = {ssd_channels[c].io_request_id : c \in NextChannels(latest_response_time)}
        /\ next.ids = {} <=> Outstanding = {}
        /\ \A c \in Outstanding : next.time <= CompletionTime(c)
    BY <1>1, NextResponses DEF Outstanding
  <1> HIDE DEF next
  <1>3. next_ids # {} => \E c \in Outstanding : CompletionTime(c) = next_time
    BY DEF IInv, NextOK
  <1>4. next.time = next_time => next_ids \subseteq next.ids
    <2> SUFFICES ASSUME next.time = next_time, NEW id \in next_ids PROVE id \in next.ids
      OBVIOUS
    <2>1. PICK c \in Outstanding : /\ CompletionTime(c) = next_time
                                   /\ ssd_channels[c].io_request_id = id
      BY DEF IInv, NextOK
    <2>2. c \in NextChannels(latest_response_time)
      BY <1>2, <2>1 DEF NextChannels, Outstanding
    <2> QED BY <1>2, <2>1, <2>2
  <1> QED BY <1>2, <1>3, <1>4 DEF next

\* Whether or not the strategy changes it, what it leaves is the reply.
LEMMA TailLearnsNext ==
  ASSUME TypeOK, IInv, StrategyTail, new_request_submitted
  PROVE  LET next == get_next_responses(latest_response_time)
         IN  next_ids' = next.ids /\ (next.ids # {} => next_time' = next.time)
PROOF
  <1> DEFINE next == get_next_responses(latest_response_time)
  <1>1. taskPc # "getnext"
    BY DEF StrategyTail, IInv, LockOK
  <1>2. /\ next.ids = {} => next_ids = {}
        /\ next_ids # {} => next.ids # {} /\ next.time <= next_time
        /\ next_ids # {} /\ next.time = next_time => next_ids \subseteq next.ids
    BY <1>1, ExpectedIsNext
  <1>3. next.time \in Nat /\ next_time \in Nat
    BY ReplyTyped DEF TypeOK
  <1>4. IF NextResponseChanges(next) THEN next_time' = next.time /\ next_ids' = next.ids
                                     ELSE next_time' = next_time /\ next_ids' = next_ids
    BY DEF StrategyTail
  <1>5. IsFiniteSet(next.ids)
    <2> DEFINE C == NextChannels(latest_response_time)
               id == [c \in C |-> ssd_channels[c].io_request_id]
    <2>1. next.ids = {ssd_channels[c].io_request_id : c \in C}
      BY NextResponses DEF TypeOK
    <2>2. C \in SUBSET Chan
      BY DEF NextChannels, Pending
    <2>3. IsFiniteSet(C)
      BY <2>2, ChanFinite, FS_Subset
    <2> HIDE DEF C, next
    <2>4. id \in Surjection(C, next.ids)
      <3>1. id \in [C -> next.ids]
        BY <2>1
      <3>2. \A x \in next.ids : \E c \in C : id[c] = x
        BY <2>1
      <3> QED BY <3>1, <3>2 DEF Surjection
    <2> HIDE DEF id
    <2> QED BY <2>3, <2>4, FS_Surjection
  <1> HIDE DEF next
  <1>6. CASE NextResponseChanges(next)
    BY <1>4, <1>6 DEF next
  <1>7. CASE ~NextResponseChanges(next)
    <2>1. CASE next.ids = {}
      BY <1>2, <1>4, <1>7, <2>1 DEF next
    <2>2. CASE next.ids # {}
      <3>1. next_ids # {} /\ next_time = next.time
        BY <1>2, <1>3, <1>7, <2>2 DEF NextResponseChanges
      <3>2. ~(Cardinality(next_ids) < Cardinality(next.ids))
        BY <1>7, <2>2, <3>1 DEF NextResponseChanges
      <3>3. next_ids \in SUBSET next.ids
        BY <1>2, <3>1
      <3>4. /\ IsFiniteSet(next_ids) /\ Cardinality(next_ids) <= Cardinality(next.ids)
            /\ Cardinality(next_ids) = Cardinality(next.ids) => next_ids = next.ids
        BY <1>5, <3>3, FS_Subset
      <3>5. Cardinality(next_ids) \in Nat /\ Cardinality(next.ids) \in Nat
        BY <1>5, <3>4, FS_CardinalityType
      <3> QED BY <1>4, <1>7, <3>1, <3>2, <3>4, <3>5 DEF next
    <2> QED BY <2>1, <2>2
  <1> QED BY <1>6, <1>7

LEMMA StrategyTailInv ==
  ASSUME TypeOK, IInv, StrategyTail
  PROVE  IInv'
PROOF
  <1> DEFINE next == get_next_responses(latest_response_time)
             N == NextChannels(latest_response_time)
  <1>1. /\ spc = "tail" /\ spc' = "off" /\ lock = "strategy" /\ lock' = "none"
        /\ taskPc' = taskPc /\ taskPc \notin {"batch", "getnext"}
    BY DEF StrategyTail, IInv, LockOK
  <1>2. UNCHANGED <<now, blockVars, stopped, slotVars, request_inflight,
                    latest_response_time, sleep_until, timerFired, phase, serverVars>>
    BY DEF StrategyTail
  <1>3. phase # "probe"
    BY <1>1 DEF IInv, PhaseOK
  <1>4. udp_send_reply_id' \in Nat /\ udp_send_reply_id' >= udp_send_reply_id
    <2>1. udp_send_reply_id \in Nat
      BY DEF TypeOK
    <2> QED BY <2>1 DEF StrategyTail
  <1>5. IdsOK' /\ MappingExact' /\ EmulatorAgrees'
    BY <1>2, <1>4, BooksKept DEF IInv, blockVars, slotVars, serverVars
  <1>6. CountOK'
    <2>1. Active' = Active
      BY <1>2 DEF Active, blockVars
    <2> QED BY <1>1, <1>2, <2>1 DEF IInv, CountOK
  <1>7. (latest_response_time < now)'
    BY <1>2 DEF IInv
  <1>8. CASE ~new_request_submitted
    <2>1. UNCHANGED <<next_time, next_ids, taskState, new_request_submitted>>
      BY <1>8 DEF StrategyTail
    <2>2. NextOK'
      BY <1>1, <1>2, <1>8, <2>1, NextKept DEF IInv, replyVars, serverVars
    <2>3. LockOK' /\ PhaseOK' /\ TaskOK'
      BY <1>1, <1>2, <1>3, <2>1 DEF IInv, LockOK, PhaseOK, TaskOK, blockVars
    <2> QED BY <1>5, <1>6, <1>7, <2>2, <2>3 DEF IInv
  <1>9. CASE new_request_submitted
    <2>1. next_ids' = next.ids /\ (next.ids # {} => next_time' = next.time)
      BY <1>9, TailLearnsNext
    <2>2. /\ next.ids = {} => next_ids = {}
          /\ next_ids # {} => next.ids # {} /\ next.time <= next_time
      BY <1>1, ExpectedIsNext
    <2>3. taskState' = IF NeedToWakeUp(next) THEN "running" ELSE taskState
      BY <1>9 DEF StrategyTail, wake_up_process
    <2>4. phase = "live"
      BY <1>1, <1>3, <1>9 DEF TypeOK, IInv, PhaseOK
    <2>5. next.time \in Nat /\ next_time \in Nat /\ next_time' \in Nat /\ sleep_until \in Nat
      <3>1. next.time \in Nat /\ next_time \in Nat /\ sleep_until \in Nat
        BY ReplyTyped DEF TypeOK
      <3>2. next_time' = next.time \/ next_time' = next_time
        BY <1>9 DEF StrategyTail
      <3> QED BY <3>1, <3>2
    <2>6. /\ next.ids = {ssd_channels[c].io_request_id : c \in N}
          /\ \A c \in N : CompletionTime(c) = next.time
      BY NextResponses DEF TypeOK
    <2>7. NextOK'
      <3>1. N \subseteq Outstanding
        BY DEF NextChannels, Outstanding
      <3>2. Outstanding' = Outstanding /\ N' = N
        BY <1>2 DEF Outstanding, NextChannels, Pending, CompletionTime, serverVars
      <3>3. \A c : CompletionTime(c)' = CompletionTime(c)
        BY <1>2 DEF CompletionTime, serverVars
      <3>4. ssd_channels' = ssd_channels
        BY <1>2 DEF serverVars
      <3> HIDE DEF next, N
      <3>5. next_ids' = {ssd_channels[c].io_request_id : c \in N}
        BY <2>1, <2>6
      <3>6. \A c \in N : CompletionTime(c) = next_time'
        BY <2>1, <2>6
      <3> QED BY <3>1, <3>2, <3>3, <3>4, <3>5, <3>6 DEF NextOK, N
    <2> HIDE DEF next, N
    <2>8. next_ids # {} /\ ~NeedToWakeUp(next) => next_time' = next_time
      BY <2>1, <2>2, <2>5 DEF NeedToWakeUp
    <2>9. next_ids = {} /\ ~NeedToWakeUp(next) => next_ids' = {}
      BY <2>1 DEF NeedToWakeUp
    <2>10. next_ids' = {} => next_ids = {} /\ ~NeedToWakeUp(next)
      BY <2>1, <2>2 DEF NeedToWakeUp
    <2>11. next_ids # {} => next_time' <= next_time
      BY <2>1, <2>2
    <2>12. TaskOK'
      <3>1. taskPc \in {"sleep", "relock"} =>
              /\ next_ids' # {} => next_time' <= sleep_until
              /\ timerFired => sleep_until <= now
        BY <2>4, <2>5, <2>11 DEF IInv, TaskOK
      <3>2. taskPc = "sleep" /\ taskState' = "interruptible" => sleep_until <= next_time'
        BY <2>3, <2>4, <2>8 DEF IInv, TaskOK
      <3>3. taskPc = "idle" /\ taskState' = "interruptible" => next_ids' = {}
        BY <2>3, <2>9 DEF IInv, TaskOK
      <3>4. taskPc \in {"idle", "sleep"} /\ next_ids' = {} =>
              taskPc = "idle" /\ taskState' = "interruptible"
        BY <2>3, <2>4, <2>10 DEF IInv, TaskOK
      <3>5. taskPc = "relock" => next_ids' # {}
        BY <2>10 DEF IInv, TaskOK
      <3> QED BY <1>1, <1>2, <3>1, <3>2, <3>3, <3>4, <3>5 DEF TaskOK
    <2>13. LockOK'
      BY <1>1, <2>3 DEF IInv, LockOK
    <2>14. PhaseOK'
      BY <1>1, <1>2, <2>4 DEF IInv, PhaseOK
    <2> QED BY <1>5, <1>6, <1>7, <2>7, <2>12, <2>13, <2>14 DEF IInv
  <1> QED BY <1>8, <1>9

-----------------------------------------------------------------------------
(* The task.                                                               *)
LEMMA TaskStartInv ==
  ASSUME TypeOK, IInv, TaskStart
  PROVE  IInv'
PROOF
  <1> USE DEF TaskStart, SleepIdle, blockVars, replyVars, idVars, slotVars, stratVars, serverVars
  <1>1. IdsOK' /\ MappingExact' /\ EmulatorAgrees'
    BY BooksKept DEF TypeOK, IInv
  <1>2. NextOK' /\ CountOK'
    BY NextKept, CountKept DEF IInv
  <1>3. LockOK' /\ PhaseOK' /\ (latest_response_time < now)' /\ TaskOK'
    BY DEF TypeOK, IInv, LockOK, PhaseOK, TaskOK
  <1> QED BY <1>1, <1>2, <1>3 DEF IInv

LEMMA TaskIdleWakeInv ==
  ASSUME TypeOK, IInv, TaskIdleWake
  PROVE  IInv'
PROOF
  <1> USE DEF TaskIdleWake, SleepUntil, blockVars, replyVars, idVars, slotVars, stratVars,
              serverVars
  <1>1. IdsOK' /\ MappingExact' /\ EmulatorAgrees'
    BY BooksKept DEF TypeOK, IInv
  <1>2. NextOK' /\ CountOK'
    BY NextKept, CountKept DEF IInv
  <1>3. LockOK' /\ PhaseOK' /\ (latest_response_time < now)' /\ TaskOK'
    BY DEF TypeOK, IInv, LockOK, PhaseOK, TaskOK
  <1> QED BY <1>1, <1>2, <1>3 DEF IInv

LEMMA TaskReturnInv ==
  ASSUME TypeOK, IInv, TaskReturn
  PROVE  IInv'
PROOF
  <1> USE DEF TaskReturn, blockVars, replyVars, idVars, slotVars, stratVars, serverVars
  <1>1. IdsOK' /\ MappingExact' /\ EmulatorAgrees'
    BY BooksKept DEF TypeOK, IInv
  <1>2. NextOK' /\ CountOK'
    BY NextKept, CountKept DEF IInv
  <1>3. LockOK' /\ PhaseOK' /\ (latest_response_time < now)' /\ TaskOK'
    BY DEF TypeOK, IInv, LockOK, PhaseOK, TaskOK
  <1> QED BY <1>1, <1>2, <1>3 DEF IInv

LEMMA TaskRelockInv ==
  ASSUME TypeOK, IInv, TaskRelock
  PROVE  IInv'
PROOF
  <1> USE DEF TaskRelock, SleepUntil, blockVars, replyVars, idVars, slotVars, stratVars,
              serverVars
  <1>1. IdsOK' /\ MappingExact' /\ EmulatorAgrees'
    BY BooksKept DEF TypeOK, IInv
  <1>2. NextOK' /\ CountOK'
    BY NextKept, CountKept DEF IInv
  <1>3. CASE timerFired
    <2>1. taskPc' = "batch" /\ lock' = "task" /\ UNCHANGED <<taskState, sleep_until, timerFired>>
      BY <1>3
    <2>2. next_ids # {} /\ next_time <= now
      BY <1>3 DEF TypeOK, IInv, TaskOK
    <2>3. LockOK' /\ PhaseOK'
      BY <2>1, <2>2 DEF IInv, LockOK, PhaseOK
    <2>4. (latest_response_time < now)' /\ TaskOK'
      BY <2>1, <2>2 DEF IInv, LockOK, TaskOK
    <2> QED BY <1>1, <1>2, <2>3, <2>4 DEF IInv
  <1>4. CASE ~timerFired
    <2>1. /\ taskPc' = "sleep" /\ taskState' = "interruptible" /\ lock' = "none"
          /\ sleep_until' = next_time /\ ~timerFired'
      BY <1>4
    <2>2. LockOK' /\ PhaseOK'
      BY <2>1 DEF IInv, LockOK, PhaseOK
    <2>3. next_ids # {} /\ next_time \in Nat
      BY DEF TypeOK, IInv, TaskOK
    <2>4. (latest_response_time < now)'
      BY DEF IInv
    <2>5. TaskOK'
      BY <2>1, <2>3 DEF TaskOK
    <2> QED BY <1>1, <1>2, <2>2, <2>4, <2>5 DEF IInv
  <1> QED BY <1>3, <1>4

\* What a batch holds: the slots of the requests that complete next, and no
\* other, whose ids are all in the table.
LEMMA BatchExact ==
  ASSUME TypeOK, IInv, taskPc = "batch"
  PROVE  /\ Batch \subseteq UsedSlots
         /\ BatchFound
         /\ latest_response_time < next_time
         /\ \A c \in Outstanding : CompletionTime(c) >= next_time
         /\ \A c \in Outstanding : CompletionTime(c) = next_time
                                     <=> ssd_channels[c].io_request_id \in next_ids
PROOF
  <1> DEFINE L == latest_response_time
             N == NextChannels(L)
  <1>1. spc = "off"
    BY DEF IInv, LockOK
  <1>2. /\ next_ids = {ssd_channels[c].io_request_id : c \in N}
        /\ \A c \in N : CompletionTime(c) = next_time
    BY <1>1 DEF IInv, NextOK
  <1>3. N \subseteq Outstanding /\ Outstanding \subseteq Chan
    BY DEF NextChannels, Outstanding, Pending
  <1>4. next_ids # {}
    BY DEF IInv, TaskOK
  <1>5. PICK m \in N : TRUE
    BY <1>2, <1>4
  <1>6. /\ \A c \in Outstanding : CompletionTime(c) > L
        /\ \A c \in Outstanding : CompletionTime(c) \in Nat
        /\ L \in Nat /\ next_time \in Nat
    BY <1>3 DEF TypeOK, Channels, CompletionTime, Outstanding, Pending
  <1>7. \A c \in N : \A d \in Outstanding : CompletionTime(c) <= CompletionTime(d)
    BY DEF NextChannels, Outstanding
  <1>8. \A c \in Outstanding :
          (\A d \in Outstanding : CompletionTime(c) <= CompletionTime(d)) => c \in N
    BY DEF NextChannels, Outstanding
  <1> HIDE DEF N, L
  <1>9. \A c \in Outstanding : CompletionTime(c) >= next_time
    BY <1>2, <1>3, <1>5, <1>6, <1>7
  <1>10. L < next_time
    BY <1>2, <1>3, <1>5, <1>6
  <1>11. \A c \in Outstanding : CompletionTime(c) = next_time => c \in N
    BY <1>6, <1>8, <1>9
  <1>12. \A c, d \in Outstanding :
           ssd_channels[c].io_request_id = ssd_channels[d].io_request_id => c = d
    BY DEF IInv, EmulatorAgrees
  <1>13. \A c \in Outstanding : CompletionTime(c) = next_time
                                  <=> ssd_channels[c].io_request_id \in next_ids
    <2> SUFFICES ASSUME NEW c \in Outstanding
                 PROVE  CompletionTime(c) = next_time
                          <=> ssd_channels[c].io_request_id \in next_ids
      OBVIOUS
    <2>1. CompletionTime(c) = next_time => ssd_channels[c].io_request_id \in next_ids
      BY <1>2, <1>11
    <2>2. ASSUME ssd_channels[c].io_request_id \in next_ids PROVE CompletionTime(c) = next_time
      <3>1. PICK d \in N : ssd_channels[d].io_request_id = ssd_channels[c].io_request_id
        BY <1>2, <2>2
      <3> QED BY <1>2, <1>3, <1>12, <3>1
    <2> QED BY <2>1, <2>2
  <1>14. \A id \in next_ids : \E i \in UsedSlots : mapping[i].request_id = id
    <2> SUFFICES ASSUME NEW id \in next_ids PROVE \E i \in UsedSlots : mapping[i].request_id = id
      OBVIOUS
    <2>1. PICK c \in N : ssd_channels[c].io_request_id = id
      BY <1>2
    <2> QED BY <1>3, <2>1 DEF IInv, EmulatorAgrees
  <1>15. BatchFound
    BY <1>14 DEF BatchFound, UsedSlots
  <1>16. 0 \notin next_ids
    BY <1>14 DEF UsedSlots, FreeSlots
  <1>17. Batch \subseteq UsedSlots
    BY <1>16 DEF Batch, UsedSlots, FreeSlots
  <1> QED BY <1>9, <1>10, <1>13, <1>15, <1>17 DEF L

\* A batch takes the requests that complete next out of both tables at once.
LEMMA TaskCompleteInv ==
  ASSUME TypeOK, IInv, TaskComplete
  PROVE  IInv'
PROOF
  <1>1. /\ taskPc = "batch" /\ taskPc' = "getnext" /\ now' = now + BatchTicks
        /\ latest_response_time' = next_time
        /\ UNCHANGED <<lock, stopped, request_inflight, udp_send_reply_id, next_time, next_ids,
                       spc, new_request_submitted, taskState, sleep_until, timerFired, phase,
                       ssd_channels>>
    BY DEF TaskComplete, idVars, stratVars, serverVars
  <1>2. /\ Batch \subseteq UsedSlots
        /\ latest_response_time < next_time
        /\ \A c \in Outstanding : CompletionTime(c) >= next_time
        /\ \A c \in Outstanding : CompletionTime(c) = next_time
                                    <=> ssd_channels[c].io_request_id \in next_ids
    BY <1>1, BatchExact
  <1>3. \A i \in Chan : mapping'[i] = IF i \in Batch THEN [mapping[i] EXCEPT !.request_id = 0]
                                                     ELSE mapping[i]
    BY DEF TaskComplete
  <1>4. \A i \in Chan : i \in Batch <=> mapping[i].request_id \in next_ids
    BY DEF Batch
  <1>5. UsedSlots' = UsedSlots \ Batch
    <2>1. \A i \in Batch : mapping'[i].request_id = 0
      BY <1>3 DEF TypeOK, Batch
    <2> QED BY <1>3, <2>1 DEF UsedSlots, FreeSlots
  <1>6. \A c \in Chan : CompletionTime(c)' = CompletionTime(c) /\ CompletionTime(c) \in Nat
    BY <1>1 DEF CompletionTime, TypeOK, Channels
  <1>7. Outstanding' = {c \in Outstanding : ssd_channels[c].io_request_id \notin next_ids}
    <2>1. latest_response_time \in Nat /\ next_time \in Nat
      BY DEF TypeOK
    <2>2. Outstanding' = {c \in Chan : CompletionTime(c) > next_time}
      BY <1>1, <1>6 DEF Outstanding, Pending
    <2>3. Outstanding = {c \in Chan : CompletionTime(c) > latest_response_time}
      BY DEF Outstanding, Pending
    <2>4. ASSUME NEW c \in Chan
          PROVE  CompletionTime(c) > next_time <=>
                   c \in Outstanding /\ ssd_channels[c].io_request_id \notin next_ids
      <3>1. CASE c \in Outstanding
        BY <1>2, <1>6, <2>1, <3>1
      <3>2. CASE c \notin Outstanding
        BY <1>2, <1>6, <2>1, <2>3, <3>2
      <3> QED BY <3>1, <3>2
    <2>5. Outstanding \subseteq Chan
      BY <2>3
    <2> QED BY <2>2, <2>4, <2>5
  <1>8. \A i \in UsedSlots' : i \in UsedSlots /\ i \in Chan /\ mapping'[i] = mapping[i]
    BY <1>3, <1>5 DEF UsedSlots
  <1>9. IdsOK'
    <2>1. \A i \in Chan : mapping'[i].request_id \in {0, mapping[i].request_id}
      BY <1>3 DEF TypeOK
    <2> QED BY <1>1, <2>1 DEF TypeOK, IInv, IdsOK
  <1>10. BatchReqs \subseteq {r \in Reqs : stage[r] = "inflight"}
    <2>1. \A i \in Batch : mapping[i].req \in {mapping[j].req : j \in UsedSlots}
      BY <1>2
    <2> QED BY <2>1 DEF BatchReqs, IInv, MappingExact
  <1>11. \A r \in Reqs : stage'[r] = IF r \in BatchReqs THEN "completing" ELSE stage[r]
    BY DEF TaskComplete
  <1>12. MappingExact'
    <2>1. {r \in Reqs : stage'[r] = "inflight"}
            = {r \in Reqs : stage[r] = "inflight"} \ BatchReqs
      BY <1>11
    <2>2. {mapping'[i].req : i \in UsedSlots'} = {mapping[i].req : i \in UsedSlots} \ BatchReqs
      <3>1. {mapping'[i].req : i \in UsedSlots'} = {mapping[i].req : i \in UsedSlots \ Batch}
        BY <1>5, <1>8
      <3>2. \A i \in UsedSlots \ Batch : \A j \in Batch : mapping[i].req # mapping[j].req
        BY <1>2 DEF IInv, MappingExact
      <3> QED BY <1>2, <3>1, <3>2 DEF BatchReqs
    <2>3. \A i, j \in UsedSlots' :
            (\/ mapping'[i].request_id = mapping'[j].request_id
             \/ mapping'[i].req = mapping'[j].req) => i = j
      BY <1>8 DEF IInv, MappingExact
    <2> QED BY <2>1, <2>2, <2>3 DEF IInv, MappingExact
  <1>13. EmulatorAgrees'
    <2>1. \A c \in Outstanding' : \E i \in UsedSlots' :
            mapping'[i].request_id = ssd_channels'[c].io_request_id
      <3> SUFFICES ASSUME NEW c \in Outstanding'
                   PROVE  \E i \in UsedSlots' :
                            mapping'[i].request_id = ssd_channels[c].io_request_id
        BY <1>1
      <3>1. PICK i \in UsedSlots : mapping[i].request_id = ssd_channels[c].io_request_id
        BY <1>7 DEF IInv, EmulatorAgrees
      <3>2. i \in Chan
        BY DEF UsedSlots
      <3>3. i \in UsedSlots'
        BY <1>4, <1>5, <1>7, <3>1, <3>2
      <3> QED BY <1>8, <3>1, <3>3
    <2>2. \A i \in UsedSlots' : \E c \in Outstanding' :
            mapping'[i].request_id = ssd_channels'[c].io_request_id
      <3> SUFFICES ASSUME NEW i \in UsedSlots'
                   PROVE  \E c \in Outstanding' :
                            mapping'[i].request_id = ssd_channels[c].io_request_id
        BY <1>1
      <3>1. PICK c \in Outstanding : mapping[i].request_id = ssd_channels[c].io_request_id
        BY <1>8 DEF IInv, EmulatorAgrees
      <3>2. mapping[i].request_id \notin next_ids
        BY <1>4, <1>5, <1>8
      <3> QED BY <1>7, <1>8, <3>1, <3>2
    <2>3. \A c, d \in Outstanding' :
            ssd_channels'[c].io_request_id = ssd_channels'[d].io_request_id => c = d
      BY <1>1, <1>7 DEF IInv, EmulatorAgrees
    <2> QED BY <2>1, <2>2, <2>3 DEF EmulatorAgrees
  <1>14. NextOK'
    BY <1>1 DEF NextOK
  <1>15. CountOK'
    <2>1. \A r \in Reqs : (stage'[r] \in {"inflight", "completing", "ended"})
                            <=> (stage[r] \in {"inflight", "completing", "ended"})
      BY <1>10, <1>11
    <2> QED BY <1>1, <2>1, CountKept DEF IInv
  <1>16. next_ids # {} /\ next_time <= now /\ next_time \in Nat /\ now \in Nat
    BY <1>1 DEF TypeOK, IInv, TaskOK
  <1>17. phase = "live"
    BY <1>1, <1>16 DEF TypeOK, IInv, PhaseOK
  <1>18. LockOK' /\ PhaseOK' /\ TaskOK'
    BY <1>1, <1>17 DEF IInv, LockOK, PhaseOK, TaskOK
  <1>19. (latest_response_time < now)'
    BY <1>1, <1>16, BatchAssumption
  <1> QED BY <1>9, <1>12, <1>13, <1>14, <1>15, <1>18, <1>19 DEF IInv

LEMMA TaskGetNextInv ==
  ASSUME TypeOK, IInv, TaskGetNext
  PROVE  IInv'
PROOF
  <1> DEFINE next == get_next_responses(latest_response_time)
             N == NextChannels(latest_response_time)
  <1>1. /\ taskPc = "getnext" /\ lock = "task" /\ spc = "off" /\ taskState = "running"
        /\ phase \in {"probe", "live"}
    BY DEF TaskGetNext, TypeOK, IInv, LockOK, PhaseOK
  <1>2. UNCHANGED <<now, blockVars, stopped, slotVars, request_inflight, latest_response_time,
                    stratVars, phase, serverVars>>
    BY DEF TaskGetNext
  <1>3. udp_send_reply_id' = udp_send_reply_id + 1 /\ udp_send_reply_id \in Nat
    BY DEF TaskGetNext, TypeOK
  <1>4. IdsOK' /\ MappingExact' /\ EmulatorAgrees'
    BY <1>2, <1>3, BooksKept DEF IInv, blockVars, slotVars, serverVars
  <1>5. CountOK'
    BY <1>2, CountKept DEF IInv, blockVars, stratVars
  <1>6. (latest_response_time < now)'
    BY <1>2 DEF IInv
  <1>7. /\ next.ids = {ssd_channels[c].io_request_id : c \in N}
        /\ next.ids = {} <=> Outstanding = {}
        /\ \A c \in N : CompletionTime(c) = next.time
    BY NextResponses DEF TypeOK, Outstanding
  <1>8. next_ids' = next.ids /\ (next.ids # {} => next_time' = next.time)
    BY DEF TaskGetNext
  <1>9. \/ /\ next.ids = {} /\ taskPc' = "idle" /\ taskState' = "interruptible"
           /\ lock' = "none"
        \/ /\ next.ids # {} /\ next.time < now /\ taskPc' = "batch" /\ lock' = lock
           /\ taskState' = taskState
        \/ /\ next.ids # {} /\ taskPc' = "sleep" /\ taskState' = "interruptible"
           /\ lock' = "none" /\ sleep_until' = next.time /\ ~timerFired'
    BY DEF TaskGetNext, SleepIdle, SleepUntil
  <1>10. next.time \in Nat /\ now \in Nat
    BY ReplyTyped DEF TypeOK
  <1>11. NextOK'
    <2>1. N \subseteq Outstanding
      BY DEF NextChannels, Outstanding
    <2>2. Outstanding' = Outstanding /\ N' = N
      BY <1>2 DEF Outstanding, NextChannels, Pending, CompletionTime, serverVars
    <2>3. \A c : CompletionTime(c)' = CompletionTime(c)
      BY <1>2 DEF CompletionTime, serverVars
    <2>4. ssd_channels' = ssd_channels
      BY <1>2 DEF serverVars
    <2> HIDE DEF next, N
    <2>5. next_ids' = {ssd_channels[c].io_request_id : c \in N}
      BY <1>7, <1>8
    <2>6. \A c \in N : CompletionTime(c) = next_time'
      BY <1>7, <1>8
    <2> QED BY <2>1, <2>2, <2>3, <2>4, <2>5, <2>6 DEF NextOK, N
  <1>12. phase = "probe" => next.ids = {}
    <2> SUFFICES ASSUME phase = "probe" PROVE Outstanding = {}
      BY <1>7
    <2>1. {r \in Reqs : stage[r] = "inflight"} = {}
      BY DEF IInv, PhaseOK
    <2>2. UsedSlots = {}
      BY <2>1 DEF IInv, MappingExact
    <2> QED BY <2>2 DEF IInv, EmulatorAgrees
  <1> HIDE DEF next, N
  <1>13. LockOK'
    BY <1>1, <1>2, <1>9 DEF LockOK, stratVars
  <1>14. PhaseOK'
    BY <1>1, <1>2, <1>8, <1>9, <1>12 DEF IInv, PhaseOK, stratVars, blockVars
  <1>15. TaskOK'
    BY <1>1, <1>2, <1>8, <1>9, <1>10 DEF TaskOK
  <1> QED BY <1>4, <1>5, <1>6, <1>11, <1>13, <1>14, <1>15 DEF IInv

-----------------------------------------------------------------------------
(* The invariant and what follows from it.                                 *)
LEMMA NextInv == TypeOK /\ IInv /\ [Next]_vars => IInv'
PROOF
  <1> SUFFICES ASSUME TypeOK, IInv, [Next]_vars PROVE IInv'
    OBVIOUS
  <1>1. CASE UNCHANGED vars
    <2> USE <1>1 DEF vars, blockVars, replyVars, idVars, slotVars, stratVars, taskVars,
                     serverVars
    <2>1. IdsOK' /\ MappingExact' /\ EmulatorAgrees'
      BY BooksKept DEF TypeOK, IInv
    <2>2. NextOK' /\ CountOK'
      BY NextKept, CountKept DEF IInv
    <2>3. LockOK' /\ PhaseOK' /\ (latest_response_time < now)' /\ TaskOK'
      BY DEF IInv, LockOK, PhaseOK, TaskOK
    <2> QED BY <2>1, <2>2, <2>3 DEF IInv
  <1>2. CASE Tick \/ TimerExpire \/ BlockLayer
    BY <1>2, TickInv, TimerExpireInv, IssueInv, RunQueueInv DEF BlockLayer
  <1>3. CASE Strategy
    BY <1>3, StrategySubmitInv, StrategySkipInv, StrategyEmptyInv, StrategyTailInv DEF Strategy
  <1>4. CASE Task
    BY <1>4, TaskStartInv, TaskIdleWakeInv, TaskReturnInv, TaskRelockInv, TaskCompleteInv,
       TaskGetNextInv DEF Task
  <1>5. CASE \E r \in Reqs : Softirq(r)
    BY <1>5, EndRequestInv, SoftirqDoneInv DEF Softirq
  <1>6. CASE Module
    BY <1>6, AddDiskInv, ExitInv, KthreadStopInv, UnloadedInv DEF Module
  <1>7. CASE Finished
    BY <1>1, <1>7 DEF Finished
  <1> QED BY <1>1, <1>2, <1>3, <1>4, <1>5, <1>6, <1>7 DEF Next

\* The invariant holds in every state the driver and the emulator reach together.
THEOREM Invariant == Spec => []IInv
PROOF
  <1>1. Init => IInv
    BY InitInv
  <1>2. TypeOK /\ IInv /\ [Next]_vars => IInv'
    BY NextInv
  <1> QED BY <1>1, <1>2, TypeCorrect, PTL DEF Spec

\* No `while(1)' of the driver is ever reached, whatever the load, the geometry
\* and the timing of the disk.
THEOREM NeverSpins == Spec => []NoSpin
PROOF
  <1>1. TypeOK /\ IInv => NoSpin
    <2> SUFFICES ASSUME TypeOK, IInv PROVE NoSpin
      OBVIOUS
    <2>1. ~StrategyWouldSpin
      <3>1. spc = "loop" => FreeSlots # {}
        BY SlotLeft DEF IInv
      <3>2. ~(now <= latest_response_time)
        BY DEF TypeOK, IInv
      <3> QED BY <3>1, <3>2 DEF StrategyWouldSpin
    <2>2. CASE taskPc = "batch"
      <3>1. latest_response_time < next_time /\ BatchFound
        BY <2>2, BatchExact
      <3>2. ~(latest_response_time > now) /\ ~(latest_response_time > next_time)
        BY <3>1 DEF TypeOK, IInv
      <3>3. next_ids # {}
        BY <2>2 DEF IInv, TaskOK
      <3> QED BY <2>1, <2>2, <3>1, <3>2, <3>3 DEF NoSpin, TaskWouldSpin
    <2>3. CASE taskPc = "getnext"
      <3> DEFINE next == get_next_responses(latest_response_time)
      <3>1. next.ids # {} => next.time > latest_response_time
        BY NextResponses DEF TypeOK
      <3>2. next.time \in Nat /\ latest_response_time \in Nat
        BY ReplyTyped DEF TypeOK
      <3>3. ~(next.ids # {} /\ next.time < latest_response_time)
        <4> HIDE DEF next
        <4> QED BY <3>1, <3>2
      <3> QED BY <2>1, <2>3, <3>3 DEF NoSpin, TaskWouldSpin
    <2> QED BY <2>1, <2>2, <2>3 DEF NoSpin, TaskWouldSpin
  <1> QED BY <1>1, TypeCorrect, Invariant, PTL

\* The driver never submits a request that the emulator would refuse.
THEOREM NeverRefused == Spec => []SubmitAccepted
PROOF
  <1>1. TypeOK /\ IInv => SubmitAccepted
    BY OldestReported DEF IInv, SubmitAccepted
  <1> QED BY <1>1, TypeCorrect, Invariant, PTL

\* The driver and the emulator agree on which requests are outstanding.
THEOREM TablesAgree == Spec => []EmulatorAgrees
PROOF
  <1>1. IInv => EmulatorAgrees
    BY DEF IInv
  <1> QED BY <1>1, Invariant, PTL

\* The slots in use are those of the requests in flight, each once.
THEOREM SlotsExact == Spec => []MappingExact
PROOF
  <1>1. IInv => MappingExact
    BY DEF IInv
  <1> QED BY <1>1, Invariant, PTL

\* The queue is stopped only while the device is full.
THEOREM StopsOnlyWhenFull == Spec => []StoppedOnlyWhenFull
PROOF
  <1>1. IInv => StoppedOnlyWhenFull
    BY DEF IInv, StoppedOnlyWhenFull, CountOK, LockOK, Active
  <1> QED BY <1>1, Invariant, PTL

\* The task does not leave before kthread_stop; when the module is gone nothing
\* is in flight and nothing outstanding.
THEOREM UnloadsClean == Spec => []CleanUnload
PROOF
  <1>1. IInv => CleanUnload
    <2> SUFFICES ASSUME IInv, phase = "unloaded"
                 PROVE  /\ UsedSlots = {}
                        /\ Outstanding = {}
                        /\ \A r \in Reqs : stage[r] \in {"new", "ended", "done"}
      BY DEF CleanUnload, IInv, PhaseOK
    <2>1. \A r \in Reqs : stage[r] \in {"new", "ended", "done"}
      BY DEF IInv, PhaseOK
    <2>2. {r \in Reqs : stage[r] = "inflight"} = {}
      BY <2>1
    <2>3. UsedSlots = {}
      BY <2>2 DEF IInv, MappingExact
    <2>4. Outstanding = {}
      BY <2>3 DEF IInv, EmulatorAgrees
    <2> QED BY <2>1, <2>3, <2>4
  <1> QED BY <1>1, Invariant, PTL

\* Whenever the lock is free, the driver expects exactly what the emulator would
\* report next.
THEOREM ExpectsNext == Spec => []NextIsEarliest
PROOF
  <1>1. TypeOK /\ IInv => NextIsEarliest
    <2> SUFFICES ASSUME TypeOK, IInv, lock = "none"
                 PROVE  LET next == get_next_responses(latest_response_time)
                        IN  next_ids = next.ids /\ (next_ids # {} => next_time = next.time)
      BY DEF NextIsEarliest
    <2> DEFINE next == get_next_responses(latest_response_time)
               N == NextChannels(latest_response_time)
    <2>1. spc = "off" /\ taskPc # "getnext"
      BY DEF IInv, LockOK
    <2>2. /\ next_ids = {ssd_channels[c].io_request_id : c \in N}
          /\ \A c \in N : CompletionTime(c) = next_time
      BY <2>1 DEF IInv, NextOK
    <2>3. /\ next.ids = {ssd_channels[c].io_request_id : c \in N}
          /\ \A c \in N : CompletionTime(c) = next.time
      BY NextResponses DEF TypeOK
    <2> HIDE DEF next, N
    <2>4. next_ids # {} => next_time = next.time
      BY <2>2, <2>3
    <2> QED BY <2>2, <2>3, <2>4 DEF next
  <1> QED BY <1>1, TypeCorrect, Invariant, PTL

\* A sleeping task that nobody has woken does not sleep past the next completion.
THEOREM SleepsNoLonger == Spec => []NoOversleep
PROOF
  <1>1. TypeOK /\ IInv => NoOversleep
    <2> SUFFICES ASSUME TypeOK, IInv, lock = "none", taskState = "interruptible"
                 PROVE  /\ taskPc = "idle" => Outstanding = {}
                        /\ taskPc = "sleep" =>
                             \A c \in Outstanding : sleep_until <= CompletionTime(c)
      BY DEF NoOversleep
    <2>1. spc = "off" /\ taskPc # "getnext"
      BY DEF IInv, LockOK
    <2>2. next_ids = {ssd_channels[c].io_request_id : c \in NextChannels(latest_response_time)}
      BY <2>1 DEF IInv, NextOK
    <2>3. CASE taskPc = "idle"
      <3>1. next_ids = {}
        BY <2>3 DEF IInv, TaskOK
      <3>2. NextChannels(latest_response_time) = {}
        BY <2>2, <3>1
      <3> QED BY <2>3, <3>2, NextExists DEF TypeOK, Outstanding
    <2>4. CASE taskPc = "sleep"
      <3> SUFFICES ASSUME NEW c \in Outstanding PROVE sleep_until <= CompletionTime(c)
        BY <2>4
      <3>1. NextChannels(latest_response_time) # {}
        BY NextExists DEF TypeOK, Outstanding
      <3>2. PICK d \in NextChannels(latest_response_time) : CompletionTime(d) = next_time
        BY <2>1, <3>1 DEF IInv, NextOK
      <3>3. next_time <= CompletionTime(c)
        BY <3>2 DEF NextChannels, Outstanding
      <3>4. sleep_until <= next_time
        BY <2>4 DEF IInv, TaskOK
      <3>5. sleep_until \in Nat /\ next_time \in Nat /\ CompletionTime(c) \in Nat
        BY DEF TypeOK, Channels, CompletionTime, Outstanding, Pending
      <3> QED BY <3>3, <3>4, <3>5
    <2> QED BY <2>3, <2>4
  <1> QED BY <1>1, TypeCorrect, Invariant, PTL

\* Requests complete in the order of simulated time, not before their time, and
\* all those of one instant together.
THEOREM CompletesInOrder == Spec => InCompletionOrder
PROOF
  <1> DEFINE Ordered ==
        \A i \in Chan :
          mapping[i].request_id # 0 /\ mapping'[i].request_id = 0 =>
            \E c \in Chan :
              /\ ssd_channels[c].io_request_id = mapping[i].request_id
              /\ CompletionTime(c) > latest_response_time
              /\ CompletionTime(c) = latest_response_time'
              /\ CompletionTime(c) <= now
              /\ \A d \in Outstanding :
                   \/ CompletionTime(d) > CompletionTime(c)
                   \/ \E j \in Chan : /\ mapping[j].request_id = ssd_channels[d].io_request_id
                                      /\ mapping'[j].request_id = 0
  <1>1. TypeOK /\ IInv /\ [Next]_vars => Ordered
    <2> SUFFICES ASSUME TypeOK, IInv, [Next]_vars PROVE Ordered
      OBVIOUS
    <2>1. CASE TaskComplete
      <3> SUFFICES ASSUME NEW i \in Chan, mapping[i].request_id # 0,
                          mapping'[i].request_id = 0
                   PROVE  \E c \in Chan :
                            /\ ssd_channels[c].io_request_id = mapping[i].request_id
                            /\ CompletionTime(c) > latest_response_time
                            /\ CompletionTime(c) = latest_response_time'
                            /\ CompletionTime(c) <= now
                            /\ \A d \in Outstanding :
                                 \/ CompletionTime(d) > CompletionTime(c)
                                 \/ \E j \in Chan :
                                      /\ mapping[j].request_id = ssd_channels[d].io_request_id
                                      /\ mapping'[j].request_id = 0
        OBVIOUS
      <3>1. taskPc = "batch" /\ latest_response_time' = next_time
        BY <2>1 DEF TaskComplete
      <3>2. /\ latest_response_time < next_time
            /\ \A c \in Outstanding : CompletionTime(c) >= next_time
            /\ \A c \in Outstanding : CompletionTime(c) = next_time
                                        <=> ssd_channels[c].io_request_id \in next_ids
        BY <3>1, BatchExact
      <3>3. \A j \in Chan : mapping[j].request_id \in next_ids => mapping'[j].request_id = 0
        BY <2>1 DEF TaskComplete, Batch, TypeOK
      <3>4. mapping[i].request_id \in next_ids
        BY <2>1 DEF TaskComplete, Batch
      <3>5. i \in UsedSlots
        BY DEF UsedSlots, FreeSlots
      <3>6. PICK c \in Outstanding : ssd_channels[c].io_request_id = mapping[i].request_id
        BY <3>5 DEF IInv, EmulatorAgrees
      <3>7. CompletionTime(c) = next_time
        BY <3>2, <3>4, <3>6
      <3>8. next_time <= now
        BY <3>1 DEF IInv, TaskOK
      <3>9. \A d \in Outstanding : CompletionTime(d) \in Nat /\ d \in Chan
        BY DEF TypeOK, Channels, CompletionTime, Outstanding, Pending
      <3>10. ASSUME NEW d \in Outstanding
             PROVE  \/ CompletionTime(d) > next_time
                    \/ \E j \in Chan : /\ mapping[j].request_id = ssd_channels[d].io_request_id
                                       /\ mapping'[j].request_id = 0
        <4>1. CASE CompletionTime(d) = next_time
          <5>1. PICK j \in UsedSlots : mapping[j].request_id = ssd_channels[d].io_request_id
            BY DEF IInv, EmulatorAgrees
          <5>2. j \in Chan
            BY DEF UsedSlots
          <5> QED BY <3>2, <3>3, <4>1, <5>1, <5>2
        <4>2. CASE CompletionTime(d) # next_time
          <5>1. next_time \in Nat
            BY DEF TypeOK
          <5> QED BY <3>2, <3>9, <4>2, <5>1
        <4> QED BY <4>1, <4>2
      <3>11. CompletionTime(c) > latest_response_time
        BY <3>6 DEF Outstanding, Pending
      <3>12. c \in Chan
        BY <3>9
      <3> QED BY <3>1, <3>6, <3>7, <3>8, <3>10, <3>11, <3>12
    <2>2. CASE \E r \in Reqs : StrategySubmit(r)
      <3>1. \A i \in Chan : mapping'[i].request_id \in {udp_send_reply_id, mapping[i].request_id}
        BY <2>2 DEF TypeOK, StrategySubmit
      <3>2. udp_send_reply_id # 0
        BY DEF TypeOK
      <3> QED BY <3>1, <3>2
    <2>3. CASE mapping' = mapping
      BY <2>3
    <2>4. \/ TaskComplete
          \/ \E r \in Reqs : StrategySubmit(r)
          \/ mapping' = mapping
      <3>1. CASE Strategy
        BY <3>1 DEF Strategy, StrategySkip, StrategyEmpty, StrategyTail, slotVars
      <3>2. CASE Task
        BY <3>2 DEF Task, TaskStart, TaskIdleWake, TaskReturn, TaskRelock, TaskGetNext, slotVars
      <3>3. CASE \E r \in Reqs : Softirq(r)
        BY <3>3 DEF Softirq, EndRequest, SoftirqDone, slotVars
      <3>4. CASE BlockLayer \/ Tick \/ TimerExpire
        BY <3>4 DEF BlockLayer, Issue, RunQueue, Tick, TimerExpire, slotVars
      <3>5. CASE Module
        BY <3>5 DEF Module, AddDisk, Exit, KthreadStop, Unloaded, slotVars
      <3>6. CASE Finished \/ UNCHANGED vars
        BY <3>6 DEF Finished, vars, slotVars
      <3> QED BY <3>1, <3>2, <3>3, <3>4, <3>5, <3>6 DEF Next
    <2> QED BY <2>1, <2>2, <2>3, <2>4
  <1>2. TypeOK /\ IInv /\ [Next]_vars => [Ordered]_vars
    BY <1>1
  <1> QED BY <1>2, TypeCorrect, Invariant, PTL DEF Spec, InCompletionOrder
=============================================================================
