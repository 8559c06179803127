--------------------------- MODULE EmuDiskRefinement ---------------------------
(* The driver and its emulator implement the block device of BlockDevice,  *)
(* whatever the interleaving of submissions and completions.               *)
EXTENDS EmuDiskProofs

\* The slot of a request in flight is the one that names it.
LEMMA SlotUnique ==
  ASSUME MappingExact, NEW r \in Reqs, stage[r] = "inflight"
  PROVE  /\ SlotOf(r) \in UsedSlots
         /\ mapping[SlotOf(r)].req = r
         /\ \A i \in UsedSlots : mapping[i].req = r => i = SlotOf(r)
PROOF
  <1>1. \E i \in UsedSlots : mapping[i].req = r
    <2>1. r \in {mapping[i].req : i \in UsedSlots}
      BY DEF MappingExact
    <2> QED BY <2>1
  <1>2. SlotOf(r) \in UsedSlots /\ mapping[SlotOf(r)].req = r
    BY <1>1 DEF SlotOf
  <1> QED BY <1>2 DEF MappingExact

\* The kernel's view of a request's pages does not change while no page, slot or
\* buffer does and the same requests are in flight.
LEMMA PagesKept ==
  ASSUME UNCHANGED <<attr, bio, mapping, data>>,
         \A r \in Reqs : stage'[r] = "inflight" <=> stage[r] = "inflight"
  PROVE  \A r \in Reqs : AbstractPage(r)' = AbstractPage(r)
PROOF
  <1>1. UsedSlots' = UsedSlots
    BY DEF UsedSlots, FreeSlots
  <1>2. \A r \in Reqs : SlotOf(r)' = SlotOf(r)
    BY <1>1 DEF SlotOf
  <1> QED BY <1>2 DEF AbstractPage, CopyFirst

\* Both modules count alike.
LEMMA SameCardinality == \A S : Device!Cardinality(S) = Cardinality(S)
PROOF BY Zenon DEF Device!Cardinality, Cardinality

LEMMA InitImplements == Init => Device!Init
PROOF
  <1> SUFFICES ASSUME Init PROVE Device!Init
    OBVIOUS
  <1>1. storage = [s \in Sectors |-> Blank]
    BY DEF Init
  <1>2. [r \in Reqs |-> AbstractStage(stage[r])] = [r \in Reqs |-> "new"]
    BY DEF Init, AbstractStage
  <1>3. [r \in Reqs |-> AbstractPage(r)]
          = [r \in Reqs |-> [k \in Offsets |-> IF attr[r].rw = 1 THEN r ELSE Blank]]
    BY DEF Init, AbstractPage, WRITE
  <1> QED BY <1>1, <1>2, <1>3 DEF Device!Init, Device!Offsets, Offsets

\* The kernel's view of the stages when one request moves on.
LEMMA StageMoved ==
  ASSUME NEW r \in Reqs, NEW s, stage'[r] = s, \A q \in Reqs : q # r => stage'[q] = stage[q]
  PROVE  [q \in Reqs |-> AbstractStage(stage[q])]'
           = [[q \in Reqs |-> AbstractStage(stage[q])] EXCEPT ![r] = AbstractStage(s)]
PROOF OBVIOUS

\* Steps that only move a request from one stage to another.
LEMMA MoveImplements ==
  ASSUME TypeOK, NEW r \in Reqs, NEW s \in Stages,
         stage' = [stage EXCEPT ![r] = s], s # "inflight", stage[r] # "inflight",
         UNCHANGED <<attr, bio, mapping, data, storage>>
  PROVE  /\ [q \in Reqs |-> AbstractStage(stage[q])]'
              = [[q \in Reqs |-> AbstractStage(stage[q])] EXCEPT ![r] = AbstractStage(s)]
         /\ [q \in Reqs |-> AbstractPage(q)]' = [q \in Reqs |-> AbstractPage(q)]
PROOF
  <1>1. stage'[r] = s /\ \A q \in Reqs : q # r => stage'[q] = stage[q]
    BY DEF TypeOK
  <1>2. \A q \in Reqs : AbstractPage(q)' = AbstractPage(q)
    BY <1>1, PagesKept
  <1>3. [q \in Reqs |-> AbstractStage(stage[q])]'
          = [[q \in Reqs |-> AbstractStage(stage[q])] EXCEPT ![r] = AbstractStage(s)]
    BY <1>1, StageMoved
  <1>4. [q \in Reqs |-> AbstractPage(q)]' = [q \in Reqs |-> AbstractPage(q)]
    BY <1>2
  <1> QED BY <1>3, <1>4

\* A submission serves the request.
LEMMA SubmitImplements ==
  ASSUME TypeOK, IInv, NEW r \in Reqs, StrategySubmit(r)
  PROVE  Device!Serve(r)
PROOF
  <1> DEFINE astage == [q \in Reqs |-> AbstractStage(stage[q])]
             apage == [q \in Reqs |-> AbstractPage(q)]
             first == attr[r].sector
             count == attr[r].count
  <1>1. PICK f \in FreeSlots : f = FirstFree /\ f \in Chan
    BY FirstFreeExists DEF StrategySubmit, StrategyWouldSpin, Queued
  <1>2. /\ stage[r] = "queued" /\ stage'[r] = "inflight"
        /\ \A q \in Reqs : q # r => stage'[q] = stage[q]
    BY DEF TypeOK, StrategySubmit
  <1>3. MappingExact' /\ MappingExact
    BY StrategySubmitInv DEF IInv
  <1>4. /\ UNCHANGED <<attr, bio>> /\ TransferData(r, f)
        /\ mapping' = [mapping EXCEPT ![f] = [request_id |-> udp_send_reply_id, req |-> r]]
    BY <1>1 DEF StrategySubmit
  <1>5. /\ mapping'[f].req = r /\ f \in UsedSlots' /\ f \notin UsedSlots
        /\ \A i \in UsedSlots : i \in UsedSlots' /\ i # f /\ mapping'[i] = mapping[i]
    BY <1>1, <1>4 DEF TypeOK, UsedSlots, FreeSlots
  <1>6. attr[r] \in Commands /\ attr[r].rw \in {0, 1} /\ count \in Nat
    BY CommandFits DEF TypeOK
  <1>7. astage[r] = "pending" /\ apage[r] = bio[r]
    BY <1>2 DEF AbstractStage, AbstractPage
  <1>8. Cardinality({q \in Reqs : astage[q] = "served"}) < disk_channels
    <2> DEFINE served == {q \in Reqs : astage[q] = "served"}
    <2>1. served \in SUBSET Active
      BY DEF AbstractStage, Active, TypeOK, Stages
    <2>2. request_inflight < disk_channels /\ request_inflight = Cardinality(Active)
      BY DEF StrategySubmit, IInv, CountOK
    <2> HIDE DEF served
    <2>3. Cardinality(served) <= Cardinality(Active) /\ Cardinality(served) \in Nat
      BY <2>1, ActiveFinite, FS_Subset, FS_CardinalityType
    <2> QED BY <2>2, <2>3, ActiveFinite, ChannelsAssumption DEF served
  <1>9. astage' = [astage EXCEPT ![r] = "served"]
    <2>1. AbstractStage("inflight") = "served"
      BY DEF AbstractStage
    <2> QED BY <1>2, <2>1, StageMoved
  <1>10. SlotOf(r)' = f
    <2>1. SlotOf(r)' \in UsedSlots' /\ \A i \in UsedSlots' : mapping'[i].req = r => i = SlotOf(r)'
      <3>1. \E i \in UsedSlots' : mapping'[i].req = r
        BY <1>5
      <3>2. SlotOf(r)' \in UsedSlots' /\ mapping'[SlotOf(r)'].req = r
        BY <3>1 DEF SlotOf
      <3> QED BY <1>3, <3>2 DEF MappingExact
    <2> QED BY <1>5, <2>1
  <1>11. \A q \in Reqs \ {r} : AbstractPage(q)' = AbstractPage(q)
    <2> SUFFICES ASSUME NEW q \in Reqs, q # r PROVE AbstractPage(q)' = AbstractPage(q)
      OBVIOUS
    <2>1. CASE stage[q] = "inflight"
      <3>1. /\ SlotOf(q) \in UsedSlots /\ mapping[SlotOf(q)].req = q
        BY <1>3, <2>1, SlotUnique
      <3>2. SlotOf(q) \in UsedSlots' /\ mapping'[SlotOf(q)].req = q
        BY <1>5, <3>1
      <3>3. SlotOf(q)' \in UsedSlots' /\ mapping'[SlotOf(q)'].req = q
        BY <3>2 DEF SlotOf
      <3>4. SlotOf(q)' = SlotOf(q)
        BY <1>3, <3>2, <3>3 DEF MappingExact
      <3>5. data'[SlotOf(q)] = data[SlotOf(q)]
        <4>1. SlotOf(q) # f /\ SlotOf(q) \in Chan
          BY <1>5, <3>1 DEF UsedSlots
        <4> QED BY <1>4, <4>1 DEF TransferData, TypeOK
      <3> QED BY <1>2, <1>4, <3>4, <3>5 DEF AbstractPage, CopyFirst
    <2>2. CASE stage[q] # "inflight"
      BY <1>2, <1>4, <2>2 DEF AbstractPage
    <2> QED BY <2>1, <2>2
  <1>12. CASE attr[r].rw = 1
    <2>1. AbstractPage(r)' = bio[r]
      BY <1>4, <1>12 DEF AbstractPage, READ
    <2>2. apage' = apage
      BY <1>7, <1>11, <2>1
    <2>3. storage' = [s \in Sectors |->
                       IF s - first \in 0 .. count - 1
                         THEN CopyFirst(count, bio[r], data[f])[s - first] ELSE storage[s]]
      BY <1>4, <1>12 DEF TransferData, WRITE
    <2>4. \A k \in 0 .. count - 1 : CopyFirst(count, bio[r], data[f])[k] = apage[r][k]
      BY <1>6, <1>7, CommandFits DEF CopyFirst
    <2>5. storage' = [s \in Sectors |-> IF s - first \in 0 .. count - 1
                                          THEN apage[r][s - first] ELSE storage[s]]
      BY <2>3, <2>4
    <2>6. Device!Write(r)
      BY <2>2, <2>5 DEF Device!Write
    <2> QED BY <1>4, <1>7, <1>8, <1>9, <1>12, <2>6, SameCardinality DEF Device!Serve
  <1>13. CASE attr[r].rw # 1
    <2>1. /\ data' = [data EXCEPT ![f] = [k \in Offsets |-> IF k < count THEN storage[first + k]
                                                            ELSE data[f][k]]]
          /\ storage' = storage
      BY <1>4, <1>13 DEF TransferData, WRITE
    <2>2. data'[f] = [k \in Offsets |-> IF k < count THEN storage[first + k] ELSE data[f][k]]
      BY <1>1, <2>1 DEF TypeOK
    <2>3. AbstractPage(r)' = CopyFirst(count, data'[f], bio[r])
      BY <1>2, <1>4, <1>6, <1>10, <1>13 DEF AbstractPage, READ
    <2>4. AbstractPage(r)' = [k \in Offsets |-> IF k < count THEN storage[first + k]
                                                ELSE apage[r][k]]
      BY <1>7, <2>2, <2>3 DEF CopyFirst
    <2>5. apage' = [apage EXCEPT ![r] = [k \in Offsets |-> IF k < count THEN storage[first + k]
                                                           ELSE apage[r][k]]]
      <3> DEFINE new == [k \in Offsets |-> IF k < count THEN storage[first + k] ELSE apage[r][k]]
      <3> HIDE DEF new
      <3> QED BY <1>11, <2>4 DEF new
    <2>6. Device!Read(r)
      BY <2>1, <2>5 DEF Device!Read, Device!Offsets, Offsets
    <2> QED BY <1>4, <1>7, <1>8, <1>9, <1>13, <2>6, SameCardinality DEF Device!Serve
  <1> QED BY <1>12, <1>13

\* A completion hands a read the data its slot has held since it was served: the
\* kernel's view of it does not change.
LEMMA CompleteImplements ==
  ASSUME TypeOK, IInv, TaskComplete
  PROVE  /\ [q \in Reqs |-> AbstractStage(stage[q])]' = [q \in Reqs |-> AbstractStage(stage[q])]
         /\ [q \in Reqs |-> AbstractPage(q)]' = [q \in Reqs |-> AbstractPage(q)]
         /\ UNCHANGED <<attr, storage>>
PROOF
  <1>1. /\ UNCHANGED <<attr, storage, data>>
        /\ \A r \in Reqs : stage'[r] = IF r \in BatchReqs THEN "completing" ELSE stage[r]
    BY DEF TaskComplete, serverVars
  <1>2. Batch \subseteq UsedSlots
    BY BatchExact DEF TaskComplete
  <1>3. \A i \in UsedSlots : i \notin Batch => i \in UsedSlots' /\ mapping'[i] = mapping[i]
    BY DEF TaskComplete, UsedSlots, FreeSlots
  <1>4. \A r \in Reqs : r \in BatchReqs => stage[r] = "inflight"
    <2>1. \A i \in Batch : mapping[i].req \in {mapping[j].req : j \in UsedSlots}
      BY <1>2
    <2> QED BY <2>1 DEF BatchReqs, IInv, MappingExact
  <1>5. ASSUME NEW r \in Reqs
        PROVE  AbstractStage(stage'[r]) = AbstractStage(stage[r])
    <2>1. AbstractStage("inflight") = AbstractStage("completing")
      BY DEF AbstractStage
    <2>2. CASE r \in BatchReqs
      <3>1. stage[r] = "inflight" /\ stage'[r] = "completing"
        BY <1>1, <1>4, <2>2
      <3> QED BY <2>1, <3>1
    <2>3. CASE r \notin BatchReqs
      <3>1. stage'[r] = stage[r]
        BY <1>1, <2>3
      <3> QED BY <3>1
    <2> QED BY <2>2, <2>3
  <1>6. \A r \in Reqs :
          bio'[r] = IF \E i \in Batch : mapping[i].req = r /\ attr[r].rw = READ
                      THEN CopyFirst(attr[r].count,
                                     data[CHOOSE i \in Batch : mapping[i].req = r], bio[r])
                      ELSE bio[r]
    BY DEF TaskComplete
  <1>7. ASSUME NEW r \in Reqs
        PROVE  AbstractPage(r)' = AbstractPage(r)
    <2>1. CASE attr[r].rw # READ
      BY <1>1, <1>6, <2>1 DEF AbstractPage
    <2>2. CASE attr[r].rw = READ /\ r \in BatchReqs
      <3>1. stage[r] = "inflight" /\ stage'[r] # "inflight"
        BY <1>1, <1>4, <2>2
      <3>2. \E i \in Batch : mapping[i].req = r
        BY <2>2 DEF BatchReqs
      <3> DEFINE i == CHOOSE j \in Batch : mapping[j].req = r
      <3>3. i \in Batch /\ mapping[i].req = r
        BY <3>2
      <3> HIDE DEF i
      <3>4. i = SlotOf(r)
        BY <1>2, <3>1, <3>3, SlotUnique DEF IInv
      <3>5. bio'[r] = CopyFirst(attr[r].count, data[SlotOf(r)], bio[r])
        BY <1>6, <2>2, <3>2, <3>4 DEF i
      <3>6. AbstractPage(r)' = bio'[r]
        BY <3>1 DEF AbstractPage
      <3>7. AbstractPage(r) = CopyFirst(attr[r].count, data[SlotOf(r)], bio[r])
        BY <2>2, <3>1 DEF AbstractPage
      <3> QED BY <3>5, <3>6, <3>7
    <2>3. CASE r \notin BatchReqs
      <3>1. stage'[r] = stage[r] /\ bio'[r] = bio[r]
        BY <1>1, <1>6, <2>3 DEF BatchReqs
      <3>2. CASE stage[r] = "inflight"
        <4>1. SlotOf(r) \in UsedSlots /\ mapping[SlotOf(r)].req = r
          BY <3>2, SlotUnique DEF IInv
        <4>2. SlotOf(r) \notin Batch
          BY <2>3, <4>1 DEF BatchReqs
        <4>3. SlotOf(r) \in UsedSlots' /\ mapping'[SlotOf(r)].req = r
          BY <1>3, <4>1, <4>2
        <4>4. SlotOf(r)' \in UsedSlots' /\ mapping'[SlotOf(r)'].req = r
          BY <4>3 DEF SlotOf
        <4>5. MappingExact'
          BY TaskCompleteInv DEF IInv
        <4>6. SlotOf(r)' = SlotOf(r)
          BY <4>3, <4>4, <4>5 DEF MappingExact
        <4> QED BY <1>1, <3>1, <4>6 DEF AbstractPage, CopyFirst
      <3>3. CASE stage[r] # "inflight"
        BY <3>1, <3>3 DEF AbstractPage
      <3> QED BY <3>2, <3>3
    <2> QED BY <2>1, <2>2, <2>3
  <1>8. [q \in Reqs |-> AbstractStage(stage[q])]' = [q \in Reqs |-> AbstractStage(stage[q])]
    BY <1>5
  <1>9. [q \in Reqs |-> AbstractPage(q)]' = [q \in Reqs |-> AbstractPage(q)]
    BY <1>7
  <1> QED BY <1>1, <1>8, <1>9

-----------------------------------------------------------------------------
\* Every step of the driver and the emulator is a step of the device or none.
LEMMA NextImplements ==
  ASSUME TypeOK, IInv, [Next]_vars
  PROVE  [Device!Next]_(Device!vars)
PROOF
  <1>1. CASE \E r \in Reqs : Issue(r)
    <2> SUFFICES ASSUME NEW r \in Reqs, Issue(r) PROVE Device!Issue(r)
      BY <1>1 DEF Device!Next
    <2>1. /\ stage[r] = "new" /\ stage' = [stage EXCEPT ![r] = "queued"]
          /\ UNCHANGED <<attr, bio, mapping, data, storage>>
      BY DEF Issue, slotVars, serverVars
    <2>2. AbstractStage("new") = "new" /\ AbstractStage("queued") = "pending"
      BY DEF AbstractStage
    <2>3. /\ [q \in Reqs |-> AbstractStage(stage[q])]'
               = [[q \in Reqs |-> AbstractStage(stage[q])] EXCEPT ![r] = "pending"]
          /\ [q \in Reqs |-> AbstractPage(q)]' = [q \in Reqs |-> AbstractPage(q)]
      BY <2>1, <2>2, MoveImplements DEF Stages
    <2> QED BY <2>1, <2>2, <2>3 DEF Device!Issue
  <1>2. CASE \E r \in Reqs : EndRequest(r)
    <2> SUFFICES ASSUME NEW r \in Reqs, EndRequest(r) PROVE Device!End(r)
      BY <1>2 DEF Device!Next
    <2>1. /\ stage[r] = "completing" /\ stage' = [stage EXCEPT ![r] = "ended"]
          /\ UNCHANGED <<attr, bio, mapping, data, storage>>
      BY DEF EndRequest, slotVars, serverVars
    <2>2. AbstractStage("completing") = "served" /\ AbstractStage("ended") = "ended"
      BY DEF AbstractStage
    <2>3. /\ [q \in Reqs |-> AbstractStage(stage[q])]'
               = [[q \in Reqs |-> AbstractStage(stage[q])] EXCEPT ![r] = "ended"]
          /\ [q \in Reqs |-> AbstractPage(q)]' = [q \in Reqs |-> AbstractPage(q)]
      BY <2>1, <2>2, MoveImplements DEF Stages
    <2> QED BY <2>1, <2>2, <2>3 DEF Device!End
  <1>3. CASE \E r \in Reqs : StrategySubmit(r)
    BY <1>3, SubmitImplements DEF Device!Next
  <1>4. CASE \E r \in Reqs : StrategySkip(r)
    <2> SUFFICES ASSUME NEW r \in Reqs, StrategySkip(r) PROVE UNCHANGED Device!vars
      BY <1>4
    <2>1. /\ stage[r] = "queued" /\ stage' = [stage EXCEPT ![r] = "dequeued"]
          /\ UNCHANGED <<attr, bio, mapping, data, storage>>
      BY DEF StrategySkip, slotVars, serverVars
    <2>2. AbstractStage("queued") = "pending" /\ AbstractStage("dequeued") = "pending"
      BY DEF AbstractStage
    <2>3. /\ [q \in Reqs |-> AbstractStage(stage[q])]'
               = [[q \in Reqs |-> AbstractStage(stage[q])] EXCEPT ![r] = "pending"]
          /\ [q \in Reqs |-> AbstractPage(q)]' = [q \in Reqs |-> AbstractPage(q)]
      BY <2>1, <2>2, MoveImplements DEF Stages
    <2>4. [[q \in Reqs |-> AbstractStage(stage[q])] EXCEPT ![r] = "pending"]
            = [q \in Reqs |-> AbstractStage(stage[q])]
      BY <2>1, <2>2
    <2> QED BY <2>1, <2>3, <2>4 DEF Device!vars
  <1>5. CASE \E r \in Reqs : SoftirqDone(r)
    <2> SUFFICES ASSUME NEW r \in Reqs, SoftirqDone(r) PROVE UNCHANGED Device!vars
      BY <1>5
    <2>1. /\ stage[r] = "ended" /\ stage' = [stage EXCEPT ![r] = "done"]
          /\ UNCHANGED <<attr, bio, mapping, data, storage>>
      BY DEF SoftirqDone, slotVars, serverVars
    <2>2. AbstractStage("ended") = "ended" /\ AbstractStage("done") = "ended"
      BY DEF AbstractStage
    <2>3. /\ [q \in Reqs |-> AbstractStage(stage[q])]'
               = [[q \in Reqs |-> AbstractStage(stage[q])] EXCEPT ![r] = "ended"]
          /\ [q \in Reqs |-> AbstractPage(q)]' = [q \in Reqs |-> AbstractPage(q)]
      BY <2>1, <2>2, MoveImplements DEF Stages
    <2>4. [[q \in Reqs |-> AbstractStage(stage[q])] EXCEPT ![r] = "ended"]
            = [q \in Reqs |-> AbstractStage(stage[q])]
      BY <2>1, <2>2
    <2> QED BY <2>1, <2>3, <2>4 DEF Device!vars
  <1>6. CASE TaskComplete
    BY <1>6, CompleteImplements DEF Device!vars
  <1>7. CASE UNCHANGED <<stage, attr, bio, mapping, data, storage>>
    <2>1. [q \in Reqs |-> AbstractStage(stage[q])]' = [q \in Reqs |-> AbstractStage(stage[q])]
      BY <1>7
    <2>2. \A q \in Reqs : AbstractPage(q)' = AbstractPage(q)
      BY <1>7, PagesKept
    <2>3. [q \in Reqs |-> AbstractPage(q)]' = [q \in Reqs |-> AbstractPage(q)]
      BY <2>2
    <2> QED BY <1>7, <2>1, <2>3 DEF Device!vars
  <1>8. \/ \E r \in Reqs : Issue(r) \/ EndRequest(r) \/ StrategySubmit(r) \/ StrategySkip(r)
                           \/ SoftirqDone(r)
        \/ TaskComplete
        \/ UNCHANGED <<stage, attr, bio, mapping, data, storage>>
    <2> USE DEF blockVars, slotVars, serverVars
    <2>1. CASE Strategy
      BY <2>1 DEF Strategy, StrategyEmpty, StrategyTail
    <2>2. CASE Task
      BY <2>2 DEF Task, TaskStart, TaskIdleWake, TaskReturn, TaskRelock, TaskGetNext
    <2>3. CASE \E r \in Reqs : Softirq(r)
      BY <2>3 DEF Softirq
    <2>4. CASE BlockLayer \/ Tick \/ TimerExpire
      BY <2>4 DEF BlockLayer, RunQueue, Tick, TimerExpire
    <2>5. CASE Module
      BY <2>5 DEF Module, AddDisk, Exit, KthreadStop, Unloaded
    <2>6. CASE Finished \/ UNCHANGED vars
      BY <2>6 DEF Finished, vars
    <2> QED BY <2>1, <2>2, <2>3, <2>4, <2>5, <2>6 DEF Next
  <1> QED BY <1>1, <1>2, <1>3, <1>4, <1>5, <1>6, <1>7, <1>8

\* What the kernel sees of the driver is a block device: each request is served
\* at one instant, and a read gets the data of that instant.
THEOREM ImplementsBlockDevice == Spec => IsBlockDevice
PROOF
  <1>1. Init => Device!Init
    BY InitImplements
  <1>2. TypeOK /\ IInv /\ [Next]_vars => [Device!Next]_(Device!vars)
    BY NextImplements
  <1> QED BY <1>1, <1>2, TypeCorrect, Invariant, PTL DEF Spec, IsBlockDevice, Device!Spec
=============================================================================
