-------------------------- MODULE EmulatorCallProofs --------------------------
(* The calls of a pause are one conversation, at one instant and under one *)
(* hold of the lock, for any number of CPUs, calls, losses and resends.    *)
(* The invariants of the pause and of the link hold of their composition,  *)
(* each of whose steps is a step of either, of both or of neither; what is *)
(* proved here is what ties the two together.                              *)
EXTENDS EmulatorCall, TLAPS

PauseThms == INSTANCE OSPauseProofs
LinkThms  == INSTANCE EmuLinkProofs

-----------------------------------------------------------------------------
(* The two instances of each module are the same.                          *)
LEMMA SamePauseInit == Pause!Init <=> PauseThms!Init
PROOF BY DEF Pause!Init, PauseThms!Init, Pause!NoCPU, PauseThms!NoCPU

LEMMA SamePauseStep == [Pause!Next]_(Pause!vars) <=> [PauseThms!Next]_(PauseThms!vars)
PROOF
  <1> USE DEF Pause!Go, PauseThms!Go, Pause!SetIrqs, PauseThms!SetIrqs,
              Pause!NoCPU, PauseThms!NoCPU, Pause!irqVars, PauseThms!irqVars,
              Pause!timerVars, PauseThms!timerVars, Pause!pauseVars, PauseThms!pauseVars
  <1>1. Pause!Tick <=> PauseThms!Tick
    BY DEF Pause!Tick, PauseThms!Tick
  <1>2. \A c : Pause!Kernel(c) <=> PauseThms!Kernel(c)
    BY DEF Pause!Kernel, PauseThms!Kernel,
           Pause!IrqDisable, PauseThms!IrqDisable, Pause!IrqEnable, PauseThms!IrqEnable,
           Pause!TimerLock, PauseThms!TimerLock, Pause!TimerUnlock, PauseThms!TimerUnlock
  <1>3. \A c : Pause!Driver(c) <=> PauseThms!Driver(c)
    BY DEF Pause!Driver, PauseThms!Driver, Pause!Want, PauseThms!Want,
           Pause!Acquire, PauseThms!Acquire, Pause!Release, PauseThms!Release
  <1>4. \A c : Pause!Pause(c) <=> PauseThms!Pause(c)
    BY DEF Pause!Pause, PauseThms!Pause, Pause!PauseBegin, PauseThms!PauseBegin,
           Pause!SaveFlags, PauseThms!SaveFlags, Pause!StopTimer, PauseThms!StopTimer,
           Pause!Interrupt, PauseThms!Interrupt
  <1>5. \A c : Pause!Resume(c) <=> PauseThms!Resume(c)
    BY DEF Pause!Resume, PauseThms!Resume, Pause!ClearPaused, PauseThms!ClearPaused,
           Pause!ResumeTimer, PauseThms!ResumeTimer,
           Pause!RestoreFlags, PauseThms!RestoreFlags
  <1>6. \A c : Pause!Ipi(c) <=> PauseThms!Ipi(c)
    BY DEF Pause!Ipi, PauseThms!Ipi, Pause!EnterIpi, PauseThms!EnterIpi,
           Pause!LeaveIpi, PauseThms!LeaveIpi
  <1>7. Pause!vars = PauseThms!vars
    BY DEF Pause!vars, PauseThms!vars
  <1>8. Pause!Next <=> PauseThms!Next
    BY <1>1, <1>2, <1>3, <1>4, <1>5, <1>6 DEF Pause!Next, PauseThms!Next
  <1>9. Pause!vars' = PauseThms!vars'
    BY DEF Pause!vars, PauseThms!vars
  <1> QED BY <1>7, <1>8, <1>9

LEMMA SameLinkInit == Link!Init <=> LinkThms!Init
PROOF BY DEF Link!Init, LinkThms!Init, Link!NoReply, LinkThms!NoReply

LEMMA SameLinkStep == [Link!Next]_(Link!vars) <=> [LinkThms!Next]_(LinkThms!vars)
PROOF
  <1> USE DEF Link!driverVars, LinkThms!driverVars, Link!serverVars, LinkThms!serverVars,
              Link!CurrentRequest, LinkThms!CurrentRequest,
              Link!Deliverable, LinkThms!Deliverable, Link!RemoveAt, LinkThms!RemoveAt
  <1>1. Link!Call <=> LinkThms!Call
    BY DEF Link!Call, LinkThms!Call
  <1>2. Link!Poll <=> LinkThms!Poll
    BY DEF Link!Poll, LinkThms!Poll, Link!nctuss_receive_skb, LinkThms!nctuss_receive_skb,
           Link!Resend, LinkThms!Resend
  <1>3. Link!Return <=> LinkThms!Return
    BY DEF Link!Return, LinkThms!Return
  <1>4. Link!Reload <=> LinkThms!Reload
    BY DEF Link!Reload, LinkThms!Reload, Link!Zero, LinkThms!Zero, Link!NoReply, LinkThms!NoReply
  <1>5. Link!Serve <=> LinkThms!Serve
    BY DEF Link!Serve, LinkThms!Serve, Link!Send, LinkThms!Send,
           Link!ServeReset, LinkThms!ServeReset, Link!ServeNew, LinkThms!ServeNew,
           Link!ServeOld, LinkThms!ServeOld
  <1>6. Link!Lose <=> LinkThms!Lose
    BY DEF Link!Lose, LinkThms!Lose
  <1>7. Link!vars = LinkThms!vars /\ Link!vars' = LinkThms!vars'
    BY DEF Link!vars, LinkThms!vars
  <1> QED
    BY <1>1, <1>2, <1>3, <1>4, <1>5, <1>6, <1>7 DEF Link!Next, LinkThms!Next

-----------------------------------------------------------------------------
(* Each step of the composition is a step of either module or leaves it    *)
(* alone.                                                                  *)
LEMMA UnchangedParts ==
  /\ UNCHANGED pauseVars => UNCHANGED Pause!vars
  /\ UNCHANGED linkVars => UNCHANGED Link!vars
PROOF
  BY DEF pauseVars, linkVars, Pause!vars, Pause!irqVars, Pause!timerVars, Pause!pauseVars,
         Link!vars, Link!driverVars, Link!serverVars

LEMMA PauseSteps == [Next]_vars => [Pause!Next]_(Pause!vars)
PROOF
  <1> SUFFICES ASSUME [Next]_vars PROVE Pause!Next \/ UNCHANGED Pause!vars
    OBVIOUS
  <1>1. CASE Reset \/ Reload \/ Answer \/ Network \/ UNCHANGED vars
    <2>1. UNCHANGED pauseVars
      BY <1>1 DEF Reset, Reload, Answer, Network, vars
    <2> QED BY <2>1, UnchangedParts
  <1>2. CASE Kernel
    BY <1>2 DEF Kernel, Pause!Next
  <1>3. ASSUME NEW c \in CPUs, Want(c) \/ Driver(c)
        PROVE  Pause!Next
    BY <1>3 DEF Want, Driver, Pause!Next, Pause!Driver, Pause!Pause, Pause!Resume
  <1>4. ASSUME NEW c \in CPUs, PauseBegin(c) \/ FirstCall(c) \/ ClearPaused(c)
        PROVE  Pause!Next
    BY <1>4 DEF PauseBegin, FirstCall, ClearPaused, Pause!Next, Pause!Pause, Pause!Resume
  <1>5. ASSUME NEW c \in CPUs, NextCall(c) PROVE UNCHANGED Pause!vars
    BY <1>5, UnchangedParts DEF NextCall
  <1> QED BY <1>1, <1>2, <1>3, <1>4, <1>5 DEF Next

LEMMA LinkSteps == [Next]_vars => [Link!Next]_(Link!vars)
PROOF
  <1> SUFFICES ASSUME [Next]_vars PROVE Link!Next \/ UNCHANGED Link!vars
    OBVIOUS
  <1>1. CASE Reset \/ Reload \/ Answer \/ Network
    BY <1>1 DEF Reset, Reload, Answer, Network, Link!Next
  <1>2. CASE Kernel \/ UNCHANGED vars
    <2>1. UNCHANGED linkVars
      BY <1>2 DEF Kernel, vars
    <2> QED BY <2>1, UnchangedParts
  <1>3. ASSUME NEW c \in CPUs, Want(c) \/ Driver(c) \/ PauseBegin(c) \/ ClearPaused(c)
        PROVE  UNCHANGED Link!vars
    BY <1>3, UnchangedParts DEF Want, Driver, PauseBegin, ClearPaused
  <1>4. ASSUME NEW c \in CPUs, FirstCall(c) \/ NextCall(c) PROVE Link!Next
    BY <1>4 DEF FirstCall, NextCall, Link!Next
  <1> QED BY <1>1, <1>2, <1>3, <1>4 DEF Next

\* The invariants of the pause hold whatever the link does.
THEOREM PauseKept == Spec => [](PauseThms!TypeOK /\ PauseThms!IInv)
PROOF
  <1>1. Init => PauseThms!TypeOK /\ PauseThms!IInv
    BY SamePauseInit, PauseThms!InitTypeOK, PauseThms!InitInv, PauseAssumption
    DEF Init, Pause!NoCPU, PauseThms!NoCPU
  <1>2. /\ PauseThms!TypeOK /\ PauseThms!IInv /\ [Next]_vars
        => (PauseThms!TypeOK /\ PauseThms!IInv)'
    BY PauseSteps, SamePauseStep, PauseThms!NextTypeOK, PauseThms!NextInv, PauseAssumption
    DEF Pause!NoCPU, PauseThms!NoCPU
  <1> QED BY <1>1, <1>2, PTL DEF Spec

\* The types of the link are kept, whatever the network does.
LEMMA LinkTyped == Spec => []LinkThms!TypeOK
PROOF
  <1>1. Init => LinkThms!TypeOK
    BY SameLinkInit, LinkThms!InitTypeOK, LinkAssumption DEF Init
  <1>2. LinkThms!TypeOK /\ [Next]_vars => LinkThms!TypeOK'
    BY LinkSteps, SameLinkStep, LinkThms!NextTypeOK, LinkAssumption
  <1> QED BY <1>1, <1>2, PTL DEF Spec

\* Where no packet overtakes another the invariants of the link hold, whatever
\* the pauses do.
THEOREM LinkKept == ASSUME Link!Orderly PROVE Spec => []LinkThms!IInv
PROOF
  <1>1. Init => LinkThms!Init
    BY SameLinkInit DEF Init
  <1>2. [Next]_vars => [LinkThms!Next]_(LinkThms!vars)
    BY LinkSteps, SameLinkStep
  <1>3. LinkThms!Spec => []LinkThms!IInv
    BY LinkThms!Invariant, LinkAssumption DEF Link!Orderly, LinkThms!Orderly
  <1> QED BY <1>1, <1>2, <1>3, PTL DEF Spec, LinkThms!Spec
-----------------------------------------------------------------------------
(* What ties the two together.                                             *)

\* The lock is held by who pauses or may pause, and by nobody outside the driver.
LEMMA LockHolder ==
  ASSUME PauseThms!IInv, NEW c \in CPUs
  PROVE  /\ pc[c] \in {"held"} \cup Pause!Pausing => lock = c
         /\ lock = c => InDriver(c)
PROOF
  BY DEF PauseThms!IInv, PauseThms!LocksOK, PauseThms!At, PauseThms!Pausing, Pause!Pausing,
         InDriver

\* A call takes the next number; only the first one of a session takes FirstId.
LEMMA CallNumbered ==
  ASSUME LinkThms!TypeOK, Link!Call
  PROVE  /\ ~calling /\ calling' /\ udp_send_reply_id \in Nat
         /\ current_waiting_reply_id' = udp_send_reply_id
         /\ udp_send_reply_id' # FirstId
PROOF
  <1>1. /\ ~calling /\ calling' = TRUE
        /\ udp_send_reply_id - FirstId \in 0 .. MaxCalls - 1
        /\ current_waiting_reply_id' = udp_send_reply_id
        /\ udp_send_reply_id' = (udp_send_reply_id + 1) % IdSpace
    BY DEF Link!Call
  <1>2. udp_send_reply_id \in 0 .. IdSpace - 1
    BY DEF LinkThms!TypeOK, LinkThms!Ids
  <1>3. FirstId \in Nat \ {0} /\ IdSpace \in Nat /\ MaxCalls \in Nat
    BY LinkAssumption
  <1>4. udp_send_reply_id >= FirstId
    BY <1>1, <1>2, <1>3
  <1>5. CASE udp_send_reply_id = IdSpace - 1
    <2>1. udp_send_reply_id' = 0
      BY <1>1, <1>2, <1>3, <1>5
    <2> QED BY <1>1, <1>2, <1>3, <2>1
  <1>6. CASE udp_send_reply_id # IdSpace - 1
    <2>1. udp_send_reply_id' = udp_send_reply_id + 1
      BY <1>1, <1>2, <1>3, <1>6
    <2> QED BY <1>1, <1>2, <1>3, <1>4, <2>1
  <1> QED BY <1>5, <1>6

\* A step of a pause alone: nobody enters the driver or leaves the conversation.
LEMMA PauseAlone ==
  ASSUME CallsOK, UNCHANGED linkVars,
         \A c \in CPUs : InDriver(c)' => InDriver(c),
         \A c \in CPUs : pc[c] = "call" => pc'[c] = "call"
  PROVE  CallsOK'
PROOF BY DEF CallsOK, Loaded, linkVars

\* The rest of the kernel neither enters the driver nor leaves it.
LEMMA KernelAlone ==
  ASSUME PauseThms!TypeOK, Kernel
  PROVE  /\ \A c \in CPUs : InDriver(c)' <=> InDriver(c)
         /\ \A c \in CPUs : pc[c] = "call" <=> pc'[c] = "call"
         /\ lock' = lock
PROOF
  <1> USE DEF PauseThms!TypeOK, PauseThms!PCs, PauseThms!Pausing, Pause!Pausing,
              Pause!Go, Pause!SetIrqs, InDriver
  <1>1. CASE Pause!Tick
    BY <1>1 DEF Pause!Tick
  <1>2. ASSUME NEW d \in CPUs, Pause!IrqDisable(d) \/ Pause!IrqEnable(d)
        PROVE  /\ \A c \in CPUs : InDriver(c)' <=> InDriver(c)
               /\ \A c \in CPUs : pc[c] = "call" <=> pc'[c] = "call"
               /\ lock' = lock
    BY <1>2 DEF Pause!IrqDisable, Pause!IrqEnable
  <1>3. ASSUME NEW d \in CPUs, Pause!TimerLock(d) \/ Pause!TimerUnlock(d)
        PROVE  /\ \A c \in CPUs : InDriver(c)' <=> InDriver(c)
               /\ \A c \in CPUs : pc[c] = "call" <=> pc'[c] = "call"
               /\ lock' = lock
    BY <1>3 DEF Pause!TimerLock, Pause!TimerUnlock
  <1>4. ASSUME NEW d \in CPUs, Pause!Ipi(d)
        PROVE  UNCHANGED <<pc, below, lock>>
    BY <1>4 DEF Pause!Ipi, Pause!EnterIpi, Pause!LeaveIpi
  <1> QED BY <1>1, <1>2, <1>3, <1>4 DEF Kernel, Pause!Kernel

LEMMA CallsNext ==
  ASSUME PauseThms!TypeOK, PauseThms!IInv, LinkThms!TypeOK, CallsOK, [Next]_vars
  PROVE  CallsOK'
PROOF
  <1> USE DEF InDriver, Pause!Pausing
  <1>1. CASE Reset
    <2>1. \A c \in CPUs : ~InDriver(c) /\ ~InDriver(c)'
      BY <1>1 DEF Reset, CallsOK, Loaded, pauseVars
    <2>2. current_waiting_reply_id' = FirstId
      BY <1>1, CallNumbered DEF Reset
    <2> QED BY <2>1, <2>2 DEF CallsOK
  <1>2. CASE Reload
    <2>1. \A c \in CPUs : ~InDriver(c)'
      BY <1>2 DEF Reload, pauseVars
    <2>2. ~calling'
      BY <1>2 DEF Reload, Link!Reload
    <2> QED BY <2>1, <2>2 DEF CallsOK
  <1>3. CASE Kernel
    <2>1. UNCHANGED linkVars
      BY <1>3 DEF Kernel
    <2> QED BY <1>3, <2>1, KernelAlone, PauseAlone
  <1>4. CASE Answer \/ Network
    <2>1. /\ UNCHANGED <<pc, below, current_waiting_reply_id, udp_send_reply_id>>
          /\ calling' => calling
      BY <1>4 DEF Answer, Network, pauseVars, Link!Poll, Link!Return, Link!Serve, Link!Lose,
                  Link!driverVars, Link!serverVars
    <2> QED BY <2>1 DEF CallsOK, Loaded
  <1>5. ASSUME NEW c \in CPUs, Want(c) PROVE CallsOK'
    <2>1. Loaded' /\ calling' = calling
          /\ current_waiting_reply_id' = current_waiting_reply_id
      BY <1>5 DEF Want, Loaded, linkVars
    <2>2. \A d \in CPUs : pc[d] = "call" => pc'[d] = "call"
      BY <1>5 DEF Want, Pause!Want, Pause!Go, PauseThms!TypeOK
    <2> QED BY <2>1, <2>2 DEF CallsOK
  <1>6. ASSUME NEW c \in CPUs, Driver(c) \/ PauseBegin(c) PROVE CallsOK'
    <2>1. /\ \A d \in CPUs : InDriver(d)' => InDriver(d)
          /\ \A d \in CPUs : pc[d] = "call" => pc'[d] = "call"
      BY <1>6 DEF Driver, PauseBegin, Pause!Acquire, Pause!Release, Pause!StopTimer,
                  Pause!ResumeTimer, Pause!RestoreFlags, Pause!PauseBegin, Pause!Go,
                  PauseThms!TypeOK
    <2>2. UNCHANGED linkVars
      BY <1>6 DEF Driver, PauseBegin
    <2> QED BY <2>1, <2>2, PauseAlone
  <1>7. ASSUME NEW c \in CPUs, FirstCall(c) \/ NextCall(c) PROVE CallsOK'
    <2>1. pc'[c] = "call" /\ InDriver(c)
      BY <1>7 DEF FirstCall, NextCall, Pause!Interrupt, Pause!Go, PauseThms!TypeOK, pauseVars
    <2>2. current_waiting_reply_id' # FirstId /\ udp_send_reply_id' # FirstId
      BY <1>7, <2>1, CallNumbered DEF FirstCall, NextCall, CallsOK, Loaded
    <2> QED BY <2>1, <2>2 DEF CallsOK, Loaded
  <1>8. ASSUME NEW c \in CPUs, ClearPaused(c) PROVE CallsOK'
    <2>1. \A d \in CPUs : InDriver(d)' => InDriver(d)
      BY <1>8 DEF ClearPaused, Pause!ClearPaused, Pause!Go, PauseThms!TypeOK
    <2>2. ~calling /\ UNCHANGED <<calling, current_waiting_reply_id, udp_send_reply_id>>
      BY <1>8 DEF ClearPaused, linkVars
    <2> QED BY <2>1, <2>2 DEF CallsOK, Loaded
  <1>9. CASE UNCHANGED vars
    BY <1>9 DEF vars, pauseVars, linkVars, CallsOK, Loaded
  <1> QED BY <1>1, <1>2, <1>3, <1>4, <1>5, <1>6, <1>7, <1>8, <1>9 DEF Next

\* The disk is used after the reset only, and every other call is made inside a
\* pause and answered before it ends, whatever the network does.
THEOREM CallsInPauses == Spec => []CallsOK
PROOF
  <1>1. Init => CallsOK
    BY DEF Init, Pause!Init, Link!Init, CallsOK, InDriver, Pause!Pausing
  <1>2. /\ PauseThms!TypeOK /\ PauseThms!IInv /\ LinkThms!TypeOK /\ CallsOK /\ [Next]_vars
        => CallsOK'
    BY CallsNext
  <1> QED BY <1>1, <1>2, PauseKept, LinkTyped, PTL DEF Spec
-----------------------------------------------------------------------------
(* The conversation.                                                       *)

Open   == \E c \in CPUs : pc[c] = "call"
call   == IF calling THEN current_waiting_reply_id ELSE Link!NoCall
answer == IF calling /\ reply.id = current_waiting_reply_id THEN reply.result ELSE -1

\* There is one conversation at a time, and it goes on under the lock.
LEMMA OpenIs ==
  ASSUME PauseThms!IInv
  PROVE  /\ \A c, d \in CPUs : pc[c] = "call" /\ lock = d => c = d
         /\ Open => lock \in CPUs /\ ~gt_running
         /\ \A c \in CPUs : pc[c] \in {"held"} \cup Pause!Pausing => lock = c
PROOF
  BY LockHolder DEF Open, Pause!Pausing, PauseThms!IInv, PauseThms!PauseOK

\* A call is made and not yet carried out.
LEMMA CallInvokes ==
  ASSUME LinkThms!TypeOK, LinkThms!IInv, Link!Call
  PROVE  /\ Talk!Invoke(udp_send_reply_id)
         /\ udp_send_reply_id \in Link!Ids
PROOF
  <1>1. LinkThms!Call
    BY DEF Link!Call, LinkThms!Call, Link!CurrentRequest, LinkThms!CurrentRequest,
           Link!serverVars, LinkThms!serverVars
  <1>2. udp_send_reply_id # reply.id
    BY <1>1, LinkThms!CallIsNew, LinkAssumption
  <1>3. /\ ~calling /\ calling' = TRUE /\ current_waiting_reply_id' = udp_send_reply_id
        /\ UNCHANGED <<log, got, reply>>
    BY DEF Link!Call, Link!serverVars
  <1>4. udp_send_reply_id \in Link!Ids
    BY DEF LinkThms!TypeOK, LinkThms!Ids, Link!Ids
  <1> QED BY <1>2, <1>3, <1>4 DEF Talk!Invoke

\* Server, network and polling loop carry the call out, end it or are not seen.
LEMMA LinkHears ==
  ASSUME LinkThms!TypeOK, LinkThms!IInv,
         Link!Poll \/ Link!Return \/ Link!Serve \/ Link!Lose \/ Link!Reload
  PROVE  Talk!Execute \/ Talk!Return \/ UNCHANGED <<log, call, answer, got>>
PROOF
  <1>1. [LinkThms!Next]_(LinkThms!vars)
    BY SameLinkStep DEF Link!Next
  <1>2. [LinkThms!Remote!Next]_(LinkThms!Remote!vars)
    BY <1>1, LinkThms!NextImplements, LinkAssumption
  <1>3. calling' => calling
    BY DEF Link!Poll, Link!Return, Link!Serve, Link!Lose, Link!Reload, Link!driverVars
  <1>4. current_waiting_reply_id \in Nat
    BY LinkAssumption DEF LinkThms!TypeOK, LinkThms!Ids
  <1>5. CASE UNCHANGED LinkThms!Remote!vars
    BY <1>5 DEF LinkThms!Remote!vars, LinkThms!NoCall, Link!NoCall, call, answer
  <1>6. CASE LinkThms!Remote!Execute
    BY <1>6 DEF LinkThms!Remote!Execute, Talk!Execute, LinkThms!NoCall, Link!NoCall
  <1>7. CASE LinkThms!Remote!Return
    BY <1>7 DEF LinkThms!Remote!Return, Talk!Return, LinkThms!NoCall, Link!NoCall
  <1>8. ASSUME NEW c \in LinkThms!Ids \cup {FirstId}, LinkThms!Remote!Invoke(c) PROVE FALSE
    <2>1. c \in Nat
      BY LinkAssumption DEF LinkThms!Ids
    <2>2. ~calling
      BY <1>4, <1>8 DEF LinkThms!Remote!Invoke, LinkThms!NoCall
    <2>3. c = -1
      BY <1>3, <1>8, <2>2 DEF LinkThms!Remote!Invoke, LinkThms!NoCall
    <2> QED BY <2>1, <2>3
  <1> QED BY <1>2, <1>5, <1>6, <1>7, <1>8 DEF LinkThms!Remote!Next

\* The pause brackets the calls: the clock and the lock are used between
\* conversations only.
LEMMA PauseTalks ==
  ASSUME PauseThms!TypeOK, PauseThms!IInv, CallsOK, UNCHANGED linkVars,
         \/ Kernel
         \/ \E c \in CPUs : Want(c) \/ PauseBegin(c) \/ ClearPaused(c) \/ Driver(c)
  PROVE  [Talk!TalkNext]_(Talk!talkVars)
PROOF
  <1> SUFFICES ASSUME ~ UNCHANGED Talk!talkVars PROVE Talk!TalkNext
    OBVIOUS
  <1>1. UNCHANGED <<log, call, answer, got>>
    BY DEF linkVars, call, answer
  <1>2. UNCHANGED Talk!vars
    BY <1>1 DEF Talk!vars, call, answer
  <1>3. \A c \in CPUs : c # Pause!NoCPU
    BY PauseAssumption
  <1> USE DEF Talk!TalkNext, Talk!talkVars, PauseThms!TypeOK, Pause!Go
  <1>4. CASE Pause!Tick
    <2>1. ~Open /\ UNCHANGED <<pc, lock>> /\ gt' = (gt + 1) % CounterSpace
      BY <1>4, OpenIs DEF Pause!Tick
    <2> QED BY <1>2, <2>1 DEF Talk!Tick, Open
  <1>5. CASE Kernel /\ ~Pause!Tick
    <2>1. gt' = gt
      BY <1>5 DEF Kernel, Pause!Kernel, Pause!IrqDisable, Pause!IrqEnable, Pause!TimerLock,
                  Pause!TimerUnlock, Pause!Ipi, Pause!EnterIpi, Pause!LeaveIpi,
                  Pause!timerVars
    <2>2. (\A c \in CPUs : pc[c] = "call" <=> pc'[c] = "call") /\ lock' = lock
      BY <1>5, KernelAlone
    <2> QED BY <1>2, <2>1, <2>2
  <1>6. ASSUME NEW c \in CPUs, \/ Want(c) \/ PauseBegin(c) \/ Pause!StopTimer(c)
                               \/ Pause!ResumeTimer(c) \/ Pause!RestoreFlags(c)
        PROVE  FALSE
    <2>1. gt' = gt /\ lock' = lock
      BY <1>6 DEF Want, PauseBegin, Pause!Want, Pause!PauseBegin, Pause!StopTimer,
                  Pause!ResumeTimer, Pause!RestoreFlags, Pause!timerVars
    <2>2. \A d \in CPUs : pc[d] = "call" <=> pc'[d] = "call"
      BY <1>6 DEF Want, PauseBegin, Pause!Want, Pause!PauseBegin, Pause!StopTimer,
                  Pause!ResumeTimer, Pause!RestoreFlags
    <2> QED BY <1>2, <2>1, <2>2
  <1>7. ASSUME NEW c \in CPUs, Pause!Acquire(c) PROVE Talk!Lock
    <2>1. /\ lock = Pause!NoCPU /\ lock' = c /\ gt' = gt
          /\ \A d \in CPUs : pc[d] = "call" <=> pc'[d] = "call"
      BY <1>7 DEF Pause!Acquire, Pause!timerVars
    <2>2. ~Open /\ InDriver(c)
      BY <1>3, <1>7, <2>1, OpenIs DEF Pause!Acquire, InDriver
    <2>3. ~calling
      BY <2>2 DEF CallsOK, Loaded, Open
    <2> QED BY <1>2, <2>1, <2>3 DEF Talk!Lock
  <1>8. ASSUME NEW c \in CPUs, Pause!Release(c) PROVE Talk!Unlock
    <2>1. /\ pc[c] = "held" /\ lock' = Pause!NoCPU /\ gt' = gt
          /\ \A d \in CPUs : pc[d] = "call" <=> pc'[d] = "call"
      BY <1>8 DEF Pause!Release, Pause!timerVars
    <2>2. lock = c /\ ~Open
      BY <2>1, OpenIs DEF Open
    <2> QED BY <1>2, <2>1, <2>2 DEF Talk!Unlock, Open
  <1>9. ASSUME NEW c \in CPUs, ClearPaused(c) PROVE Talk!Close
    <2>1. /\ pc[c] = "call" /\ pc'[c] # "call" /\ gt' = gt /\ lock' = lock /\ ~calling
          /\ \A d \in CPUs : d # c => pc'[d] = pc[d]
      BY <1>9 DEF ClearPaused, Pause!ClearPaused, Pause!timerVars
    <2>2. lock = c /\ \A d \in CPUs : pc[d] = "call" => d = c
      BY <2>1, OpenIs DEF Pause!Pausing
    <2> QED BY <1>2, <2>1, <2>2 DEF Talk!Close
  <1> QED BY <1>4, <1>5, <1>6, <1>7, <1>8, <1>9 DEF Driver
\* Each step of the composition is a step of the conversation or is not seen.
LEMMA NextTalks ==
  ASSUME PauseThms!TypeOK, PauseThms!IInv, LinkThms!TypeOK, LinkThms!IInv, CallsOK,
         [Next]_vars
  PROVE  [Talk!TalkNext]_(Talk!talkVars)
PROOF
  <1> USE DEF Talk!TalkNext, Talk!talkVars
  <1>1. CASE Reset
    <2>1. /\ udp_send_reply_id = FirstId /\ Talk!Invoke(udp_send_reply_id)
          /\ UNCHANGED <<pc, gt, lock>>
      BY <1>1, CallInvokes DEF Reset, pauseVars
    <2>2. lock = Pause!NoCPU
      <3>1. \A c \in CPUs : lock # c
        BY <2>1, LockHolder DEF CallsOK, Loaded
      <3> QED BY <3>1 DEF PauseThms!TypeOK, PauseThms!NoCPU, Pause!NoCPU
    <2> QED BY <2>1, <2>2 DEF Talk!Load
  <1>2. ASSUME NEW c \in CPUs, FirstCall(c) \/ NextCall(c) PROVE Talk!Say
    <2>1. /\ pc[c] \in {"stopped", "call"} /\ pc'[c] = "call" /\ UNCHANGED <<gt, lock>>
          /\ Link!Call
      BY <1>2 DEF FirstCall, NextCall, Pause!Interrupt, Pause!Go, Pause!timerVars, pauseVars,
                  PauseThms!TypeOK
    <2>2. Talk!Invoke(udp_send_reply_id) /\ udp_send_reply_id \in Link!Ids
      BY <2>1, CallInvokes
    <2>3. lock = c /\ udp_send_reply_id # FirstId
      BY <2>1, LockHolder DEF CallsOK, Loaded, InDriver, Pause!Pausing
    <2> QED BY <2>1, <2>2, <2>3 DEF Talk!Say
  <1>3. CASE Reload \/ Answer \/ Network
    <2>1. Talk!Execute \/ Talk!Return \/ UNCHANGED <<log, call, answer, got>>
      BY <1>3, LinkHears DEF Reload, Answer, Network
    <2>2. UNCHANGED <<pc, gt, lock>>
      BY <1>3 DEF Reload, Answer, Network, pauseVars
    <2> QED BY <2>1, <2>2 DEF Talk!Hear, Talk!vars, call, answer
  <1>4. CASE Kernel
    BY <1>4, PauseTalks DEF Kernel
  <1>5. ASSUME NEW c \in CPUs, Want(c) \/ PauseBegin(c) \/ ClearPaused(c) \/ Driver(c)
        PROVE  [Talk!TalkNext]_(Talk!talkVars)
    <2>1. UNCHANGED linkVars
      BY <1>5 DEF Want, PauseBegin, ClearPaused, Driver
    <2> QED BY <1>5, <2>1, PauseTalks
  <1>6. CASE UNCHANGED vars
    BY <1>6 DEF vars, pauseVars, linkVars, Talk!vars
  <1> QED BY <1>1, <1>2, <1>3, <1>4, <1>5, <1>6 DEF Next

\* Where no packet overtakes another, all the calls of a pause are remote
\* procedure calls made at one reading of the clock and under one hold of
\* Emudisk.lock; only the reset takes time, while nobody uses the disk.
THEOREM ImplementsConversation == ASSUME Link!Orderly PROVE Spec => IsConversation
PROOF
  <1>1. Init => Talk!TalkInit
    BY DEF Init, Pause!Init, Link!Init, Talk!TalkInit, Talk!Init, Link!NoCall
  <1>2. /\ PauseThms!TypeOK /\ PauseThms!IInv /\ LinkThms!TypeOK /\ LinkThms!IInv
        /\ CallsOK /\ [Next]_vars
        => [Talk!TalkNext]_(Talk!talkVars)
    BY NextTalks
  <1>3. Spec => []LinkThms!IInv
    BY LinkKept
  <1> QED
    BY <1>1, <1>2, <1>3, PauseKept, LinkTyped, CallsInPauses, PTL
    DEF Spec, IsConversation, Talk!TalkSpec
===============================================================================
