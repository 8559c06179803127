---------------------------- MODULE OSPauseProofs ----------------------------
(* The pause is exclusive, holds the other CPUs and takes no time, for any *)
(* number of CPUs.                                                         *)
EXTENDS OSPause, TLAPS

-----------------------------------------------------------------------------
(* The inductive invariant.                                                *)

\* What CPU c is at, or has been at when it was interrupted.
At(c) == IF pc[c] \in {"irqsoff", "timer"} THEN below[c] ELSE pc[c]

\* Who holds which lock can be read off the program counters.
LocksOK ==
  \A c \in CPUs :
    /\ lock = c <=> At(c) \in Pausing \cup {"held"}
    /\ gt_lock = c <=> pc[c] \in {"timer", "stopped", "call", "released"}

\* A CPU is in ipi_function only where its interrupts were on, and has them off
\* there; a pausing CPU keeps its own in my_flags.
IrqsOK ==
  \A c \in CPUs :
    /\ parked[c] => /\ ~irqs[c]
                    /\ pc[c] \in {"run", "wait", "held"}
                    /\ pc[c] # "run" => caller[c] = "task"
    /\ pc[c] \in Pausing \cup {"irqsoff", "timer"} => ~irqs[c]
    /\ pc[c] \in {"irqsoff", "timer"} /\ below[c] # "run" => caller[c] = "task"
    /\ pc[c] = "run" /\ ~parked[c] => irqs[c]
    /\ pc[c] \in Pausing => (my_flags <=> caller[c] = "task")

\* The flag, the timer and its counter during a pause.
PauseOK ==
  /\ nctuss_OS_paused = 1 <=> \E c \in CPUs : pc[c] \in {"flagged", "stopped", "call"}
  /\ \A c \in CPUs : pc[c] \in {"stopped", "call", "released"} => ~gt_running

IInv == LocksOK /\ IrqsOK /\ PauseOK /\ FlagsAreTheCallers /\ CallTakesNoTime /\ OthersHeld

-----------------------------------------------------------------------------
(* Types.                                                                  *)
LEMMA InitTypeOK == Init => TypeOK
PROOF
  <1> SUFFICES ASSUME Init PROVE TypeOK
    OBVIOUS
  <1>1. 0 \in 0 .. CounterSpace - 1
    BY CounterAssumption
  <1>2. gt \in 0 .. CounterSpace - 1 /\ nctuss_OS_paused_counter_count \in 0 .. CounterSpace - 1
    BY <1>1 DEF Init
  <1>3. irqs \in [CPUs -> BOOLEAN] /\ ipi \in [CPUs -> BOOLEAN] /\ parked \in [CPUs -> BOOLEAN]
    BY DEF Init
  <1>4. pc \in [CPUs -> PCs] /\ below \in [CPUs -> {"run", "wait", "held"}] /\ caller \in [CPUs -> {"strategy", "task"}]
    BY DEF Init, PCs
  <1> QED BY <1>2, <1>3, <1>4 DEF Init, TypeOK

\* The remainder by the size of the counter is below it.
LEMMA TickType ==
  ASSUME TypeOK, Tick
  PROVE  TypeOK'
PROOF
  <1>1. (gt + 1) % CounterSpace \in 0 .. CounterSpace - 1
    BY CounterAssumption DEF TypeOK
  <1> QED BY <1>1 DEF TypeOK, Tick, irqVars, pauseVars

LEMMA KernelType ==
  ASSUME TypeOK, NEW c \in CPUs, Kernel(c)
  PROVE  TypeOK'
PROOF
  <1> USE DEF Go, SetIrqs, PCs, timerVars, pauseVars, irqVars
  <1>1. CASE IrqDisable(c)  BY <1>1 DEF IrqDisable, TypeOK
  <1>2. CASE IrqEnable(c)   BY <1>2 DEF IrqEnable, TypeOK
  <1>3. CASE TimerLock(c)   BY <1>3 DEF TimerLock, TypeOK
  <1>4. CASE TimerUnlock(c) BY <1>4 DEF TimerUnlock, TypeOK
  <1> QED BY <1>1, <1>2, <1>3, <1>4 DEF Kernel

LEMMA DriverType ==
  ASSUME TypeOK, NEW c \in CPUs, Driver(c)
  PROVE  TypeOK'
PROOF
  <1> USE DEF Go, SetIrqs, PCs, timerVars, pauseVars, irqVars
  <1>1. CASE Want(c)
    <2>1. PICK who \in {"strategy", "task"} : /\ caller' = [caller EXCEPT ![c] = who]
                                              /\ irqs' = [irqs EXCEPT ![c] = who = "task"]
      BY <1>1 DEF Want
    <2> QED BY <1>1, <2>1 DEF Want, TypeOK
  <1>2. CASE Acquire(c) BY <1>2 DEF Acquire, TypeOK
  <1>3. CASE Release(c) BY <1>3 DEF Release, TypeOK
  <1> QED BY <1>1, <1>2, <1>3 DEF Driver

LEMMA PauseType ==
  ASSUME TypeOK, NEW c \in CPUs, Pause(c)
  PROVE  TypeOK'
PROOF
  <1> USE DEF Go, SetIrqs, PCs, Pausing, timerVars, pauseVars, irqVars
  <1>1. CASE PauseBegin(c) BY <1>1 DEF PauseBegin, SaveFlags, TypeOK
  <1>2. CASE StopTimer(c)  BY <1>2 DEF StopTimer, TypeOK
  <1>3. CASE Interrupt(c)  BY <1>3 DEF Interrupt, TypeOK
  <1> QED BY <1>1, <1>2, <1>3 DEF Pause

LEMMA ResumeType ==
  ASSUME TypeOK, NEW c \in CPUs, Resume(c)
  PROVE  TypeOK'
PROOF
  <1> USE DEF Go, SetIrqs, PCs, Pausing, timerVars, pauseVars, irqVars
  <1>1. CASE ClearPaused(c)  BY <1>1 DEF ClearPaused, TypeOK
  <1>2. CASE ResumeTimer(c)  BY <1>2 DEF ResumeTimer, TypeOK
  <1>3. CASE RestoreFlags(c) BY <1>3 DEF RestoreFlags, TypeOK
  <1> QED BY <1>1, <1>2, <1>3 DEF Resume

LEMMA IpiType ==
  ASSUME TypeOK, NEW c \in CPUs, Ipi(c)
  PROVE  TypeOK'
PROOF
  <1> USE DEF SetIrqs, timerVars, pauseVars
  <1>1. CASE EnterIpi(c) BY <1>1 DEF EnterIpi, TypeOK
  <1>2. CASE LeaveIpi(c) BY <1>2 DEF LeaveIpi, TypeOK
  <1> QED BY <1>1, <1>2 DEF Ipi

LEMMA NextTypeOK == TypeOK /\ [Next]_vars => TypeOK'
PROOF
  <1> SUFFICES ASSUME TypeOK, [Next]_vars PROVE TypeOK'
    OBVIOUS
  <1>1. CASE UNCHANGED vars
    BY <1>1 DEF vars, timerVars, pauseVars, irqVars, TypeOK
  <1> QED BY <1>1, TickType, KernelType, DriverType, PauseType, ResumeType, IpiType DEF Next

\* Every variable keeps its type.
THEOREM TypeCorrect == Spec => []TypeOK
PROOF BY InitTypeOK, NextTypeOK, PTL DEF Spec

-----------------------------------------------------------------------------
(* Each action keeps the invariant.                                        *)
LEMMA InitInv == Init => IInv
PROOF
  BY CPUsAssumption
  DEF Init, IInv, At, LocksOK, IrqsOK, PauseOK, FlagsAreTheCallers, CallTakesNoTime, OthersHeld, Pausing

\* The timer does not run while a CPU calls the emulator.
LEMMA TickInv ==
  ASSUME TypeOK, IInv, Tick
  PROVE  IInv'
PROOF
  <1> USE DEF Tick, irqVars, pauseVars
  <1>1. LocksOK' /\ IrqsOK' /\ PauseOK'
    BY DEF IInv, At, LocksOK, IrqsOK, PauseOK
  <1>2. FlagsAreTheCallers' /\ OthersHeld'
    BY DEF IInv, FlagsAreTheCallers, OthersHeld
  <1>3. CallTakesNoTime'
    BY DEF IInv, PauseOK, CallTakesNoTime
  <1> QED BY <1>1, <1>2, <1>3 DEF IInv

\* The rest of the kernel.
LEMMA IrqDisableInv ==
  ASSUME TypeOK, IInv, NEW c \in CPUs, IrqDisable(c)
  PROVE  IInv'
PROOF
  <1> USE CPUsAssumption
      DEF IrqDisable, Go, SetIrqs, TypeOK, IInv, PCs, Pausing, timerVars, pauseVars, irqVars
  <1>1. LocksOK'
    BY DEF At, LocksOK, IrqsOK
  <1>2. IrqsOK'
    BY DEF At, LocksOK, IrqsOK, FlagsAreTheCallers
  <1>3. PauseOK'
    BY DEF At, LocksOK, PauseOK
  <1>4. FlagsAreTheCallers'
    BY DEF IrqsOK, FlagsAreTheCallers
  <1>5. CallTakesNoTime'
    BY DEF At, LocksOK, CallTakesNoTime
  <1>6. OthersHeld'
    BY DEF At, LocksOK, PauseOK, OthersHeld
  <1> QED BY <1>1, <1>2, <1>3, <1>4, <1>5, <1>6 DEF IInv

LEMMA IrqEnableInv ==
  ASSUME TypeOK, IInv, NEW c \in CPUs, IrqEnable(c)
  PROVE  IInv'
PROOF
  <1> USE CPUsAssumption
      DEF IrqEnable, Go, SetIrqs, TypeOK, IInv, PCs, Pausing, timerVars, pauseVars, irqVars
  <1>1. LocksOK'
    BY DEF At, LocksOK, IrqsOK
  <1>2. IrqsOK'
    BY DEF At, LocksOK, IrqsOK, FlagsAreTheCallers
  <1>3. PauseOK'
    BY DEF At, LocksOK, PauseOK
  <1>4. FlagsAreTheCallers'
    BY DEF IrqsOK, FlagsAreTheCallers
  <1>5. CallTakesNoTime'
    BY DEF At, LocksOK, CallTakesNoTime
  <1>6. OthersHeld'
    BY DEF At, LocksOK, PauseOK, OthersHeld
  <1> QED BY <1>1, <1>2, <1>3, <1>4, <1>5, <1>6 DEF IInv

LEMMA TimerLockInv ==
  ASSUME TypeOK, IInv, NEW c \in CPUs, TimerLock(c)
  PROVE  IInv'
PROOF
  <1> USE CPUsAssumption
      DEF TimerLock, Go, SetIrqs, TypeOK, IInv, PCs, Pausing, timerVars, pauseVars, irqVars
  <1>1. LocksOK'
    BY DEF At, LocksOK, IrqsOK
  <1>2. IrqsOK'
    BY DEF At, LocksOK, IrqsOK, FlagsAreTheCallers
  <1>3. PauseOK'
    BY DEF At, LocksOK, PauseOK
  <1>4. FlagsAreTheCallers'
    BY DEF IrqsOK, FlagsAreTheCallers
  <1>5. CallTakesNoTime'
    BY DEF At, LocksOK, CallTakesNoTime
  <1>6. OthersHeld'
    BY DEF At, LocksOK, PauseOK, OthersHeld
  <1> QED BY <1>1, <1>2, <1>3, <1>4, <1>5, <1>6 DEF IInv

LEMMA TimerUnlockInv ==
  ASSUME TypeOK, IInv, NEW c \in CPUs, TimerUnlock(c)
  PROVE  IInv'
PROOF
  <1> USE CPUsAssumption
      DEF TimerUnlock, Go, SetIrqs, TypeOK, IInv, PCs, Pausing, timerVars, pauseVars, irqVars
  <1>1. LocksOK'
    BY DEF At, LocksOK, IrqsOK
  <1>2. IrqsOK'
    BY DEF At, LocksOK, IrqsOK, FlagsAreTheCallers
  <1>3. PauseOK'
    BY DEF At, LocksOK, PauseOK
  <1>4. FlagsAreTheCallers'
    BY DEF IrqsOK, FlagsAreTheCallers
  <1>5. CallTakesNoTime'
    BY DEF At, LocksOK, CallTakesNoTime
  <1>6. OthersHeld'
    BY DEF At, LocksOK, PauseOK, OthersHeld
  <1> QED BY <1>1, <1>2, <1>3, <1>4, <1>5, <1>6 DEF IInv

\* Emudisk.lock: whoever waits has the interrupts its caller leaves it.
LEMMA WantInv ==
  ASSUME TypeOK, IInv, NEW c \in CPUs, Want(c)
  PROVE  IInv'
PROOF
  <1> USE CPUsAssumption
      DEF Want, Go, SetIrqs, TypeOK, IInv, PCs, Pausing, timerVars, pauseVars, irqVars
  <1>1. LocksOK'
    BY DEF At, LocksOK, IrqsOK
  <1>2. IrqsOK'
    BY DEF At, LocksOK, IrqsOK, FlagsAreTheCallers
  <1>3. PauseOK'
    BY DEF At, LocksOK, PauseOK
  <1>4. FlagsAreTheCallers'
    BY DEF IrqsOK, FlagsAreTheCallers
  <1>5. CallTakesNoTime'
    BY DEF At, LocksOK, CallTakesNoTime
  <1>6. OthersHeld'
    BY DEF At, LocksOK, PauseOK, OthersHeld
  <1> QED BY <1>1, <1>2, <1>3, <1>4, <1>5, <1>6 DEF IInv

LEMMA AcquireInv ==
  ASSUME TypeOK, IInv, NEW c \in CPUs, Acquire(c)
  PROVE  IInv'
PROOF
  <1> USE CPUsAssumption
      DEF Acquire, Go, SetIrqs, TypeOK, IInv, PCs, Pausing, timerVars, pauseVars, irqVars
  <1>1. LocksOK'
    BY DEF At, LocksOK, IrqsOK
  <1>2. IrqsOK'
    BY DEF At, LocksOK, IrqsOK, FlagsAreTheCallers
  <1>3. PauseOK'
    BY DEF At, LocksOK, PauseOK
  <1>4. FlagsAreTheCallers'
    BY DEF IrqsOK, FlagsAreTheCallers
  <1>5. CallTakesNoTime'
    BY DEF At, LocksOK, CallTakesNoTime
  <1>6. OthersHeld'
    BY DEF At, LocksOK, PauseOK, OthersHeld
  <1> QED BY <1>1, <1>2, <1>3, <1>4, <1>5, <1>6 DEF IInv

LEMMA ReleaseInv ==
  ASSUME TypeOK, IInv, NEW c \in CPUs, Release(c)
  PROVE  IInv'
PROOF
  <1> USE CPUsAssumption
      DEF Release, Go, SetIrqs, TypeOK, IInv, PCs, Pausing, timerVars, pauseVars, irqVars
  <1>1. LocksOK'
    BY DEF At, LocksOK, IrqsOK
  <1>2. IrqsOK'
    BY DEF At, LocksOK, IrqsOK, FlagsAreTheCallers
  <1>3. PauseOK'
    BY DEF At, LocksOK, PauseOK
  <1>4. FlagsAreTheCallers'
    BY DEF IrqsOK, FlagsAreTheCallers
  <1>5. CallTakesNoTime'
    BY DEF At, LocksOK, CallTakesNoTime
  <1>6. OthersHeld'
    BY DEF At, LocksOK, PauseOK, OthersHeld
  <1> QED BY <1>1, <1>2, <1>3, <1>4, <1>5, <1>6 DEF IInv

\* pause_OS: the holder of Emudisk.lock is the only one to pause.
LEMMA PauseBeginInv ==
  ASSUME TypeOK, IInv, NEW c \in CPUs, PauseBegin(c)
  PROVE  IInv'
PROOF
  <1> USE CPUsAssumption
      DEF PauseBegin, SaveFlags, Go, SetIrqs, TypeOK, IInv, PCs, Pausing, timerVars, pauseVars, irqVars
  <1>1. LocksOK'
    BY DEF At, LocksOK, IrqsOK
  <1>2. IrqsOK'
    BY DEF At, LocksOK, IrqsOK, FlagsAreTheCallers
  <1>3. PauseOK'
    BY DEF At, LocksOK, PauseOK
  <1>4. FlagsAreTheCallers'
    BY DEF IrqsOK, FlagsAreTheCallers
  <1>5. CallTakesNoTime'
    BY DEF At, LocksOK, CallTakesNoTime
  <1>6. OthersHeld'
    BY DEF At, LocksOK, PauseOK, OthersHeld
  <1> QED BY <1>1, <1>2, <1>3, <1>4, <1>5, <1>6 DEF IInv

\* Nobody sets the timer any more: whoever did would hold nctuss_gt_spinlock.
LEMMA StopTimerInv ==
  ASSUME TypeOK, IInv, NEW c \in CPUs, StopTimer(c)
  PROVE  IInv'
PROOF
  <1> USE CPUsAssumption
      DEF StopTimer, Go, SetIrqs, TypeOK, IInv, PCs, Pausing, timerVars, pauseVars, irqVars
  <1>1. LocksOK'
    BY DEF At, LocksOK, IrqsOK
  <1>2. IrqsOK'
    BY DEF At, LocksOK, IrqsOK, FlagsAreTheCallers
  <1>3. PauseOK'
    BY DEF At, LocksOK, PauseOK
  <1>4. FlagsAreTheCallers'
    BY DEF IrqsOK, FlagsAreTheCallers
  <1>5. CallTakesNoTime'
    BY DEF At, LocksOK, CallTakesNoTime
  <1>6. OthersHeld'
    BY DEF At, LocksOK, PauseOK, OthersHeld
  <1> QED BY <1>1, <1>2, <1>3, <1>4, <1>5, <1>6 DEF IInv

\* From here on every other CPU has the interrupt pending or is in its handler.
LEMMA InterruptInv ==
  ASSUME TypeOK, IInv, NEW c \in CPUs, Interrupt(c)
  PROVE  IInv'
PROOF
  <1> USE CPUsAssumption
      DEF Interrupt, Go, SetIrqs, TypeOK, IInv, PCs, Pausing, timerVars, pauseVars, irqVars
  <1>1. LocksOK'
    BY DEF At, LocksOK, IrqsOK
  <1>2. IrqsOK'
    BY DEF At, LocksOK, IrqsOK, FlagsAreTheCallers
  <1>3. PauseOK'
    BY DEF At, LocksOK, PauseOK
  <1>4. FlagsAreTheCallers'
    BY DEF IrqsOK, FlagsAreTheCallers
  <1>5. CallTakesNoTime'
    BY DEF At, LocksOK, CallTakesNoTime
  <1>6. OthersHeld'
    BY DEF At, LocksOK, PauseOK, OthersHeld
  <1> QED BY <1>1, <1>2, <1>3, <1>4, <1>5, <1>6 DEF IInv

\* resume_OS.
LEMMA ClearPausedInv ==
  ASSUME TypeOK, IInv, NEW c \in CPUs, ClearPaused(c)
  PROVE  IInv'
PROOF
  <1> USE CPUsAssumption
      DEF ClearPaused, Go, SetIrqs, TypeOK, IInv, PCs, Pausing, timerVars, pauseVars, irqVars
  <1>1. LocksOK'
    BY DEF At, LocksOK, IrqsOK
  <1>2. IrqsOK'
    BY DEF At, LocksOK, IrqsOK, FlagsAreTheCallers
  <1>3. PauseOK'
    BY DEF At, LocksOK, PauseOK
  <1>4. FlagsAreTheCallers'
    BY DEF IrqsOK, FlagsAreTheCallers
  <1>5. CallTakesNoTime'
    BY DEF At, LocksOK, CallTakesNoTime
  <1>6. OthersHeld'
    BY DEF At, LocksOK, PauseOK, OthersHeld
  <1> QED BY <1>1, <1>2, <1>3, <1>4, <1>5, <1>6 DEF IInv

LEMMA ResumeTimerInv ==
  ASSUME TypeOK, IInv, NEW c \in CPUs, ResumeTimer(c)
  PROVE  IInv'
PROOF
  <1> USE CPUsAssumption
      DEF ResumeTimer, Go, SetIrqs, TypeOK, IInv, PCs, Pausing, timerVars, pauseVars, irqVars
  <1>1. LocksOK'
    BY DEF At, LocksOK, IrqsOK
  <1>2. IrqsOK'
    BY DEF At, LocksOK, IrqsOK, FlagsAreTheCallers
  <1>3. PauseOK'
    BY DEF At, LocksOK, PauseOK
  <1>4. FlagsAreTheCallers'
    BY DEF IrqsOK, FlagsAreTheCallers
  <1>5. CallTakesNoTime'
    BY DEF At, LocksOK, CallTakesNoTime
  <1>6. OthersHeld'
    BY DEF At, LocksOK, PauseOK, OthersHeld
  <1> QED BY <1>1, <1>2, <1>3, <1>4, <1>5, <1>6 DEF IInv

LEMMA RestoreFlagsInv ==
  ASSUME TypeOK, IInv, NEW c \in CPUs, RestoreFlags(c)
  PROVE  IInv'
PROOF
  <1> USE CPUsAssumption
      DEF RestoreFlags, Go, SetIrqs, TypeOK, IInv, PCs, Pausing, timerVars, pauseVars, irqVars
  <1>1. LocksOK'
    BY DEF At, LocksOK, IrqsOK
  <1>2. IrqsOK'
    BY DEF At, LocksOK, IrqsOK, FlagsAreTheCallers
  <1>3. PauseOK'
    BY DEF At, LocksOK, PauseOK
  <1>4. FlagsAreTheCallers'
    BY DEF IrqsOK, FlagsAreTheCallers
  <1>5. CallTakesNoTime'
    BY DEF At, LocksOK, CallTakesNoTime
  <1>6. OthersHeld'
    BY DEF At, LocksOK, PauseOK, OthersHeld
  <1> QED BY <1>1, <1>2, <1>3, <1>4, <1>5, <1>6 DEF IInv

\* ipi_function: it is entered where interrupts are on, hence by no lock holder
\* but the task, and left by nobody while the flag is set.
LEMMA EnterIpiInv ==
  ASSUME TypeOK, IInv, NEW c \in CPUs, EnterIpi(c)
  PROVE  IInv'
PROOF
  <1> USE CPUsAssumption
      DEF EnterIpi, Go, SetIrqs, TypeOK, IInv, PCs, Pausing, timerVars, pauseVars, irqVars
  <1>1. LocksOK'
    BY DEF At, LocksOK, IrqsOK
  <1>2. IrqsOK'
    BY DEF At, LocksOK, IrqsOK, FlagsAreTheCallers
  <1>3. PauseOK'
    BY DEF At, LocksOK, PauseOK
  <1>4. FlagsAreTheCallers'
    BY DEF IrqsOK, FlagsAreTheCallers
  <1>5. CallTakesNoTime'
    BY DEF At, LocksOK, CallTakesNoTime
  <1>6. OthersHeld'
    BY DEF At, LocksOK, PauseOK, OthersHeld
  <1> QED BY <1>1, <1>2, <1>3, <1>4, <1>5, <1>6 DEF IInv

LEMMA LeaveIpiInv ==
  ASSUME TypeOK, IInv, NEW c \in CPUs, LeaveIpi(c)
  PROVE  IInv'
PROOF
  <1> USE CPUsAssumption
      DEF LeaveIpi, Go, SetIrqs, TypeOK, IInv, PCs, Pausing, timerVars, pauseVars, irqVars
  <1>1. LocksOK'
    BY DEF At, LocksOK, IrqsOK
  <1>2. IrqsOK'
    BY DEF At, LocksOK, IrqsOK, FlagsAreTheCallers
  <1>3. PauseOK'
    BY DEF At, LocksOK, PauseOK
  <1>4. FlagsAreTheCallers'
    BY DEF IrqsOK, FlagsAreTheCallers
  <1>5. CallTakesNoTime'
    BY DEF At, LocksOK, CallTakesNoTime
  <1>6. OthersHeld'
    BY DEF At, LocksOK, PauseOK, OthersHeld
  <1> QED BY <1>1, <1>2, <1>3, <1>4, <1>5, <1>6 DEF IInv

-----------------------------------------------------------------------------
LEMMA NextInv ==
  ASSUME TypeOK, IInv, [Next]_vars
  PROVE  IInv'
PROOF
  <1>1. CASE UNCHANGED vars
    BY <1>1 DEF vars, timerVars, pauseVars, irqVars, IInv, At, LocksOK, IrqsOK, PauseOK,
                FlagsAreTheCallers, CallTakesNoTime, OthersHeld
  <1>2. ASSUME NEW c \in CPUs, Kernel(c) \/ Driver(c) PROVE IInv'
    BY <1>2, IrqDisableInv, IrqEnableInv, TimerLockInv, TimerUnlockInv,
       WantInv, AcquireInv, ReleaseInv DEF Kernel, Driver
  <1>3. ASSUME NEW c \in CPUs, Pause(c) \/ Resume(c) \/ Ipi(c) PROVE IInv'
    BY <1>3, PauseBeginInv, StopTimerInv, InterruptInv, ClearPausedInv, ResumeTimerInv,
       RestoreFlagsInv, EnterIpiInv, LeaveIpiInv DEF Pause, Resume, Ipi
  <1> QED BY <1>1, <1>2, <1>3, TickInv DEF Next

\* The invariant of the locks, the interrupt states, the flag and the timer.
THEOREM Invariant == Spec => []IInv
PROOF BY TypeCorrect, InitInv, NextInv, PTL DEF Spec

\* While a CPU talks to the emulator, every other one is in ipi_function or has
\* the interrupt pending.
THEOREM HoldsOthers == Spec => []OthersHeld
PROOF
  <1>1. IInv => OthersHeld
    BY DEF IInv
  <1> QED BY <1>1, Invariant, PTL

\* A CPU in ipi_function holds no lock that the pausing CPU waits for.
THEOREM ParkedHasNoLock == Spec => []ParkedHoldsNothing
PROOF
  <1>1. TypeOK /\ IInv => ParkedHoldsNothing
    BY DEF TypeOK, IInv, At, LocksOK, IrqsOK, PauseOK, Pausing, ParkedHoldsNothing
  <1> QED BY <1>1, TypeCorrect, Invariant, PTL

\* Every CPU gets back the interrupt state of its own caller.
THEOREM RestoresCallersFlags == Spec => []FlagsAreTheCallers
PROOF
  <1>1. IInv => FlagsAreTheCallers
    BY DEF IInv
  <1> QED BY <1>1, Invariant, PTL

\* The call to the emulator takes no time.
THEOREM NoTimePasses == Spec => []CallTakesNoTime
PROOF
  <1>1. IInv => CallTakesNoTime
    BY DEF IInv
  <1> QED BY <1>1, Invariant, PTL

\* Pauses exclude one another, and the flag is set exactly during one.
THEOREM PausesExclusive == Spec => []OnePause
PROOF
  <1>1. ASSUME IInv PROVE OnePause
    <2>1. \A c \in CPUs : pc[c] \in Pausing => lock = c
      BY <1>1 DEF IInv, At, LocksOK, Pausing
    <2>2. nctuss_OS_paused = 1 <=> \E c \in CPUs : pc[c] \in {"flagged", "stopped", "call"}
      BY <1>1 DEF IInv, PauseOK
    <2> QED BY <2>1, <2>2 DEF OnePause
  <1> QED BY <1>1, Invariant, PTL

-----------------------------------------------------------------------------
(* Waiting.                                                                *)

\* Who is waited for holds a lock or has set the flag.
LEMMA AwaitedIs ==
  ASSUME TypeOK, IInv, NEW c \in CPUs, NEW d \in CPUs, WaitsFor(c, d)
  PROVE  pc[d] = "timer" \/ At(d) \in Pausing \cup {"held"}
PROOF
  <1>1. lock = d \/ gt_lock = d \/ pc[d] \in Pausing
    BY DEF WaitsFor, Pausing
  <1>2. gt_lock = d => pc[d] \in {"timer"} \cup Pausing
    BY DEF IInv, LocksOK, Pausing
  <1>3. pc[d] \in Pausing => At(d) \in Pausing
    BY DEF At, Pausing
  <1> QED BY <1>1, <1>2, <1>3 DEF IInv, LocksOK

\* Who sets the timer waits for nobody.
LEMMA SetterGoesOn ==
  ASSUME TypeOK, IInv, NEW e \in CPUs, pc[e] = "timer", NEW f \in CPUs
  PROVE  ~WaitsFor(e, f)
PROOF
  <1>1. ~parked[e]
    BY DEF IInv, IrqsOK
  <1> QED BY <1>1 DEF WaitsFor

\* The holder of Emudisk.lock, pausing, interrupted or neither, waits at most for
\* who sets the timer: a second CPU that pauses would hold the lock too.
LEMMA HolderWaitsForSetter ==
  ASSUME TypeOK, IInv, NEW d \in CPUs, At(d) \in Pausing \cup {"held"},
         NEW e \in CPUs, WaitsFor(d, e)
  PROVE  pc[e] = "timer"
PROOF
  <1>1. lock = d
    BY DEF IInv, LocksOK
  <1>2. pc[e] \in Pausing => d = e
    BY <1>1 DEF IInv, At, LocksOK, Pausing
  <1>3. pc[d] # "wait"
    BY DEF At, Pausing
  <1>4. parked[d] => pc[d] \notin Pausing
    BY DEF IInv, IrqsOK, Pausing
  <1>5. CASE pc[d] \in {"flagged", "irqsoff"} /\ gt_lock = e
    <2>1. pc[e] \in {"timer", "stopped", "call", "released"}
      BY <1>5 DEF IInv, LocksOK
    <2> QED BY <1>2, <1>5, <2>1 DEF Pausing
  <1>6. CASE parked[d] /\ pc[e] \in {"flagged", "stopped", "call"}
    BY <1>2, <1>4, <1>6 DEF Pausing
  <1> QED BY <1>3, <1>5, <1>6 DEF WaitsFor

\* The flag and the two spinlocks never close a circle, for any number of CPUs:
\* who is waited for sets the timer, and waits for nobody, or holds Emudisk.lock,
\* and waits for nobody but who sets the timer.
THEOREM WaitingEnds == Spec => []NoCircularWait
PROOF
  <1>1. ASSUME TypeOK, IInv PROVE NoCircularWait
    <2> SUFFICES ASSUME NEW c \in CPUs, NEW d \in CPUs, NEW e \in CPUs,
                        WaitsFor(c, d), WaitsFor(d, e)
                 PROVE  pc[e] = "timer" /\ \A f \in CPUs : ~WaitsFor(e, f)
      BY DEF NoCircularWait
    <2>1. pc[d] # "timer"
      BY <1>1, SetterGoesOn
    <2>2. At(d) \in Pausing \cup {"held"}
      BY <1>1, <2>1, AwaitedIs
    <2>3. pc[e] = "timer"
      BY <1>1, <2>2, HolderWaitsForSetter
    <2> QED BY <1>1, <2>3, SetterGoesOn
  <1> QED BY <1>1, TypeCorrect, Invariant, PTL
==============================================================================
