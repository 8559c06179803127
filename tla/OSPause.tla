------------------------------- MODULE OSPause -------------------------------
(***************************************************************************)
(* How emulator_kernel/nctuss_emudisk_main.c stops the world around a call *)
(* to the emulator: pause_OS sets a flag, stops the global timer and sends *)
(* the other CPUs an interrupt whose handler, ipi_function, spins until    *)
(* resume_OS clears the flag.  Build without USE_FIQ.                      *)
(*                                                                         *)
(* The interrupt is sent and not waited for (the traces beside the code    *)
(* show nctuss_smp_invoke_function to be one gic_raise_softirq): a CPU     *)
(* with its interrupts off goes on and takes it later, perhaps after the   *)
(* pause is over, perhaps in the next pause.  One action is what a CPU     *)
(* does between two moments at which another CPU could notice.             *)
(***************************************************************************)
EXTENDS Integers, FiniteSets

CONSTANTS CPUs,
          CounterSpace,  \* the timer's counter is taken modulo CounterSpace
          MaxBegun       \* bound: acquisitions of the two locks and pauses

NoCPU == "no CPU"

ASSUME CPUsAssumption    == NoCPU \notin CPUs
ASSUME CounterAssumption == CounterSpace \in Nat \ {0}
ASSUME BoundAssumption   == MaxBegun \in Nat

VARIABLES
  pc,        \* what each CPU is doing when it is not in ipi_function
  below,     \* what an interrupt has found it doing
  caller,    \* on whose behalf it wants Emudisk.lock
  irqs,      \* its interrupts are enabled
  ipi,       \* the interrupt is pending at it
  parked,    \* it is in ipi_function
  lock,      \* the CPU that holds Emudisk.lock
  gt_lock,   \* the CPU that holds nctuss_gt_spinlock
  gt,        \* the counter of the global timer
  gt_running,  \* the enable bit of its control register
  gt_read,   \* that bit as gt_compare_set on each CPU has read it
  nctuss_OS_paused,
  nctuss_OS_paused_counter_count,
  my_flags,  \* interrupt state saved by local_irq_save: one for all CPUs
  begun

timerVars == <<gt, gt_running, gt_read>>
pauseVars == <<nctuss_OS_paused, nctuss_OS_paused_counter_count, my_flags>>
irqVars   == <<irqs, ipi, parked>>

vars == <<pc, below, caller, irqVars, lock, gt_lock, timerVars, pauseVars, begun>>

\* pc inside pause_OS ... resume_OS, in this order.
Pausing == {"flagged",    \* nctuss_OS_paused is set
            "stopped",    \* the timer is stopped
            "call",       \* the interrupt is sent: talking to the emulator
            "released",   \* resume_OS has cleared nctuss_OS_paused
            "resumed"}    \* the timer runs again

PCs == Pausing \cup
       {"run",            \* ordinary code
        "irqsoff",        \* other code with interrupts off, handlers included
        "timer",          \* gt_compare_set: holds nctuss_gt_spinlock
        "wait",           \* spins for Emudisk.lock
        "held"}           \* holds Emudisk.lock

TypeOK ==
  /\ pc \in [CPUs -> PCs]
  /\ below \in [CPUs -> {"run", "wait", "held"}]
  /\ caller \in [CPUs -> {"strategy", "task"}]
  /\ irqs \in [CPUs -> BOOLEAN]
  /\ ipi \in [CPUs -> BOOLEAN]
  /\ parked \in [CPUs -> BOOLEAN]
  /\ lock \in CPUs \cup {NoCPU}
  /\ gt_lock \in CPUs \cup {NoCPU}
  /\ gt \in 0 .. CounterSpace - 1
  /\ gt_running \in BOOLEAN
  /\ gt_read \in [CPUs -> BOOLEAN]
  /\ nctuss_OS_paused \in {0, 1}
  /\ nctuss_OS_paused_counter_count \in 0 .. CounterSpace - 1
  /\ my_flags \in BOOLEAN
  /\ begun \in Nat

Init ==
  /\ pc = [c \in CPUs |-> "run"]
  /\ below = [c \in CPUs |-> "run"]
  /\ caller = [c \in CPUs |-> "task"]
  /\ irqs = [c \in CPUs |-> TRUE]
  /\ ipi = [c \in CPUs |-> FALSE]
  /\ parked = [c \in CPUs |-> FALSE]
  /\ lock = NoCPU
  /\ gt_lock = NoCPU
  /\ gt = 0
  /\ gt_running = TRUE
  /\ gt_read = [c \in CPUs |-> TRUE]
  /\ nctuss_OS_paused = 0
  /\ nctuss_OS_paused_counter_count = 0
  /\ my_flags = FALSE
  /\ begun = 0

\* A CPU goes from one pc to the next, unless it is in ipi_function.
Go(c, from, to) ==
  /\ pc[c] = from
  /\ ~parked[c]
  /\ pc' = [pc EXCEPT ![c] = to]

SetIrqs(c, enabled) == irqs' = [irqs EXCEPT ![c] = enabled]

-----------------------------------------------------------------------------
(* The rest of the kernel.  gt_compare_set sets the timer with interrupts   *)
(* off and nctuss_gt_spinlock held (the traces show it take a lock, and     *)
(* ktime_get none): it reads the timer's control register, changes other   *)
(* bits of it and writes it back, so that a timer stopped meanwhile would  *)
(* run again.                                                              *)
Tick ==
  /\ gt_running
  /\ gt' = (gt + 1) % CounterSpace
  /\ UNCHANGED <<pc, below, caller, irqVars, lock, gt_lock, gt_running, gt_read, pauseVars,
                 begun>>

\* An interrupt, or code that turns interrupts off; also while the task spins for
\* Emudisk.lock or holds it.
IrqDisable(c) ==
  /\ begun < MaxBegun
  /\ begun' = begun + 1
  /\ irqs[c]
  /\ pc[c] \in {"run", "wait", "held"}
  /\ Go(c, pc[c], "irqsoff")
  /\ below' = [below EXCEPT ![c] = pc[c]]
  /\ SetIrqs(c, FALSE)
  /\ UNCHANGED <<caller, ipi, parked, lock, gt_lock, timerVars, pauseVars>>

IrqEnable(c) ==
  /\ Go(c, "irqsoff", below[c])
  /\ SetIrqs(c, TRUE)
  /\ UNCHANGED <<below, caller, ipi, parked, lock, gt_lock, timerVars, pauseVars, begun>>

TimerLock(c) ==
  /\ begun < MaxBegun
  /\ begun' = begun + 1
  /\ Go(c, "irqsoff", "timer")
  /\ gt_lock = NoCPU
  /\ gt_lock' = c
  /\ gt_read' = [gt_read EXCEPT ![c] = gt_running]
  /\ UNCHANGED <<below, caller, irqVars, lock, gt, gt_running, pauseVars>>

TimerUnlock(c) ==
  /\ Go(c, "timer", "irqsoff")
  /\ gt_lock' = NoCPU
  /\ gt_running' = gt_read[c]
  /\ UNCHANGED <<below, caller, irqVars, lock, gt, gt_read, pauseVars, begun>>

-----------------------------------------------------------------------------
(* Emudisk.lock.  The strategy is entered with interrupts off; the task    *)
(* takes the lock with spin_lock_bh, which leaves them on.                 *)
Want(c) ==
  /\ begun < MaxBegun
  /\ begun' = begun + 1
  /\ Go(c, "run", "wait")
  /\ \E who \in {"strategy", "task"} : /\ caller' = [caller EXCEPT ![c] = who]
                                       /\ SetIrqs(c, who = "task")
  /\ UNCHANGED <<below, ipi, parked, lock, gt_lock, timerVars, pauseVars>>

Acquire(c) ==
  /\ Go(c, "wait", "held")
  /\ lock = NoCPU
  /\ lock' = c
  /\ UNCHANGED <<below, caller, irqVars, gt_lock, timerVars, pauseVars, begun>>

Release(c) ==
  /\ Go(c, "held", "run")
  /\ lock' = NoCPU
  /\ SetIrqs(c, TRUE)
  /\ UNCHANGED <<below, caller, ipi, parked, gt_lock, timerVars, pauseVars, begun>>

-----------------------------------------------------------------------------
(* pause_OS.                                                               *)

\* Mutant: the interrupt state is not saved.
SaveFlagsNot(c) == SetIrqs(c, FALSE) /\ UNCHANGED my_flags

\* Mutant: interrupts stay on.
SaveFlagsOnly(c) == my_flags' = irqs[c] /\ UNCHANGED irqs

SaveFlags(c) == SetIrqs(c, FALSE) /\ my_flags' = irqs[c]   \* local_irq_save

PauseBegin(c) ==
  /\ begun < MaxBegun
  /\ begun' = begun + 1
  /\ Go(c, "held", "flagged")
  /\ SaveFlags(c)
  /\ nctuss_OS_paused' = 1
  /\ UNCHANGED <<below, caller, ipi, parked, lock, gt_lock, timerVars,
                 nctuss_OS_paused_counter_count>>

\* Mutant: spin_lock is forgotten.
StopTimerUnlocked(c) ==
  /\ Go(c, "flagged", "stopped")
  /\ gt_running' = FALSE
  /\ UNCHANGED <<below, caller, irqVars, lock, gt_lock, gt, gt_read, pauseVars, begun>>

StopTimer(c) ==
  /\ Go(c, "flagged", "stopped")
  /\ gt_lock = NoCPU
  /\ gt_lock' = c
  /\ gt_running' = FALSE
  /\ UNCHANGED <<below, caller, irqVars, lock, gt, gt_read, pauseVars, begun>>

\* Mutant: the counter is the one of the next tick.
InterruptNextTick(c) ==
  /\ Go(c, "stopped", "call")
  /\ ipi' = [d \in CPUs |-> ipi[d] \/ d # c]
  /\ nctuss_OS_paused_counter_count' = gt + 1
  /\ UNCHANGED <<below, caller, irqs, parked, lock, gt_lock, timerVars, nctuss_OS_paused,
                 my_flags, begun>>

Interrupt(c) ==
  /\ Go(c, "stopped", "call")
  /\ ipi' = [d \in CPUs |-> ipi[d] \/ d # c]
  /\ nctuss_OS_paused_counter_count' = gt
  /\ UNCHANGED <<below, caller, irqs, parked, lock, gt_lock, timerVars, nctuss_OS_paused,
                 my_flags, begun>>

(* resume_OS, entered when the emulator has answered.                      *)
ClearPaused(c) ==
  /\ Go(c, "call", "released")
  /\ nctuss_OS_paused' = 0
  /\ UNCHANGED <<below, caller, irqVars, lock, gt_lock, timerVars,
                 nctuss_OS_paused_counter_count, my_flags, begun>>

\* Mutant: spin_unlock is forgotten.
ResumeTimerOnly(c) ==
  /\ Go(c, "released", "resumed")
  /\ gt_running' = TRUE
  /\ UNCHANGED <<below, caller, irqVars, lock, gt_lock, gt, gt_read, pauseVars, begun>>

ResumeTimer(c) ==
  /\ Go(c, "released", "resumed")
  /\ gt_running' = TRUE
  /\ gt_lock' = NoCPU
  /\ UNCHANGED <<below, caller, irqVars, lock, gt, gt_read, pauseVars, begun>>

RestoreFlags(c) ==    \* local_irq_restore
  /\ Go(c, "resumed", "held")
  /\ SetIrqs(c, my_flags)
  /\ UNCHANGED <<below, caller, ipi, parked, lock, gt_lock, timerVars, pauseVars, begun>>

-----------------------------------------------------------------------------
(* ipi_function on another CPU.                                            *)
EnterIpi(d) ==
  /\ ipi[d]
  /\ irqs[d]
  /\ ipi' = [ipi EXCEPT ![d] = FALSE]
  /\ parked' = [parked EXCEPT ![d] = TRUE]
  /\ SetIrqs(d, FALSE)
  /\ UNCHANGED <<pc, below, caller, lock, gt_lock, timerVars, pauseVars, begun>>

\* Mutant: the flag is not waited for.
LeaveIpiAtOnce(d) ==
  /\ parked[d]
  /\ parked' = [parked EXCEPT ![d] = FALSE]
  /\ SetIrqs(d, TRUE)
  /\ UNCHANGED <<pc, below, caller, ipi, lock, gt_lock, timerVars, pauseVars, begun>>

LeaveIpi(d) ==
  /\ parked[d]
  /\ nctuss_OS_paused = 0
  /\ parked' = [parked EXCEPT ![d] = FALSE]
  /\ SetIrqs(d, TRUE)
  /\ UNCHANGED <<pc, below, caller, ipi, lock, gt_lock, timerVars, pauseVars, begun>>

-----------------------------------------------------------------------------
Kernel(c) == IrqDisable(c) \/ IrqEnable(c) \/ TimerLock(c) \/ TimerUnlock(c)
Driver(c) == Want(c) \/ Acquire(c) \/ Release(c)
Pause(c)  == PauseBegin(c) \/ StopTimer(c) \/ Interrupt(c)
Resume(c) == ClearPaused(c) \/ ResumeTimer(c) \/ RestoreFlags(c)
Ipi(c)    == EnterIpi(c) \/ LeaveIpi(c)

Next == \/ Tick
        \/ \E c \in CPUs : Kernel(c) \/ Driver(c) \/ Pause(c) \/ Resume(c) \/ Ipi(c)

Spec == Init /\ [][Next]_vars

-----------------------------------------------------------------------------
(* Properties.                                                             *)

\* While a CPU talks to the emulator, every other CPU spins in ipi_function or
\* is about to, as soon as it enables its interrupts: also one that is still on
\* its way out of the previous pause, and one that took the interrupt of the
\* previous pause too late.
OthersHeld ==
  \A c, d \in CPUs : pc[c] = "call" /\ d # c => parked[d] \/ ipi[d]

\* A CPU that spins in ipi_function while the flag is set holds neither of the
\* locks that the pausing CPU, or the next one, waits for.
ParkedHoldsNothing ==
  \A d \in CPUs : parked[d] => /\ gt_lock # d
                               /\ lock = d => nctuss_OS_paused = 0

\* my_flags is one variable for all CPUs; still every CPU gets back the
\* interrupt state it had: off for the strategy, on for the task.
FlagsAreTheCallers ==
  \A c \in CPUs : pc[c] \in {"wait", "held"} /\ ~parked[c] =>
                    (irqs[c] <=> caller[c] = "task")

\* The counter that resume_OS reads is the one pause_OS has read (860): the
\* call to the emulator takes no time, although other CPUs set the timer until
\* they are held.
CallTakesNoTime ==
  \A c \in CPUs : pc[c] = "call" => gt = nctuss_OS_paused_counter_count

\* Pauses are exclusive, and the flag is set exactly during one.
OnePause ==
  /\ \A c, d \in CPUs : pc[c] \in Pausing /\ pc[d] \in Pausing => c = d
  /\ nctuss_OS_paused = 1 <=> \E c \in CPUs : pc[c] \in {"flagged", "stopped", "call"}

\* Whom CPU c spins for, or may spin for: the holder of one of the two spinlocks
\* or, in ipi_function, the CPU that has set the flag.
WaitsFor(c, d) ==
  \/ pc[c] = "wait" /\ ~parked[c] /\ lock = d
  \/ pc[c] \in {"flagged", "irqsoff"} /\ gt_lock = d
  \/ parked[c] /\ nctuss_OS_paused = 1 /\ pc[d] \in {"flagged", "stopped", "call"}

\* The flag and the two spinlocks never close a circle, although the CPU that
\* spins for one may be interrupted by code that takes the other: who waits waits
\* for a CPU that goes on by itself or that waits only for one that sets the timer,
\* and a CPU that sets the timer waits for nobody.
NoCircularWait ==
  \A c, d, e \in CPUs : WaitsFor(c, d) /\ WaitsFor(d, e) =>
                           pc[e] = "timer" /\ \A f \in CPUs : ~WaitsFor(e, f)
==============================================================================
