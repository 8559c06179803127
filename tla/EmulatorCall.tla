---------------------------- MODULE EmulatorCall ----------------------------
(***************************************************************************)
(* The pause and the link together: how nctuss_emudisk_main.c calls the    *)
(* emulator.  A CPU that holds Emudisk.lock pauses the others (OSPause),   *)
(* makes one call or several, one after the other (EmuLink), and resumes.  *)
(* The network and the server go on whatever the board does.  The reset is *)
(* called by emudisk_init outside any pause, before add_disk: until it has *)
(* returned nobody uses the disk.                                          *)
(***************************************************************************)
EXTENDS Integers, Sequences

CONSTANTS CPUs, CounterSpace, MaxBegun,
          FirstId, IdSpace, Reorder, MaxCalls, MaxSessions, MaxLosses, MaxEarly

VARIABLES
  \* OSPause.
  pc, below, caller, irqs, ipi, parked, lock, gt_lock, gt, gt_running,
  gt_read, nctuss_OS_paused, nctuss_OS_paused_counter_count, my_flags, begun,
  \* EmuLink.
  calling, current_waiting_reply_id, skb_replied, skb, udp_send_reply_id, got,
  leaked, session, requests, replies, losses, early, resends,
  current_max_request_id, reply, log, hung

Pause == INSTANCE OSPause
Link  == INSTANCE EmuLink

pauseVars == <<pc, below, caller, irqs, ipi, parked, lock, gt_lock, gt, gt_running,
               gt_read, nctuss_OS_paused, nctuss_OS_paused_counter_count, my_flags, begun>>
linkVars  == <<calling, current_waiting_reply_id, skb_replied, skb, udp_send_reply_id,
               got, leaked, session, requests, replies, losses, early, resends,
               current_max_request_id, reply, log, hung>>

vars == <<pauseVars, linkVars>>

ASSUME PauseAssumption == /\ Pause!NoCPU \notin CPUs
                          /\ CounterSpace \in Nat \ {0} /\ MaxBegun \in Nat
ASSUME LinkAssumption ==
  /\ FirstId \in Nat \ {0} /\ IdSpace \in Nat /\ FirstId + 1 < IdSpace
  /\ Reorder \in BOOLEAN
  /\ {MaxCalls, MaxSessions, MaxLosses, MaxEarly} \subseteq Nat

Init == Pause!Init /\ Link!Init

-----------------------------------------------------------------------------
(* The module.                                                             *)

\* emulator_reset has been called and has returned.
Loaded == /\ udp_send_reply_id # FirstId
          /\ calling => current_waiting_reply_id # FirstId

\* CPU c is in the driver, or spins for its lock, perhaps interrupted.
InDriver(c) == \/ pc[c] \in {"wait", "held"} \cup Pause!Pausing
               \/ pc[c] \in {"irqsoff", "timer"} /\ below[c] # "run"

\* emudisk_init calls emulator_reset.
Reset == /\ udp_send_reply_id = FirstId
         /\ Link!Call
         /\ UNCHANGED pauseVars

\* The disk is there only once it has been added.
Want(c) == /\ Loaded
           /\ Pause!Want(c)
           /\ UNCHANGED linkVars

\* The queue has been cleaned up and the task has left before the module is
\* unloaded.
Reload == /\ \A c \in CPUs : ~InDriver(c)
          /\ Link!Reload
          /\ UNCHANGED pauseVars

-----------------------------------------------------------------------------
(* A pause.                                                                *)

\* Nobody pauses without a call to make (bound: MaxCalls).
PauseBegin(c) == /\ udp_send_reply_id - FirstId \in 0 .. MaxCalls - 1
                 /\ Pause!PauseBegin(c)
                 /\ UNCHANGED linkVars

\* pause_OS returns and the first call is made.
FirstCall(c) == Pause!Interrupt(c) /\ Link!Call

\* One pause brackets the submission of a request and the transfer of each of its
\* sectors.
NextCall(c) == /\ pc[c] = "call"
               /\ Link!Call
               /\ UNCHANGED pauseVars

\* Mutant: resume_OS is called when the request has been sent.
ResumeAtOnce(c) == Pause!ClearPaused(c) /\ UNCHANGED linkVars

\* resume_OS is called when the last call has returned.
ClearPaused(c) == /\ ~calling
                  /\ Pause!ClearPaused(c)
                  /\ UNCHANGED linkVars

-----------------------------------------------------------------------------
(* What either goes on with by itself.                                     *)
Kernel == /\ Pause!Tick \/ \E c \in CPUs : Pause!Kernel(c) \/ Pause!Ipi(c)
          /\ UNCHANGED linkVars

Driver(c) == /\ \/ Pause!Acquire(c) \/ Pause!Release(c) \/ Pause!StopTimer(c)
                \/ Pause!ResumeTimer(c) \/ Pause!RestoreFlags(c)
             /\ UNCHANGED linkVars

Answer == /\ Link!Poll \/ Link!Return
          /\ UNCHANGED pauseVars

Network == /\ Link!Serve \/ Link!Lose
           /\ UNCHANGED pauseVars

Next == \/ Reset \/ Reload \/ Kernel \/ Answer \/ Network
        \/ \E c \in CPUs : \/ Want(c) \/ PauseBegin(c) \/ FirstCall(c) \/ NextCall(c)
                           \/ ClearPaused(c) \/ Driver(c)

Spec == Init /\ [][Next]_vars

(* Polling loop and main loop go round.  Code with interrupts off and      *)
(* critical sections end; a spinning CPU gets what it spins for if it      *)
(* stays free; a pending interrupt is taken.  That the emulator answers is *)
(* not assumed.  Nobody has to take a lock, to set the timer, to pause or  *)
(* to call once more.                                                      *)
Fairness ==
  /\ WF_vars(Link!Poll /\ UNCHANGED pauseVars)
  /\ WF_vars(Link!Return /\ UNCHANGED pauseVars)
  /\ WF_vars(Link!Serve /\ UNCHANGED pauseVars)
  /\ \A c \in CPUs :
       /\ WF_vars((Pause!IrqEnable(c) \/ Pause!TimerUnlock(c)) /\ UNCHANGED linkVars)
       /\ WF_vars(Pause!Acquire(c) /\ UNCHANGED linkVars)
       /\ WF_vars(Pause!Release(c) /\ UNCHANGED linkVars)
       /\ WF_vars(Pause!Ipi(c) /\ UNCHANGED linkVars)
       /\ WF_vars(Pause!StopTimer(c) /\ UNCHANGED linkVars)
       /\ WF_vars(FirstCall(c))
       /\ WF_vars(\/ ClearPaused(c)
                  \/ (Pause!ResumeTimer(c) \/ Pause!RestoreFlags(c)) /\ UNCHANGED linkVars)

FairSpec == Spec /\ Fairness

-----------------------------------------------------------------------------
(* Properties.                                                             *)

\* What the disk driver assumes of its calls (each step of EmuDisk makes its calls
\* at once): all the calls of a pause happen at one reading of the clock and under
\* one hold of the lock, whatever the other CPUs, the network and the server do.
Talk == INSTANCE Conversation WITH
          Reset  <- FirstId,
          Ids    <- Link!Ids,
          NoCall <- Link!NoCall,
          Nobody <- Pause!NoCPU,
          call   <- IF calling THEN current_waiting_reply_id ELSE Link!NoCall,
          answer <- IF calling /\ reply.id = current_waiting_reply_id
                      THEN reply.result ELSE -1,
          time   <- gt,
          holder <- lock,
          open   <- \E c \in CPUs : pc[c] = "call"

IsConversation == Talk!TalkSpec

\* No CPU stays in the driver or in ipi_function for ever, and no call goes
\* unanswered, although packets are lost: pauses last as long as calls, and calls
\* end because server and driver do not wait for a CPU that is paused.
EveryoneGoesOn ==
  /\ calling ~> ~calling
  /\ \A c \in CPUs : /\ pc[c] # "run" ~> pc[c] = "run"
                     /\ parked[c] ~> ~parked[c]

-----------------------------------------------------------------------------
(* What ties the two together.                                             *)
CallsOK ==
  /\ (\E c \in CPUs : InDriver(c)) => Loaded
  /\ calling /\ current_waiting_reply_id # FirstId => \E c \in CPUs : pc[c] = "call"
=============================================================================
