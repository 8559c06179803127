---------------------------- MODULE Conversation ----------------------------
(***************************************************************************)
(* What the driver takes for granted when it talks to the emulator: the    *)
(* calls it makes in one pause are a conversation, held at one instant of  *)
(* the board's time by one holder of the driver's lock, and each of them   *)
(* is a remote procedure call.  Only the reset, made while the module is   *)
(* loaded and nobody can use the disk, takes time.                         *)
(***************************************************************************)
EXTENDS RPC

CONSTANTS CPUs, Nobody,
          CounterSpace   \* the clock counts modulo CounterSpace

VARIABLES time,    \* the board's clock
          holder,  \* the CPU that holds the driver's lock
          open     \* it is in a conversation

talkVars == <<vars, time, holder, open>>

TalkInit == Init /\ time = 0 /\ holder = Nobody /\ open = FALSE

Tick == /\ ~open
        /\ time' = (time + 1) % CounterSpace
        /\ UNCHANGED <<vars, holder, open>>

Lock == /\ holder = Nobody
        /\ call = NoCall
        /\ holder' \in CPUs
        /\ UNCHANGED <<vars, time, open>>

Unlock == /\ holder \in CPUs
          /\ ~open
          /\ holder' = Nobody
          /\ UNCHANGED <<vars, time, open>>

Load == /\ holder = Nobody
        /\ Invoke(Reset)
        /\ UNCHANGED <<time, holder, open>>

Say == /\ holder \in CPUs
       /\ \E c \in Ids \ {Reset} : Invoke(c)
       /\ open' = TRUE
       /\ UNCHANGED <<time, holder>>

Hear == /\ Execute \/ Return
        /\ UNCHANGED <<time, holder, open>>

Close == /\ open
         /\ call = NoCall
         /\ open' = FALSE
         /\ UNCHANGED <<vars, time, holder>>

TalkNext == Tick \/ Lock \/ Unlock \/ Load \/ Say \/ Hear \/ Close

TalkSpec == TalkInit /\ [][TalkNext]_talkVars
==============================================================================
