--------------------------------- MODULE RPC ---------------------------------
(***************************************************************************)
(* What the driver needs of the emulator: one call at a time, each carried *)
(* out exactly once and answered with its own result.  The emulator is     *)
(* represented by the log of the calls carried out since the last reset;   *)
(* the result of a call is its position in the log, so that no two         *)
(* executions have the same result.                                        *)
(***************************************************************************)
EXTENDS Integers, Sequences

CONSTANTS Reset, Ids, NoCall

VARIABLES log,     \* calls carried out since the last reset, oldest first
          call,    \* the call being made: Reset, an id, or NoCall
          answer,  \* its result, -1 until it is carried out
          got      \* the result of the last call that returned

vars == <<log, call, answer, got>>

Init == log = <<>> /\ call = NoCall /\ answer = -1 /\ got = -1

Invoke(c) == /\ call = NoCall
             /\ call' = c
             /\ UNCHANGED <<log, answer, got>>

Execute == /\ call # NoCall
           /\ answer = -1
           /\ log' = IF call = Reset THEN <<>> ELSE Append(log, call)
           /\ answer' = Len(log')
           /\ UNCHANGED <<call, got>>

Return == /\ answer # -1
          /\ got' = answer
          /\ call' = NoCall
          /\ answer' = -1
          /\ UNCHANGED log

Next == (\E c \in Ids \cup {Reset} : Invoke(c)) \/ Execute \/ Return

Spec == Init /\ [][Next]_vars
==============================================================================
