--------------------------- MODULE MCEmulatorCall ---------------------------
(* Instances of EmulatorCall for TLC; every bound is a constant.           *)
EXTENDS EmulatorCall
==============================================================================
