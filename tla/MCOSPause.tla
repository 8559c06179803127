------------------------------ MODULE MCOSPause ------------------------------
(* Instances of OSPause for TLC; every bound is a constant of OSPause.     *)
EXTENDS OSPause
==============================================================================
