------------------------------ MODULE MCEmuLink ------------------------------
(* Instances of EmuLink for TLC; every bound is a constant of EmuLink.     *)
EXTENDS EmuLink
==============================================================================
