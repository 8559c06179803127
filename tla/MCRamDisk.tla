------------------------------ MODULE MCRamDisk ------------------------------
(* Instances of RamDisk small enough for TLC.                              *)
EXTENDS RamDisk, TLC

Fs(rw, sector, count) ==
  [cmd_type |-> "fs", rw |-> rw, sector |-> sector, count |-> count]

\* A write of each sector and a read across both.
SmallCommands == {Fs(WRITE, 0, 1), Fs(WRITE, 1, 1), Fs(READ, 0, 2)}
SmallSectors  == 0 .. 1

TwoCommands   == {Fs(WRITE, 0, 1), Fs(READ, 0, 2)}

\* A read and a request of another type.
PcCommands == {Fs(WRITE, 0, 1), Fs(READ, 0, 1), [Fs(READ, 0, 1) EXCEPT !.cmd_type = "pc"]}

\* Sequential requests complete at once, larger ones take longer.
SmallLatency ==
  [seq \in BOOLEAN, rw \in {0, 1}, count \in Counts |->
     IF seq THEN 0 ELSE count]

Symmetry == Permutations(Reqs)
==============================================================================
