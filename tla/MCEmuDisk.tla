------------------------------ MODULE MCEmuDisk ------------------------------
(* Instances of EmuDisk small enough for TLC.                              *)
EXTENDS EmuDisk, TLC

Fs(rw, sector, count) ==
  [cmd_type |-> "fs", rw |-> rw, sector |-> sector, count |-> count]

\* Two writes that follow one another on the disk and a read across both.
SmallCommands == {Fs(WRITE, 0, 1), Fs(WRITE, 1, 1), Fs(READ, 0, 2)}
SmallSectors  == 0 .. 1

OneCommand    == {Fs(WRITE, 0, 1)}
TwoCommands   == {Fs(WRITE, 0, 1), Fs(READ, 0, 2)}

PcCommands == {Fs(WRITE, 0, 1), [Fs(READ, 0, 1) EXCEPT !.cmd_type = "pc"]}

\* Sequential requests are faster, larger ones slower.
SmallLatency ==
  [seq \in BOOLEAN, rw \in {0, 1}, count \in Counts |->
     IF seq THEN 1 ELSE 1 + count]

OneHead  == {<<0, 7>>}
TwoHeads == {<<0, 7>>, <<1, 1>>}

Symmetry == Permutations(Reqs)
==============================================================================
