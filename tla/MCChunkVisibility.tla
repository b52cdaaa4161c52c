-------------------------- MODULE MCChunkVisibility --------------------------
(* Instances of ChunkVisibility.  In the code the index refreshes within   *)
(* 60 s, the gap is 65 s, the poll 5 s and the timeout at least 150 s; with *)
(* a tick of 30 s the run has 2, 3, 1 and 6 ticks.                          *)
EXTENDS ChunkVisibility, TLC
Symmetry == Permutations(Attempts) \cup Permutations(Sections)
=============================================================================
