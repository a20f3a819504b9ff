---------------------------- MODULE MCDifficulty ----------------------------
(* Difficulty with a period and a window of two blocks, and gaps that make *)
(* blocks far too fast, of the right pace, and far too slow.               *)
EXTENDS Difficulty

MCGaps == {-5, 10, 200}
=============================================================================
