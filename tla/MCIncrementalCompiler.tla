----------------------- MODULE MCIncrementalCompiler -----------------------
(* Model-checking instance of IncrementalCompiler over every arena of up   *)
(* to five nodes: five is the least that builds a Parallel of two          *)
(* two-event subtrees ((a0 @ a0) | (a1 @ a1)), whose lists interleave and  *)
(* reach the two-pointer merge; zero durations give ties.                  *)
EXTENDS IncrementalCompiler

MCChannels == {0, 1}
MCDurations == {0, 1}
=============================================================================
