-------------------------- MODULE MCMorphismArena --------------------------
(* Model-checking instance of MorphismArena and of the flat compiler over *)
(* it: two channels, so that both conflicts and disjoint compositions     *)
(* occur, two payloads, so that events at equal times on one channel can  *)
(* be told apart, and durations that include zero (a legal u64 input to   *)
(* atomic), which give ties.                                              *)
EXTENDS FlatCompiler

MCChannels == {0, 1}
MCDurations == {0, 1}
=============================================================================
