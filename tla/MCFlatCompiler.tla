-------------------------- MODULE MCFlatCompiler ---------------------------
(* Model-checking instance of FlatCompiler for the spec's time bound: two  *)
(* channels and two payloads so that events at equal times can be told    *)
(* apart, and durations including zero, a legal input to atomic.           *)
EXTENDS FlatCompiler

MCChannels == {0, 1}
MCDurations == {0, 1}
=============================================================================
