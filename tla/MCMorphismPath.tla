-------------------------- MODULE MCMorphismPath ---------------------------
(* Model-checking instance of MorphismPath: two path objects (so extend,   *)
(* clone and mismatches happen), one iterator, two channels, durations 0  *)
(* and 1 (identity's empty path), and align targets 1 and 2, below, equal *)
(* to and above the totals reached, so align pads from 0 and from 1 and    *)
(* is a no-op on paths at or past its target.                              *)
EXTENDS MorphismPath

MCChannels == {0, 1}
MCDurations == {0, 1}
MCTargets == {1, 2}
=============================================================================
