-------------------------- MODULE MCProgramArena ---------------------------
(* Model-checking instance of ProgramArena.  The strings include one that *)
(* every parser knows and one it does not ("??"), so both the table entry  *)
(* and the fallback are taken; one name with two hints makes interning    *)
(* hits happen.                                                           *)
EXTENDS ProgramArena

MCHintStrs == {"i64", "??"}
MCAluStrs == {"<<", "??"}
MCUnaryStrs == {"~"}
MCCmpStrs == {"<="}
MCLogicStrs == {"not"}
MCInts == {0}
\* 3-bit words: the pattern 100 is the sign bit alone (f64 -0.0).
MCFloatBits == {4}
MCSources == {0}
MCMaxHints == {7}
=============================================================================
