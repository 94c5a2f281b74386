------------------------- MODULE MCCompilerContext -------------------------
(* Model-checking instance of CompilerContext.  Two channels make both    *)
(* parallel compositions and conflicts possible; durations 0 and 1 give   *)
(* ties, offsets and subtrees shared at different offsets.  Four nodes    *)
(* keep the sessions (enable, compile, clear, disable in any order) small *)
(* enough to explore; the interleaving merge needs five and is checked by *)
(* MCIncrementalCompiler.                                                  *)
EXTENDS CompilerContext

MCChannels == {0, 1}
MCDurations == {0, 1}
=============================================================================
