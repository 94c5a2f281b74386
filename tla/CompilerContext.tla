--------------------------- MODULE CompilerContext ---------------------------
(***************************************************************************)
(* CompilerContext of catseq-rust (src/catseq-rust/src/lib.rs): one        *)
(* morphism arena plus an optional incremental compiler                    *)
(* (RefCell<Option<IncrementalCompiler>>), driven by single-threaded,      *)
(* serialised calls from the host.  Each call is one atomic step.          *)
(*                                                                         *)
(* State: the arena's nodes, the optional compiler (None when incremental  *)
(* compilation is disabled), and the value the last compile call returned  *)
(* together with the handle it was asked for.                              *)
(***************************************************************************)
EXTENDS IncrementalCompiler

CONSTANTS
  None,      \* Option::None, and "no compile call returned yet"
  MaxHits    \* bound on cache_hits: compile calls stop once it is passed

ASSUME MaxHits \in Nat

VARIABLES
  incremental,  \* CompilerContext.incremental
  lastCompile   \* [root, events] returned by the latest compile call

ctxVars == <<incremental, lastCompile>>
vars == <<nodes, incremental, lastCompile>>

Init ==
  /\ ArenaInit
  /\ incremental = None
  /\ lastCompile = None

\* is_incremental_enabled and get_incremental_stats: the queries the host
\* reads the compiler's state through (None when disabled).
IsIncrementalEnabled == incremental # None

GetIncrementalStats == IF incremental = None THEN None ELSE Stats(incremental)

(***************************************************************************)
(* Calls on the arena (atomic, compose, parallel_compose, the Node         *)
(* operators) leave the compiler alone.                                    *)
(***************************************************************************)
BuildMorphism == ArenaBuild /\ UNCHANGED ctxVars

\* CompilerContext::clear, lines 122-124: empties the node vector and does
\* nothing to the incremental compiler.
ContextClear == ArenaClear /\ UNCHANGED ctxVars

\* enable_incremental: always installs a fresh compiler.
EnableIncremental ==
  /\ incremental' = NewCompiler
  /\ UNCHANGED <<nodes, lastCompile>>

\* disable_incremental: drops the compiler and its cache.
DisableIncremental ==
  /\ incremental' = None
  /\ UNCHANGED <<nodes, lastCompile>>

\* clear_incremental_cache: clears the cache if a compiler is installed.
ClearIncrementalCache ==
  /\ incremental' = IF incremental = None THEN None
                    ELSE ClearCompiler(incremental)
  /\ UNCHANGED <<nodes, lastCompile>>

\* compile_graph / Node.compile with incremental compilation disabled: the
\* flat compiler.
CompileFlat(root) ==
  /\ incremental = None
  /\ lastCompile' = [root |-> root, events |-> Compile(nodes, root)]
  /\ UNCHANGED <<nodes, incremental>>

\* compile_graph / Node.compile with incremental compilation enabled: the
\* memoising compiler, whose cache and counters the call updates.
CompileIncremental(root) ==
  /\ incremental # None
  /\ incremental.cache_hits <= MaxHits
  /\ LET r == IncCompile(nodes, incremental, root) IN
     /\ incremental' = r.compiler
     /\ lastCompile' = [root |-> root, events |-> r.events]
  /\ UNCHANGED nodes

\* Sessions that never call CompilerContext::clear.
NextNoClear ==
  \/ BuildMorphism
  \/ EnableIncremental
  \/ DisableIncremental
  \/ ClearIncrementalCache
  \/ \E root \in NodeIds : CompileFlat(root) \/ CompileIncremental(root)

Next == NextNoClear \/ ContextClear

SpecNoClear == Init /\ [][NextNoClear]_vars

Spec == Init /\ [][Next]_vars

(***************************************************************************)
(* Properties.                                                             *)
(***************************************************************************)
EventRecords == [time : Nat, channel_id : Channels, payload : Payloads]

ContextTypeOK ==
  /\ TypeOK
  /\ \/ incremental = None
     \/ /\ incremental.cache_hits \in Nat
        /\ incremental.cache_misses \in Nat
        /\ DOMAIN incremental.cache \subseteq Nat
        /\ \A id \in DOMAIN incremental.cache :
             incremental.cache[id] \in Seq(EventRecords)
  /\ \/ lastCompile = None
     \/ /\ lastCompile.root \in Nat
        /\ lastCompile.events \in Seq(EventRecords)

\* Every compile call, by whichever compiler is installed, returns the
\* events of the handle it is given in the arena it runs against, however
\* earlier calls on other roots sharing subtrees have filled the cache.
CompileReturnsEvents ==
  [][\A root \in NodeIds :
       CompileFlat(root) \/ CompileIncremental(root) =>
         SameEvents(lastCompile'.events, root)]_vars

\* Every cache entry is what compiling its handle from an empty cache gives
\* against the arena as it is now: entries hold local time and never go
\* stale while the arena lives.
CacheCoherent ==
  incremental # None =>
    \A id \in DOMAIN incremental.cache :
      /\ id \in NodeIds
      /\ incremental.cache[id] = IncCompile(nodes, NewCompiler, id).events

\* As get_incremental_stats reports it, cache_misses counts the entries of
\* the cache: every miss inserts one new handle, and only clear() empties
\* the cache, resetting the count with it.
CacheAccounting ==
  IsIncrementalEnabled =>
    GetIncrementalStats.cache_misses = GetIncrementalStats.cached_nodes

\* Spec 8, "incremental equivalence": the incremental compiler's output is
\* bit-identical to the flat compiler's, including the order of events
\* at equal times.
IncrementalEquivalence ==
  lastCompile # None => lastCompile.events = Compile(nodes, lastCompile.root)

\* Spec 4.6: enable_incremental on an enabled context is a no-op; the cache
\* and its counters survive it.
EnableKeepsCache ==
  [][incremental # None /\ EnableIncremental => UNCHANGED incremental]_vars

=============================================================================
