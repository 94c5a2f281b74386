------------------------- MODULE IncrementalCompiler -------------------------
(***************************************************************************)
(* The memoising compiler of catseq-rust                                   *)
(* (src/catseq-rust/src/incremental.rs, IncrementalCompiler) as operators  *)
(* on a compiler value [cache, cache_hits, cache_misses] and an arena.     *)
(* The cache maps a handle to that subtree's events in LOCAL time (its own *)
(* start is 0); parents shift what they take from it.  The recursion of    *)
(* compile_node, with the cache threaded through it in call order, is a    *)
(* RECURSIVE operator.  CompilerContext owns a compiler as state.          *)
(***************************************************************************)
EXTENDS FlatCompiler

EmptyCache == [id \in {} |-> <<>>]

\* IncrementalCompiler::new
NewCompiler == [cache |-> EmptyCache, cache_hits |-> 0, cache_misses |-> 0]

\* Plausible fault: clear() that forgets to reset the miss counter.
ClearCompilerKeepMisses(c) ==
  [cache |-> EmptyCache, cache_hits |-> 0, cache_misses |-> c.cache_misses]

\* IncrementalCompiler::clear
ClearCompiler(c) == [cache |-> EmptyCache, cache_hits |-> 0, cache_misses |-> 0]

(***************************************************************************)
(* merge_sorted_events: the empty-list paths, the two block-copy paths and *)
(* the two-pointer merge, tried in the code's order.                       *)
(***************************************************************************)
RECURSIVE MergeLoop(_, _)
MergeLoop(a, b) ==
  IF a = <<>> THEN b
  ELSE IF b = <<>> THEN a
  ELSE IF a[1].time <= b[1].time THEN <<a[1]>> \o MergeLoop(Tail(a), b)
  ELSE <<b[1]>> \o MergeLoop(a, Tail(b))

\* Plausible fault: a block-copy test comparing the two last times.
MergeSortedEventsLastOnly(a, b) ==
  IF a = <<>> THEN b
  ELSE IF b = <<>> THEN a
  ELSE IF Last(a).time <= Last(b).time THEN a \o b
  ELSE IF Last(b).time <= a[1].time THEN b \o a
  ELSE MergeLoop(a, b)

MergeSortedEvents(a, b) ==
  IF a = <<>> THEN b
  ELSE IF b = <<>> THEN a
  ELSE IF Last(a).time <= b[1].time THEN a \o b
  ELSE IF Last(b).time <= a[1].time THEN b \o a
  ELSE MergeLoop(a, b)

(***************************************************************************)
(* The Sequential arm of compile_node: lhs events as they are, rhs events  *)
(* shifted by the lhs duration.                                            *)
(***************************************************************************)
\* Plausible fault: the rhs events taken from the cache without the shift.
SequentialEventsUnshifted(lhsEvents, rhsEvents, lhsDuration) ==
  lhsEvents \o rhsEvents

\* Plausible fault: the shift applied with the wrong sign.
SequentialEventsShiftBack(lhsEvents, rhsEvents, lhsDuration) ==
  lhsEvents \o [i \in DOMAIN rhsEvents |->
                  [rhsEvents[i] EXCEPT !.time = @ - lhsDuration]]

SequentialEvents(lhsEvents, rhsEvents, lhsDuration) ==
  lhsEvents \o [i \in DOMAIN rhsEvents |->
                  [rhsEvents[i] EXCEPT !.time = TimeAdd(@, lhsDuration)]]

\* The result of compile_node: the compiler after the call, and the events.
Result(c, ev) == [compiler |-> c, events |-> ev]

\* The miss path's final step: cache.insert(node_id, events).
Store(c, id, ev) ==
  Result([c EXCEPT !.cache = (id :> ev) @@ c.cache], ev)

(***************************************************************************)
(* Plausible fault: a cache keyed by handle that stores ABSOLUTE times,    *)
(* i.e. what a subtree compiled to at its first use site.                  *)
(***************************************************************************)
RECURSIVE CompileAt(_, _, _, _)
CompileAt(arena, c, id, t) ==
  IF id \in DOMAIN c.cache
    THEN Result([c EXCEPT !.cache_hits = @ + 1], c.cache[id])
  ELSE
    LET c0 == [c EXCEPT !.cache_misses = @ + 1]
        n  == NodeAt(arena, id)
    IN IF n.kind = "Atomic" THEN Store(c0, id, <<Event(t, n)>>)
       ELSE LET rl == CompileAt(arena, c0, n.lhs, t)
                rr == CompileAt(arena, rl.compiler, n.rhs,
                                IF n.kind = "Sequential"
                                  THEN TimeAdd(t, NodeAt(arena, n.lhs).duration) ELSE t)
            IN Store(rr.compiler, id,
                     IF n.kind = "Sequential" THEN rl.events \o rr.events
                     ELSE MergeSortedEvents(rl.events, rr.events))

CompileNodeAbsolute(arena, c, id) == CompileAt(arena, c, id, 0)

(***************************************************************************)
(* compile_node: a hit returns the cached list and counts a hit; a miss    *)
(* counts a miss, compiles lhs then rhs (each call may fill the cache for  *)
(* the next), combines, and stores the result under the handle.            *)
(***************************************************************************)
RECURSIVE CompileNode(_, _, _)
CompileNode(arena, c, id) ==
  IF id \in DOMAIN c.cache
    THEN Result([c EXCEPT !.cache_hits = @ + 1], c.cache[id])
  ELSE
    LET c0 == [c EXCEPT !.cache_misses = @ + 1]
        n  == NodeAt(arena, id)
    IN IF n.kind = "Atomic" THEN Store(c0, id, <<Event(0, n)>>)
       ELSE LET rl == CompileNode(arena, c0, n.lhs)
                rr == CompileNode(arena, rl.compiler, n.rhs)
            IN Store(rr.compiler, id,
                     IF n.kind = "Sequential"
                       THEN SequentialEvents(rl.events, rr.events,
                                             NodeAt(arena, n.lhs).duration)
                     ELSE MergeSortedEvents(rl.events, rr.events))

\* IncrementalCompiler::compile: the root's local time is absolute time;
\* try_unwrap-or-clone hands back the same list.
IncCompile(arena, c, root) == CompileNode(arena, c, root)

\* stats(): the number of cached handles and the two counters; hit_rate is
\* the f64 quotient hits / (hits + misses), 0.0 before any lookup, kept
\* here as the pair of integers it divides.
Stats(c) ==
  [cached_nodes |-> Cardinality(DOMAIN c.cache),
   cache_hits   |-> c.cache_hits,
   cache_misses |-> c.cache_misses,
   hit_rate     |-> IF c.cache_hits + c.cache_misses > 0
                      THEN <<c.cache_hits, c.cache_hits + c.cache_misses>>
                      ELSE <<0, 1>>]

(***************************************************************************)
(* Properties.                                                             *)
(***************************************************************************)
SortedByTime(s) == \A i \in 1 .. (Len(s) - 1) : s[i].time <= s[i + 1].time

\* The events `ev' are those of handle `root' in the current arena: each
\* leaf once at its offset, in time order (ties in any order).
SameEvents(ev, root) ==
  /\ SortedByTime(ev)
  /\ ToBag(ev) = ToBag(ReferenceCompile(nodes, root))

\* compile from an empty cache (after new or clear) meets the contract on
\* every handle: the Sequential arm's shift and merge_sorted_events, with
\* its block-copy shortcuts and its two-pointer merge of interleaving
\* lists, yield every leaf event once at its offset, in time order.
IncrementalCompileMeetsContract ==
  \A root \in NodeIds : SameEvents(IncCompile(nodes, NewCompiler, root).events, root)

=============================================================================
