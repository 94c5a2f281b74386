# TLA+ models of catseq-rust

These modules model the Rust backend of catseq, found under `src/catseq-rust/src/`.
The backend is a single-threaded library that Python calls into. It has six parts:

* **Morphism arena** (`arena.rs`, `ArenaContext`). An append-only vector of
  nodes, where a handle (`NodeId`) is an index into the vector. There are three
  node kinds:
  * `atomic` pushes a leaf holding a channel, a duration and an opaque payload.
  * `sequential` (`@`) pushes a node whose duration is the sum of its children's
    and whose channel list is the sorted and deduplicated union of theirs.
  * `parallel` (`|`) first rejects children that share a channel, using
    `has_intersection`, a two-pointer scan over the stored sorted lists. It then
    pushes a node with the maximum of the durations and the sorted
    concatenation of the channel lists.
* **Flat compiler** (`compiler.rs`, `compile`). An explicit-stack walk that emits
  one event per leaf at its offset, followed by a stable sort by time.
* **Incremental compiler** (`incremental.rs`). A memoising compiler. Its cache
  maps a handle to the events of that subtree in local time (starting at 0).
  * A Sequential node shifts its rhs events by the lhs duration.
  * A Parallel node merges its children's events with `merge_sorted_events`.
    That function has two block-copy shortcuts and a two-pointer merge.
  * It counts cache hits and misses.
* **CompilerContext** (`lib.rs`). The object Python holds. It contains the arena
  and an optional incremental compiler (`RefCell<Option<..>>`), which
  `enable_incremental` / `disable_incremental` / `clear_incremental_cache`
  manage. `compile_graph` and `Node.compile` use the incremental compiler if one
  is installed, and the flat compiler otherwise. `clear` empties the arena.

* **MorphismPath** (`path.rs`). A single-channel builder: a step list and a
  running `total_duration`, grown by `append`, `extend` (same channel only),
  `identity` and `align`, copied by `clone` and by `__iter__`, which iterates
  over a snapshot.
* **ProgramArena** (`program/`). A separate store for control-flow nodes and
  symbolic values. It has two append-only vectors and a name → handle map that
  interns variables. Operator strings are parsed by total functions that fall
  back to a default. `chain_sequence` builds a balanced Chain tree by pairwise
  halving.

## Modules

| module | models | state / operators |
|---|---|---|
| `MorphismArena` | `ArenaContext` | `nodes` is the node vector. `Time` is a word of `TimeBits` bits. `TimeAdd` is u64 `+` as a release build computes it, modulo the word. With `OverflowChecks` (a debug build), a `Sequential` whose sum does not fit panics before the push, so it takes no step. `GetDuration` / `GetChannels` are the host's getters. Actions: `Atomic`, `Sequential`, `Parallel`, `ParallelRejected` (the `Err` path, which pushes nothing) and `ArenaClear`. `HasIntersection` / `Scan` is the two-pointer scan. `LeafChannels` and `TreeDuration` are reference definitions computed from the tree. |
| `FlatCompiler` | `compile` | `Walk` is the stack machine (the top of the stack is the last element). `SortByTime` is a stable insertion sort. `ReferenceCompile` ranks leaf events by (time, leaf index). |
| `IncrementalCompiler` | `IncrementalCompiler` | A compiler value `[cache, cache_hits, cache_misses]`. `Stats` is `stats()`, with `hit_rate` kept as the pair of integers it divides. `CompileNode` is the recursion of `compile_node`, with the cache threaded through in call order. `MergeSortedEvents` is written as in the code, including its fast paths. |
| `MorphismPath` | `MorphismPath`, `PathIterator` | `paths` is a pool of host-held path objects (`NoPath` when a slot is free); `iters` holds iterators. `total_duration` is a word of `TimeBits` bits. `AddAfterPush` is the `+=` that `append` and `extend` do after pushing: with `OverflowChecks` (debug) an overflow panics and leaves the total as it was with the steps already in; otherwise it wraps. `TimeSub` is `align`'s u64 subtraction. Actions: `New`, `Identity`, `Clone`, `AppendStep`, `Extend`, `ExtendMismatch` (the `Err` path), `ExtendSelfRejected`, `AlignPad`, `AlignNoop`, `Iter`, `IterNext`, and `DropPath` / `DropIter` for the host letting go of an object. `ExtendSelfRejected` is `p.extend(p)`: pyo3 cannot lend the object as `other` while `self` is mutably borrowed, so the call raises. |
| `MorphismPathAbstract` | spec 4.4 | A path is a channel and a step list. It is created whole and then only grows at its end, by one step or by a same-channel path. `MorphismPath` instances it under the mapping that drops `total_duration` and the iterators. |
| `ProgramArena` | `ProgramArena` | Variables `values`, `pnodes` and `var_names`. There is one action per constructor. `Variable` and `VariableHit` are the two paths of `variable`. `ChainSequence` and `ChainSequenceTrivial` are the two paths of `chain_sequence`, and `Round` / `Reduce` are its loop. The parser tables come from `values.rs` and `nodes.rs`. `literal_float` stores the f64's bit pattern `as i64` (`AsI64`), and `as_float` reads it back `as u64` (`AsU64`). Both are done in a word of `WordBits` bits. The queries `GetValue`, `IsLiteral`, `IsVariable`, `GetLiteralInt`, `GetLiteralFloat` and `GetVariableName` return `None` out of range. |
| `CompilerContext` | `CompilerContext` | Variables: `nodes`, `incremental` (`None` or a compiler) and `lastCompile` (what the last compile call returned). `IsIncrementalEnabled` and `GetIncrementalStats` are the queries. There is one action per method: `EnableIncremental`, `DisableIncremental`, `ClearIncrementalCache`, `ContextClear`, `CompileFlat` and `CompileIncremental` (the two branches of `compile_graph` / `Node.compile`), and `BuildMorphism` (the arena calls). |

The morphism modules extend one another, from `MorphismArena` to
`CompilerContext`. `MorphismPath` and `ProgramArena` stand alone: neither the
code nor the spec connects them to the morphism arena except through opaque
references (`Lift.morphism_ref`). Each `MC*` module fixes the constants for
TLC. Payloads and handles of host objects are model values.

## Runs

| run | cfg | expect | what it shows |
|---|---|---|---|
| arena_metadata | MCMorphismArena.cfg | pass | The run uses a build with overflow checks and a 2-bit time word, so `s@s` over `s = a@a` overflows and panics. `TreeMetricsCorrect`: the stack-based `leaf_count` and `max_depth` equal recursive references. `MetadataSound`: channel lists are strictly sorted and exactly the leaf channels, and durations are those of the algebra. `ParallelDisjoint`: no Parallel node has children that share a leaf channel. `FlatCompileCorrect`: for every handle of every reachable arena, `compile` equals the reference (time order, ties in leaf order). All four hold over every call sequence up to 5 nodes, which includes right- and left-leaning chains of depth 4. |
| arena_overflow | MCMorphismArenaOverflow.cfg | violation | The same arena in a release build. Every atomic duration is below half the word, which is spec 3's bound of 2^63, scaled. Still, `(a@a)@(a@a)` stores a wrapped duration, and `MetadataSound` fails. The contract bounds the inputs but not the sums built from them. |
| path_builder | MCMorphismPath.cfg | pass | Two path objects and one iterator go through any mix of operations. The run is a release build with a 3-bit word that the bounded sums do not reach. `TotalDurationIsSum`: the running total equals the exact sum of the steps, in copies too, and `align` never pads a path that is past its target. `ImplementsAbstractPath`: the refinement to `MorphismPathAbstract`. |
| path_overflow | MCMorphismPathOverflow.cfg | violation | A debug build with a 2-bit word and steps of duration 1, below half the word (spec 3's input bound, scaled). `identity(1)`, `append(1)`, `clone`, then `extend` overflows `total_duration`. The panic comes after `extend_from_slice`, so the path keeps 4 steps while its total stays 2. |
| program_interning | MCProgramArena.cfg | pass | `VarInterning`: the intern map names exactly the Variable values, with one handle per name, so a repeated `variable(name)` returns the first handle, and `clear` leaves no name behind. This holds over every mix of constructors and `clear`. It does not check which type hint is kept. |
| program_chain | MCProgramArenaChain.cfg | pass | `ChainSequenceBalanced`: `chain_sequence` over N ≤ 4 handles pushes N−1 Chains. They hold the inputs in order, each once, in a tree of depth ⌈log₂ N⌉. |
| flat_time_bound | MCFlatCompilerTimeBound.cfg | violation | The spec's bound "every event time < duration(root)" fails for an atomic of duration 0. |
| incremental_compile | MCIncrementalCompiler.cfg | pass | `IncrementalCompileMeetsContract`: from an empty cache, the incremental compiler returns every leaf event once, at its offset, sorted by time. The run uses 5 nodes, which is the smallest arena where `(a0@a0)\|(a1@a1)` reaches the two-pointer merge. |
| incremental_session | MCCompilerContext.cfg | pass | Sessions interleave building, enable, disable, clearing the cache and compiling any handle. Four properties hold: `CompileReturnsEvents` (every compile returns the handle's events), `CacheCoherent` (every cache entry is the local-time compilation of its handle in the current arena), `CacheAccounting` (misses equal cached entries) and `ContextTypeOK`. |
| incremental_tie_order | MCCompilerContextMerge.cfg | violation | The incremental output is not identical to the flat output. `merge_sorted_events`' second block copy (incremental.rs:159) puts rhs events before lhs events at equal times. |
| clear_stale_cache | MCCompilerContextClear.cfg | violation | `clear` keeps the incremental cache. Handle ids are reused after it, so a compile returns the events of a node that no longer exists. |
| enable_resets_cache | MCCompilerContextEnable.cfg | violation | `enable_incremental` on an already enabled context resets the cache. The spec says it is a no-op. |

Each property of a passing run is also checked against a plausible fault in the
code it covers. The faulty version must make the property fail. The faults are:

* a `sequential` without `dedup`;
* a `parallel` that does not sort;
* an unstable sort;
* a block-copy test comparing the two last times;
* a Sequential arm that does not shift, or that shifts with the wrong sign;
* a cache of absolute times;
* a `clear` that keeps the miss count;
* `max_depth` starting at depth 0;
* `align` without its `total < target` test;
* `extend` that skips the channel check;
* `variable` without the lookup;
* a `chain_sequence` round that drops an odd last element.

## Bounds

* `MaxNodes = 4` bounds the session runs, and `MaxNodes = 5` bounds
  `arena_metadata` and `incremental_compile`. `arena_metadata` reaches about
  505,000 distinct states in a minute and a half. These limits cover all of the following:
  * a Parallel conflict;
  * a Parallel over a Parallel;
  * a subtree shared at two different offsets (`a1 @ a0`, then compile `a0`);
  * ties from zero durations;
  * the interleaving merge (5 nodes).
* `MaxHits = 2` stops the compile actions once the cache has served more than
  two hits. Every session still reaches hits on shared subtrees and on repeated
  roots.
* `path_builder` uses two path objects, one iterator, at most 2 steps per path
  and align targets 1 and 2. Align then pads from totals 0 and 1, and meets
  paths at and past its target (total 2 against target 1). Totals stay at
  most 4, inside the 3-bit word, so no sum overflows there; `path_overflow`
  takes 4 steps and a 2-bit word so that one does.
* `program_interning` uses 3 values and 2 nodes, with every constructor, one
  name with two hints, and one unknown string per parser. `program_chain` has no
  values and no names, so that the 5 nodes go to chains over lists of up to 4
  handles. That is the smallest input for which a linear fold would be deeper
  than ⌈log₂ N⌉.
* Time words: `arena_metadata` and `arena_overflow` use 2 bits with durations
  {0,1}, which is the spec's "below half the word". Three compositions then
  reach a sum of 4. The compiler and session runs use 8 bits and the release
  build. Their sums stay below 2^8, so the two builds behave alike there.
* Literal words are 3 bits, with int literal 0 and the float pattern 100.
* Two channels are the fewest that give both disjoint and conflicting
  parallels. Durations 0 and 1 give both ties and offsets.

## Fairness and liveness

None is assumed or checked. Every call is synchronous and runs to completion on
the caller's thread. The context is `unsendable`, and `RefCell` borrows panic
rather than block. So nothing waits, and nothing has to happen eventually. The
session runs check deadlock: at the bounds, building stops, but compile and
enable/disable steps stay enabled.

## Not modelled

* `compose_sequence` and `parallel_compose_many` (lib.rs:170-192) call
  `ArenaContext::compose_sequence` / `compose_parallel`. arena.rs does not
  define these, so as written the crate does not compile at those lines.
* Recursion depth of `compile_node`, which is a property of the host stack.
* Conversions to Python tuples, which copy fields one for one.
* Read-only queries with no property to tell them apart from the state they
  read: `get_step`, `__len__`, `__repr__`, `node_count`, `value_count`,
  `var_count`, and the `Node` getters (`node_id`, `duration`, `channels`,
  `leaf_count`, `max_depth`), which forward to the arena operations the model
  already has (`GetDuration`, `GetChannels`, `LeafCount`, `MaxDepth`).
* `compile_by_board` (compiler.rs:73-86 and its `Node` wrapper), a push loop
  grouping `compile`'s output by `channel_id >> 16`. Spec 1 puts per-board
  dispatch out of scope, and nothing in the loop goes beyond the shift.
* The float value of a float literal. Only its bit pattern is modelled, which
  is all that `to_bits` and `from_bits` move.
* Node handles kept across `CompilerContext.clear`. Spec 5 makes not using
  them the caller's obligation, so there is no code behaviour to check.

## Why the model stops here

Every operation that changes state in the crate is an action of some module.
The exception is the two batch calls of `CompilerContext` that do not compile
(see above). That is why that component is "partly" modelled. The rest of the
code is read-only forwarding and conversion to Python objects.

Two further steps were weighed and left out:

* A refinement of `CompilerContext` onto an abstract context whose compile
  returns the reference events would restate `CompileReturnsEvents`.
* Liveness has nothing to say. Every call is synchronous and returns, and the
  host decides which call comes next. So no fairness is justified.
