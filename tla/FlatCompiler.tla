---------------------------- MODULE FlatCompiler ----------------------------
(***************************************************************************)
(* The one-shot compiler of catseq-rust (src/catseq-rust/src/compiler.rs): *)
(* an explicit-stack walk of a morphism DAG that emits one event per       *)
(* Atomic leaf, followed by a stable sort by time.  The compiler is a pure *)
(* function of the arena; it is checked on every node of every arena the   *)
(* MorphismArena operations can build.                                     *)
(***************************************************************************)
EXTENDS MorphismArena

\* FlatEvent {time, channel_id, opcode, data}; (opcode, data) is the payload.
Event(t, n) == [time |-> t, channel_id |-> n.channel_id, payload |-> n.payload]

(***************************************************************************)
(* compile, lines 29-63: the stack machine.  The stack is a sequence of   *)
(* <<handle, start_time>> pairs whose top is its last element (Vec::pop).  *)
(***************************************************************************)
RECURSIVE Walk(_, _, _)
Walk(arena, stack, events) ==
  IF stack = <<>> THEN events
  ELSE LET id   == Last(stack)[1]
           t    == Last(stack)[2]
           rest == Front(stack)
           n    == NodeAt(arena, id)
       IN IF n.kind = "Atomic"
            THEN Walk(arena, rest, Append(events, Event(t, n)))
          ELSE IF n.kind = "Sequential"
            \* rhs pushed first, shifted by the lhs duration; lhs on top
            THEN Walk(arena,
                      rest \o << <<n.rhs, TimeAdd(t, NodeAt(arena, n.lhs).duration)>>,
                                 <<n.lhs, t>> >>,
                      events)
          \* Parallel: both children start at t
          ELSE Walk(arena, rest \o << <<n.rhs, t>>, <<n.lhs, t>> >>, events)

(***************************************************************************)
(* compile, line 66: events.sort_by_key(|e| e.time), a stable sort.  It    *)
(* is an insertion sort here: each event goes after every event already    *)
(* placed whose time is not larger.                                        *)
(***************************************************************************)
\* Plausible fault: an unstable sort placing e before its equal-time peers.
InsertByTimeUnstable(sorted, e) ==
  LET k == Cardinality({i \in DOMAIN sorted : sorted[i].time < e.time})
  IN SubSeq(sorted, 1, k) \o <<e>> \o SubSeq(sorted, k + 1, Len(sorted))

InsertByTime(sorted, e) ==
  LET k == Cardinality({i \in DOMAIN sorted : sorted[i].time <= e.time})
  IN SubSeq(sorted, 1, k) \o <<e>> \o SubSeq(sorted, k + 1, Len(sorted))

RECURSIVE SortByTime(_)
SortByTime(s) ==
  IF s = <<>> THEN <<>> ELSE InsertByTime(SortByTime(Front(s)), Last(s))

\* compile(arena, root)
Compile(arena, root) == SortByTime(Walk(arena, << <<root, 0>> >>, <<>>))

(***************************************************************************)
(* Reference semantics (spec 4.2 contract): one event per leaf, in left-   *)
(* to-right leaf order, at the sum of the durations of the Sequential      *)
(* left siblings on its path; ordered by time, ties by leaf order.         *)
(***************************************************************************)
RECURSIVE LeafEvents(_, _, _)
LeafEvents(arena, id, t) ==
  LET n == NodeAt(arena, id) IN
  IF n.kind = "Atomic" THEN <<Event(t, n)>>
  ELSE LeafEvents(arena, n.lhs, t)
       \o LeafEvents(arena, n.rhs,
                     IF n.kind = "Sequential"
                       THEN t + NodeAt(arena, n.lhs).duration ELSE t)

\* The leaf events, each placed at its rank in the order (time, leaf index).
ReferenceCompile(arena, root) ==
  LET L == LeafEvents(arena, root, 0)
      Rank(i) == Cardinality({j \in DOMAIN L :
                                \/ L[j].time < L[i].time
                                \/ L[j].time = L[i].time /\ j <= i})
  IN [k \in DOMAIN L |-> L[CHOOSE i \in DOMAIN L : Rank(i) = k]]

(***************************************************************************)
(* Properties.                                                             *)
(***************************************************************************)
\* compile meets its contract on every node of the arena: each Atomic leaf
\* (counted once per path, shared subtrees included) yields exactly one
\* event at the offset its Sequential ancestors give it, the list is
\* ordered by time, and equal times keep left-to-right leaf order.
FlatCompileCorrect ==
  \A root \in NodeIds : Compile(nodes, root) = ReferenceCompile(nodes, root)

\* Spec 8, "compiler time bound": every event of compile(root) lies in
\* [0, duration(root)), strictly below the root's duration.
TimeBoundStrict ==
  \A root \in NodeIds :
    \A i \in DOMAIN Compile(nodes, root) :
      Compile(nodes, root)[i].time < NodeAt(nodes, root).duration

=============================================================================
