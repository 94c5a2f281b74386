--------------------------- MODULE MorphismArena ---------------------------
(***************************************************************************)
(* The morphism arena of catseq-rust (src/catseq-rust/src/arena.rs,       *)
(* ArenaContext) as it is driven through CompilerContext (lib.rs).         *)
(*                                                                         *)
(* The arena is an append-only vector of nodes.  A handle (NodeId) is the  *)
(* 0-based index of a node in that vector.  Every node carries metadata    *)
(* precomputed at construction: a duration and a sorted channel list.      *)
(* Payloads (opcode and data blob) are opaque to the code; they are model  *)
(* values here.                                                            *)
(***************************************************************************)
EXTENDS Naturals, Sequences, SequencesExt, FiniteSets, TLC

CONSTANTS
  Channels,   \* channel ids (u32): a small set of naturals, ordered by <
  Durations,  \* durations (u64 clock cycles) an atomic may be given
  Payloads,   \* opaque (opcode, data) payloads: model values
  MaxNodes,   \* bound on the length of the node vector
  TimeBits,   \* width of Time (u64), scaled down: Time is 0 .. 2^TimeBits - 1
  OverflowChecks  \* the build checks integer overflow (debug) or wraps (release)

ASSUME Channels \subseteq Nat /\ MaxNodes \in Nat \ {0}
ASSUME TimeBits \in Nat \ {0} /\ OverflowChecks \in BOOLEAN
\* Spec 3: inputs stay below 2^63, i.e. half the word.
ASSUME Durations \subseteq 0 .. (2 ^ (TimeBits - 1) - 1)

VARIABLE nodes   \* ArenaContext.nodes: Vec<MorphismData>

arenaVars == <<nodes>>

(***************************************************************************)
(* Handles and accessors.                                                  *)
(***************************************************************************)
\* ArenaContext::get: node `id' of the vector `arena' (handles are 0-based).
NodeAt(arena, id) == arena[id + 1]

\* The handles that resolve in `arena'.
HandlesOf(arena) == 0 .. (Len(arena) - 1)

NodeIds == HandlesOf(nodes)

\* MorphismData::channels / channels_vec: an Atomic's channel list is the
\* one-element list of its channel id; composites return their stored list.
ChannelsOf(n) ==
  IF n.kind = "Atomic" THEN <<n.channel_id>> ELSE n.channels

\* u64 addition as a release build computes it: modulo the word.  A build
\* with overflow checks panics instead when the sum does not fit.
TimeModulus == 2 ^ TimeBits

TimeAdd(a, b) == (a + b) % TimeModulus

SumFits(a, b) == a + b < TimeModulus

\* get_duration / get_channels (and the Node getters): what the host reads
\* of a handle.
GetDuration(id) == NodeAt(nodes, id).duration

GetChannels(id) == ChannelsOf(NodeAt(nodes, id))

(***************************************************************************)
(* Channel-list helpers used by the combinators.                           *)
(***************************************************************************)
\* Vec::dedup: drops each element equal to its predecessor.
RECURSIVE Dedup(_)
Dedup(s) ==
  IF Len(s) < 2 THEN s
  ELSE IF s[1] = s[2] THEN Dedup(Tail(s))
  ELSE <<s[1]>> \o Dedup(Tail(s))

\* has_intersection: two-pointer scan of two lists assumed sorted.
RECURSIVE Scan(_, _, _, _)
Scan(a, b, i, j) ==
  IF i > Len(a) \/ j > Len(b) THEN FALSE
  ELSE IF a[i] = b[j] THEN TRUE
  ELSE IF a[i] < b[j] THEN Scan(a, b, i + 1, j)
  ELSE Scan(a, b, i, j + 1)

HasIntersection(a, b) == Scan(a, b, 1, 1)

(***************************************************************************)
(* Node constructors, as the combinators build them.                       *)
(***************************************************************************)
AtomicNode(ch, d, p) ==
  [kind |-> "Atomic", channel_id |-> ch, duration |-> d, payload |-> p]

\* Plausible fault: sequential without the dedup pass.
SequentialNodeNoDedup(lhs, rhs) ==
  LET l == NodeAt(nodes, lhs)
      r == NodeAt(nodes, rhs)
  IN [kind |-> "Sequential", lhs |-> lhs, rhs |-> rhs,
      duration |-> TimeAdd(l.duration, r.duration),
      channels |-> SortSeq(ChannelsOf(l) \o ChannelsOf(r), <)]

\* sequential: duration added; channels concatenated, sorted, deduped.
SequentialNode(lhs, rhs) ==
  LET l == NodeAt(nodes, lhs)
      r == NodeAt(nodes, rhs)
  IN [kind |-> "Sequential", lhs |-> lhs, rhs |-> rhs,
      duration |-> TimeAdd(l.duration, r.duration),
      channels |-> Dedup(SortSeq(ChannelsOf(l) \o ChannelsOf(r), <))]

\* Plausible fault: parallel keeping the concatenation unsorted.
ParallelNodeUnsorted(lhs, rhs) ==
  LET l == NodeAt(nodes, lhs)
      r == NodeAt(nodes, rhs)
  IN [kind |-> "Parallel", lhs |-> lhs, rhs |-> rhs,
      duration |-> IF l.duration >= r.duration THEN l.duration ELSE r.duration,
      channels |-> ChannelsOf(l) \o ChannelsOf(r)]

\* parallel (success path): duration is the max; channels concatenated and
\* sorted, with no dedup because the conflict check ran first.
ParallelNode(lhs, rhs) ==
  LET l == NodeAt(nodes, lhs)
      r == NodeAt(nodes, rhs)
  IN [kind |-> "Parallel", lhs |-> lhs, rhs |-> rhs,
      duration |-> IF l.duration >= r.duration THEN l.duration ELSE r.duration,
      channels |-> SortSeq(ChannelsOf(l) \o ChannelsOf(r), <)]

Conflict(lhs, rhs) ==
  HasIntersection(ChannelsOf(NodeAt(nodes, lhs)), ChannelsOf(NodeAt(nodes, rhs)))

(***************************************************************************)
(* Operations.                                                             *)
(***************************************************************************)
ArenaInit == nodes = <<>>

\* atomic / atomic_id: push an Atomic node.
Atomic(ch, d, p) ==
  /\ Len(nodes) < MaxNodes
  /\ nodes' = Append(nodes, AtomicNode(ch, d, p))

\* sequential (compose, Node.__matmul__): never fails, except that with
\* overflow checks a duration sum past the word panics before the push
\* (the host sees PanicException and the arena is unchanged: no step).
Sequential(lhs, rhs) ==
  /\ Len(nodes) < MaxNodes
  /\ OverflowChecks => SumFits(NodeAt(nodes, lhs).duration, NodeAt(nodes, rhs).duration)
  /\ nodes' = Append(nodes, SequentialNode(lhs, rhs))

\* parallel (parallel_compose, Node.__or__) when the channels are disjoint.
Parallel(lhs, rhs) ==
  /\ ~Conflict(lhs, rhs)
  /\ Len(nodes) < MaxNodes
  /\ nodes' = Append(nodes, ParallelNode(lhs, rhs))

\* parallel returning Err("... disjoint channels"): nothing is pushed.
ParallelRejected(lhs, rhs) ==
  /\ Conflict(lhs, rhs)
  /\ UNCHANGED nodes

\* CompilerContext::clear: empties the node vector.
ArenaClear == nodes' = <<>>

\* Every operation but clear: what a caller building morphisms does.
ArenaBuild ==
  \/ \E ch \in Channels, d \in Durations, p \in Payloads : Atomic(ch, d, p)
  \/ \E lhs, rhs \in NodeIds :
       \/ Sequential(lhs, rhs)
       \/ Parallel(lhs, rhs)
       \/ ParallelRejected(lhs, rhs)

ArenaNext == ArenaBuild \/ ArenaClear

ArenaSpec == ArenaInit /\ [][ArenaNext]_arenaVars

(***************************************************************************)
(* The meaning of a node, computed from the tree below it (reference      *)
(* definitions the precomputed metadata is compared with).                 *)
(***************************************************************************)
\* The channel ids of the Atomic leaves under `id'.
RECURSIVE LeafChannels(_, _)
LeafChannels(arena, id) ==
  LET n == NodeAt(arena, id) IN
  IF n.kind = "Atomic" THEN {n.channel_id}
  ELSE LeafChannels(arena, n.lhs) \cup LeafChannels(arena, n.rhs)

\* The duration the algebra gives `id': sum through Sequential, max
\* through Parallel.
RECURSIVE TreeDuration(_, _)
TreeDuration(arena, id) ==
  LET n == NodeAt(arena, id) IN
  IF n.kind = "Atomic" THEN n.duration
  ELSE LET dl == TreeDuration(arena, n.lhs)
           dr == TreeDuration(arena, n.rhs)
       IN IF n.kind = "Sequential" THEN dl + dr
          ELSE IF dl >= dr THEN dl ELSE dr

(***************************************************************************)
(* leaf_count and max_depth: explicit-stack walks (the top of the stack is *)
(* the last element), each subtree visited once per path that reaches it.  *)
(***************************************************************************)
RECURSIVE LeafCountWalk(_, _, _)
LeafCountWalk(arena, stack, count) ==
  IF stack = <<>> THEN count
  ELSE LET n == NodeAt(arena, Last(stack)) IN
       IF n.kind = "Atomic" THEN LeafCountWalk(arena, Front(stack), count + 1)
       ELSE LeafCountWalk(arena, Front(stack) \o <<n.rhs, n.lhs>>, count)

LeafCount(arena, root) == LeafCountWalk(arena, <<root>>, 0)

RECURSIVE MaxDepthWalk(_, _, _)
MaxDepthWalk(arena, stack, best) ==
  IF stack = <<>> THEN best
  ELSE LET id    == Last(stack)[1]
           d     == Last(stack)[2]
           n     == NodeAt(arena, id)
           best2 == IF best >= d THEN best ELSE d
       IN IF n.kind = "Atomic" THEN MaxDepthWalk(arena, Front(stack), best2)
          ELSE MaxDepthWalk(arena,
                            Front(stack) \o << <<n.rhs, d + 1>>, <<n.lhs, d + 1>> >>,
                            best2)

\* Plausible fault: the root pushed at depth 0 instead of 1.
MaxDepthFromZero(arena, root) == MaxDepthWalk(arena, << <<root, 0>> >>, 0)

MaxDepth(arena, root) == MaxDepthWalk(arena, << <<root, 1>> >>, 0)

\* Reference definitions: leaves counted per path, depth of the tree.
RECURSIVE PathLeaves(_, _)
PathLeaves(arena, id) ==
  LET n == NodeAt(arena, id) IN
  IF n.kind = "Atomic" THEN 1
  ELSE PathLeaves(arena, n.lhs) + PathLeaves(arena, n.rhs)

RECURSIVE TreeDepth(_, _)
TreeDepth(arena, id) ==
  LET n == NodeAt(arena, id) IN
  IF n.kind = "Atomic" THEN 1
  ELSE 1 + (IF TreeDepth(arena, n.lhs) >= TreeDepth(arena, n.rhs)
              THEN TreeDepth(arena, n.lhs) ELSE TreeDepth(arena, n.rhs))

(***************************************************************************)
(* Properties.                                                             *)
(***************************************************************************)
NodeRecords ==
  [kind : {"Atomic"}, channel_id : Channels, duration : Nat, payload : Payloads]
  \cup
  [kind : {"Sequential", "Parallel"}, lhs : Nat, rhs : Nat, duration : Nat,
   channels : Seq(Channels)]

TypeOK ==
  /\ nodes \in Seq(NodeRecords)
  /\ Len(nodes) <= MaxNodes
  \* children were created before their parent (the DAG is acyclic)
  /\ \A id \in NodeIds :
       NodeAt(nodes, id).kind # "Atomic" =>
         {NodeAt(nodes, id).lhs, NodeAt(nodes, id).rhs} \subseteq 0 .. (id - 1)

\* The metadata the combinators precompute (sequential, parallel) stays
\* sound over any sequence of compositions: every channel list is strictly
\* ascending and is exactly the set of leaf channels below the node, and
\* every duration is the one the algebra gives (spec 8), in exact
\* arithmetic: no sum wraps around the word.  The conflict check in
\* parallel trusts this of its inputs.
MetadataSound ==
  \A id \in NodeIds :
    /\ IsSorted(GetChannels(id), <)
    /\ ToSet(GetChannels(id)) = LeafChannels(nodes, id)
    /\ GetDuration(id) = TreeDuration(nodes, id)

\* Every Parallel node that parallel created has children acting on
\* disjoint sets of leaf channels: the two-pointer test on the stored lists
\* never lets an overlap through.
ParallelDisjoint ==
  \A id \in NodeIds :
    NodeAt(nodes, id).kind = "Parallel" =>
      LeafChannels(nodes, NodeAt(nodes, id).lhs)
        \cap LeafChannels(nodes, NodeAt(nodes, id).rhs) = {}

\* leaf_count and max_depth, walking the DAG with their own stacks rather
\* than recursion, agree on every handle with the tree they walk: shared
\* subtrees count once per path, and a lone Atomic has depth 1.
TreeMetricsCorrect ==
  \A root \in NodeIds :
    /\ LeafCount(nodes, root) = PathLeaves(nodes, root)
    /\ MaxDepth(nodes, root) = TreeDepth(nodes, root)

=============================================================================
