---------------------------- MODULE MorphismPath ----------------------------
(***************************************************************************)
(* MorphismPath of catseq-rust (src/catseq-rust/src/path.rs): a single-    *)
(* channel list of (duration, opcode, payload) steps with a running        *)
(* total_duration, built up by the host through append, extend, identity, *)
(* align and clone, and read through PathIterator.                         *)
(*                                                                         *)
(* The host holds path objects; PathIds are the slots such objects occupy  *)
(* (NoPath when none), IterIds the slots of live iterators.  Payload bytes *)
(* are opaque: model values, with NoData for the empty Vec of wait steps.  *)
(*                                                                         *)
(* total_duration is a u64, scaled to TimeBits bits.  append and extend    *)
(* add with +=, after the steps are pushed: a build with overflow checks   *)
(* (OverflowChecks) panics there, which the host sees as an exception      *)
(* while the object keeps the pushed steps; a release build wraps.         *)
(***************************************************************************)
EXTENDS Integers, Sequences, SequencesExt

CONSTANTS
  PathIds,     \* slots for MorphismPath objects held by the host
  IterIds,     \* slots for PathIterator objects
  Channels,    \* channel ids (u32)
  Durations,   \* durations given to append and identity
  Targets,     \* target durations given to align
  Opcodes,     \* opcodes (u16)
  Payloads,    \* opaque payloads given to append
  NoData,      \* the empty payload of wait steps
  NoPath,      \* an empty slot
  MaxSteps,    \* bound on the number of steps of a path
  TimeBits,    \* width of the u64 time word, scaled down
  OverflowChecks  \* TRUE: debug build (overflow panics); FALSE: release (wraps)

ASSUME TimeBits \in Nat \ {0} /\ OverflowChecks \in BOOLEAN
ASSUME Durations \cup Targets \subseteq 0 .. (2 ^ TimeBits - 1)
ASSUME MaxSteps \in Nat

VARIABLES
  paths,   \* PathIds -> NoPath or [channel_id, steps, total_duration]
  iters    \* IterIds -> NoPath or [path, index]

vars == <<paths, iters>>

\* struct Step
Step(d, op, data) == [duration |-> d, opcode |-> op, payload |-> data]

\* MorphismPath::new / with_capacity (capacity is not observable)
NewPath(ch) == [channel_id |-> ch, steps |-> <<>>, total_duration |-> 0]

Live == {p \in PathIds : paths[p] # NoPath}

TimeModulus == 2 ^ TimeBits

\* `total_duration += d' once the steps are in: the old total when the
\* debug build's overflow check panics, the sum modulo the word otherwise.
AddAfterPush(total, d) ==
  IF OverflowChecks /\ total + d >= TimeModulus THEN total
  ELSE (total + d) % TimeModulus

\* `target - total' in u64: wraps below zero in a release build.
TimeSub(a, b) == (a - b) % TimeModulus

Free(p) == paths[p] = NoPath

Init ==
  /\ paths = [p \in PathIds |-> NoPath]
  /\ iters = [i \in IterIds |-> NoPath]

(***************************************************************************)
(* Constructors: a new object takes a free slot.                           *)
(***************************************************************************)
New(p, ch) ==
  /\ Free(p)
  /\ paths' = [paths EXCEPT ![p] = NewPath(ch)]
  /\ UNCHANGED iters

\* identity: one wait step of the duration, or an empty path for 0.
Identity(p, ch, d, op) ==
  /\ Free(p)
  /\ paths' = [paths EXCEPT ![p] =
                 IF d > 0
                   THEN [channel_id |-> ch, steps |-> <<Step(d, op, NoData)>>,
                         total_duration |-> d]
                   ELSE NewPath(ch)]
  /\ UNCHANGED iters

\* py_clone: a copy sharing the payloads.
Clone(p, q) ==
  /\ p \in Live
  /\ Free(q)
  /\ paths' = [paths EXCEPT ![q] = paths[p]]
  /\ UNCHANGED iters

(***************************************************************************)
(* Mutators.                                                               *)
(***************************************************************************)
\* append: push the step, then add its duration.
AppendStep(p, d, op, data) ==
  /\ p \in Live
  /\ Len(paths[p].steps) < MaxSteps
  /\ paths' = [paths EXCEPT ![p].steps = Append(@, Step(d, op, data)),
                            ![p].total_duration = AddAfterPush(@, d)]
  /\ UNCHANGED iters

\* Plausible fault: extend that copies the steps but not the duration.
ExtendKeepTotal(p, q) ==
  /\ {p, q} \subseteq Live
  /\ p # q
  /\ paths[p].channel_id = paths[q].channel_id
  /\ Len(paths[p].steps) + Len(paths[q].steps) <= MaxSteps
  /\ paths' = [paths EXCEPT ![p].steps = @ \o paths[q].steps]
  /\ UNCHANGED iters

\* Plausible fault: extend without the channel check.
ExtendAnyChannel(p, q) ==
  /\ {p, q} \subseteq Live
  /\ p # q
  /\ Len(paths[p].steps) + Len(paths[q].steps) <= MaxSteps
  /\ paths' = [paths EXCEPT ![p].steps = @ \o paths[q].steps,
                            ![p].total_duration =
                              AddAfterPush(@, paths[q].total_duration)]
  /\ UNCHANGED iters

\* extend with matching channels.  p.extend(p) never gets here: the host
\* binding cannot lend the object as `other' while it is borrowed mutably
\* as `self', and raises instead (ExtendSelfRejected).
Extend(p, q) ==
  /\ {p, q} \subseteq Live
  /\ p # q
  /\ paths[p].channel_id = paths[q].channel_id
  /\ Len(paths[p].steps) + Len(paths[q].steps) <= MaxSteps
  /\ paths' = [paths EXCEPT ![p].steps = @ \o paths[q].steps,
                            ![p].total_duration =
                              AddAfterPush(@, paths[q].total_duration)]
  /\ UNCHANGED iters

\* extend returning Err("Channel mismatch ..."): nothing changes.
ExtendMismatch(p, q) ==
  /\ {p, q} \subseteq Live
  /\ paths[p].channel_id # paths[q].channel_id
  /\ UNCHANGED vars

ExtendSelfRejected(p) ==
  /\ p \in Live
  /\ UNCHANGED vars

\* Plausible fault: align without its `total < target' test, so that a
\* path already past the target underflows (wraps in a release build).
AlignPadUnguarded(p, target, op) ==
  /\ p \in Live
  /\ Len(paths[p].steps) < MaxSteps
  /\ OverflowChecks => paths[p].total_duration <= target
  /\ paths' = [paths EXCEPT
                 ![p].steps = Append(@, Step(TimeSub(target, paths[p].total_duration),
                                             op, NoData)),
                 ![p].total_duration = target]
  /\ UNCHANGED iters

\* align when the path is shorter than the target: one wait step of the
\* difference, and the total set to the target.
AlignPad(p, target, op) ==
  /\ p \in Live
  /\ paths[p].total_duration < target
  /\ Len(paths[p].steps) < MaxSteps
  /\ paths' = [paths EXCEPT
                 ![p].steps = Append(@, Step(TimeSub(target, paths[p].total_duration),
                                             op, NoData)),
                 ![p].total_duration = target]
  /\ UNCHANGED iters

\* align when the path already reaches the target: a no-op.
AlignNoop(p, target) ==
  /\ p \in Live
  /\ paths[p].total_duration >= target
  /\ UNCHANGED vars

(***************************************************************************)
(* PathIterator: __iter__ clones the path; __next__ walks the copy.        *)
(***************************************************************************)
Iter(p, i) ==
  /\ p \in Live
  /\ iters[i] = NoPath
  /\ iters' = [iters EXCEPT ![i] = [path |-> paths[p], index |-> 0]]
  /\ UNCHANGED paths

IterNext(i) ==
  /\ iters[i] # NoPath
  /\ iters[i].index < Len(iters[i].path.steps)
  /\ iters' = [iters EXCEPT ![i].index = @ + 1]
  /\ UNCHANGED paths

\* The host drops an object: its slot becomes free.
DropPath(p) ==
  /\ p \in Live
  /\ paths' = [paths EXCEPT ![p] = NoPath]
  /\ UNCHANGED iters

DropIter(i) ==
  /\ iters[i] # NoPath
  /\ iters' = [iters EXCEPT ![i] = NoPath]
  /\ UNCHANGED paths

Next ==
  \/ \E p \in PathIds, ch \in Channels :
       \/ New(p, ch)
       \/ \E d \in Durations, op \in Opcodes : Identity(p, ch, d, op)
  \/ \E p, q \in PathIds : Clone(p, q) \/ Extend(p, q) \/ ExtendMismatch(p, q)
  \/ \E p \in PathIds :
       \/ ExtendSelfRejected(p)
       \/ DropPath(p)
       \/ \E d \in Durations, op \in Opcodes, data \in Payloads :
            AppendStep(p, d, op, data)
       \/ \E t \in Targets : AlignNoop(p, t) \/ \E op \in Opcodes : AlignPad(p, t, op)
       \/ \E i \in IterIds : Iter(p, i)
  \/ \E i \in IterIds : IterNext(i) \/ DropIter(i)

Spec == Init /\ [][Next]_vars

(***************************************************************************)
(* Properties.                                                             *)
(***************************************************************************)
StepDurationSum(s) == FoldLeft(LAMBDA acc, x : acc + x.duration, 0, s)

\* total_duration, the u64 updated incrementally by append, extend,
\* identity and align, always equals the exact sum of the durations of the
\* path's steps, also in the copies clone and __iter__ take: no update may
\* wrap, panic half-way, or pad a path that is already past its target.
TotalDurationIsSum ==
  /\ \A p \in Live : paths[p].total_duration = StepDurationSum(paths[p].steps)
  /\ \A i \in IterIds :
       iters[i] # NoPath =>
         iters[i].path.total_duration = StepDurationSum(iters[i].path.steps)

\* Every path implements the abstract path of spec 4.4: created whole, then
\* grown only at its end, by one step or by another path of its channel.
StepSet ==
  [duration : 0 .. (TimeModulus - 1), opcode : Opcodes, payload : Payloads \cup {NoData}]

Abstract == INSTANCE MorphismPathAbstract
              WITH apaths <- [p \in PathIds |->
                                IF paths[p] = NoPath THEN NoPath
                                ELSE [channel |-> paths[p].channel_id,
                                      steps |-> paths[p].steps]],
                   Steps <- StepSet

ImplementsAbstractPath == Abstract!Spec

=============================================================================
