------------------------ MODULE MorphismPathAbstract ------------------------
(***************************************************************************)
(* What a MorphismPath promises (spec 4.4), without its bookkeeping: a     *)
(* path is a channel and an ordered list of steps.  Paths are only ever    *)
(* created whole (empty, one wait step, or a copy of another path) and     *)
(* then only grow at their end: by one step at a time, or by the steps of  *)
(* another path on the same channel.  A path never changes its channel,    *)
(* and no step already in a path is ever altered or removed.               *)
(***************************************************************************)
EXTENDS Naturals, Sequences

CONSTANTS PathIds, Channels, Steps, NoPath

VARIABLE apaths   \* PathIds -> NoPath or [channel, steps]

Init == apaths = [p \in PathIds |-> NoPath]

Live == {p \in PathIds : apaths[p] # NoPath}

\* A new path object: empty, holding steps s, or a copy of a live path.
Create(p) ==
  /\ apaths[p] = NoPath
  /\ \/ \E ch \in Channels, s \in {<<>>} \cup {<<x>> : x \in Steps} :
          apaths' = [apaths EXCEPT ![p] = [channel |-> ch, steps |-> s]]
     \/ \E q \in Live : apaths' = [apaths EXCEPT ![p] = apaths[q]]

\* One step added at the end.
Grow(p) ==
  /\ p \in Live
  /\ \E x \in Steps : apaths' = [apaths EXCEPT ![p].steps = Append(@, x)]

\* The steps of another path on the same channel added at the end.
Concat(p, q) ==
  /\ {p, q} \subseteq Live
  /\ p # q
  /\ apaths[p].channel = apaths[q].channel
  /\ apaths' = [apaths EXCEPT ![p].steps = @ \o apaths[q].steps]

\* The host lets go of a path.
Drop(p) ==
  /\ p \in Live
  /\ apaths' = [apaths EXCEPT ![p] = NoPath]

Next ==
  \E p \in PathIds :
    Create(p) \/ Grow(p) \/ Drop(p) \/ \E q \in PathIds : Concat(p, q)

Spec == Init /\ [][Next]_apaths

=============================================================================
