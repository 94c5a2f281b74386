---------------------------- MODULE ProgramArena ----------------------------
(***************************************************************************)
(* ProgramArena of catseq-rust (src/catseq-rust/src/program/): the store   *)
(* of control-flow nodes and symbolic values, two append-only vectors and  *)
(* a name -> ValueId map interning variables.  Handles are 0-based         *)
(* indexes.  Every constructor pushes one entry and returns its index;     *)
(* operator and type-hint strings are parsed by total functions that fall  *)
(* back to a default.  Handles given to constructors are ones the arena    *)
(* returned (spec 6: the core may assume so).                              *)
(***************************************************************************)
EXTENDS Integers, Sequences, SequencesExt, FiniteSets

CONSTANTS
  Names,       \* variable and function names
  HintStrs,    \* type-hint strings the host passes
  AluStrs,     \* binary operator strings
  UnaryStrs,   \* unary operator strings
  CmpStrs,     \* comparison operator strings
  LogicStrs,   \* logical operator strings
  Ints,        \* i64 values given to literal
  FloatBits,   \* f64 values given to literal_float, as their u64 bit patterns
  WordBits,    \* width of i64 / u64, scaled down
  Refs,        \* opaque morphism_ref values of Lift nodes
  Sources,     \* measurement sources (u32)
  MaxHints,    \* max_hint values of Delay nodes
  None,        \* Option::None
  MaxValues,   \* bound on the value vector
  MaxNodes,    \* bound on the node vector
  MaxList      \* bound on the length of a chain_sequence input

ASSUME WordBits \in Nat \ {0}
ASSUME Ints \subseteq -(2 ^ (WordBits - 1)) .. (2 ^ (WordBits - 1) - 1)
ASSUME FloatBits \subseteq 0 .. (2 ^ WordBits - 1)

VARIABLES
  values,     \* ProgramArena.values: Seq of value records
  pnodes,     \* ProgramArena.nodes: Seq of node records
  var_names   \* ProgramArena.var_names: interned name -> ValueId

vars == <<values, pnodes, var_names>>

ValueIds == 0 .. (Len(values) - 1)
PNodeIds == 0 .. (Len(pnodes) - 1)

(***************************************************************************)
(* String parsing (from_str(..).unwrap_or(default)).                       *)
(***************************************************************************)
Parse(table, s, default) == IF s \in DOMAIN table THEN table[s] ELSE default

TypeHintTable ==
  ("int32" :> "Int32") @@ ("i32" :> "Int32") @@ ("int64" :> "Int64")
  @@ ("i64" :> "Int64") @@ ("float32" :> "Float32") @@ ("f32" :> "Float32")
  @@ ("float64" :> "Float64") @@ ("f64" :> "Float64") @@ ("bool" :> "Bool")

AluTable ==
  ("+" :> "Add") @@ ("-" :> "Sub") @@ ("*" :> "Mul") @@ ("/" :> "Div")
  @@ ("%" :> "Mod") @@ ("&" :> "BitAnd") @@ ("|" :> "BitOr")
  @@ ("^" :> "BitXor") @@ ("<<" :> "Shl") @@ (">>" :> "Shr")

UnaryTable == ("-" :> "Neg") @@ ("!" :> "Not") @@ ("~" :> "BitNot")

CmpTable ==
  ("==" :> "Eq") @@ ("!=" :> "Ne") @@ ("<" :> "Lt") @@ ("<=" :> "Le")
  @@ (">" :> "Gt") @@ (">=" :> "Ge")

LogicTable ==
  ("and" :> "And") @@ ("&&" :> "And") @@ ("or" :> "Or") @@ ("||" :> "Or")
  @@ ("not" :> "Not") @@ ("!" :> "Not")

Init ==
  /\ values = <<>>
  /\ pnodes = <<>>
  /\ var_names = [n \in {} |-> 0]

\* ProgramArena::clear: both vectors and the intern map.
Clear ==
  /\ values' = <<>>
  /\ pnodes' = <<>>
  /\ var_names' = [n \in {} |-> 0]

(***************************************************************************)
(* Value constructors: push one value.                                     *)
(***************************************************************************)
PushValue(v) ==
  /\ Len(values) < MaxValues
  /\ values' = Append(values, v)
  /\ UNCHANGED <<pnodes, var_names>>

\* `u as i64' and `i as u64': two's-complement reinterpretation of a word.
AsI64(u) == IF u >= 2 ^ (WordBits - 1) THEN u - 2 ^ WordBits ELSE u

AsU64(i) == IF i < 0 THEN i + 2 ^ WordBits ELSE i

\* literal: ValueData::int.
Literal(x) == PushValue([kind |-> "Literal", value |-> x, is_float |-> FALSE])

\* literal_float: ValueData::float stores value.to_bits() as i64.
LiteralFloat(f) == PushValue([kind |-> "Literal", value |-> AsI64(f), is_float |-> TRUE])

\* Plausible fault: variable without the lookup, always pushing.
VariableNoLookup(name, hint) ==
  /\ Len(values) < MaxValues
  /\ values' = Append(values, [kind |-> "Variable", name |-> name,
                               type_hint |-> Parse(TypeHintTable, hint, "Int32")])
  /\ var_names' = (name :> Len(values)) @@ var_names
  /\ UNCHANGED pnodes

\* variable, a name already interned: its handle is returned, nothing changes.
VariableHit(name) ==
  /\ name \in DOMAIN var_names
  /\ UNCHANGED vars

\* variable, a new name: push it with the parsed hint and intern it.
Variable(name, hint) ==
  /\ name \notin DOMAIN var_names
  /\ Len(values) < MaxValues
  /\ values' = Append(values, [kind |-> "Variable", name |-> name,
                               type_hint |-> Parse(TypeHintTable, hint, "Int32")])
  /\ var_names' = (name :> Len(values)) @@ var_names
  /\ UNCHANGED pnodes

BinaryExpr(lhs, op, rhs) ==
  PushValue([kind |-> "BinaryExpr", lhs |-> lhs, op |-> Parse(AluTable, op, "Add"),
             rhs |-> rhs])

UnaryExpr(op, operand) ==
  PushValue([kind |-> "UnaryExpr", op |-> Parse(UnaryTable, op, "Neg"),
             operand |-> operand])

Condition(lhs, op, rhs) ==
  PushValue([kind |-> "Condition", lhs |-> lhs, op |-> Parse(CmpTable, op, "Eq"),
             rhs |-> rhs])

\* logical_expr: rhs is Option<ValueId> (None for "not").
LogicalExpr(lhs, op, rhs) ==
  PushValue([kind |-> "LogicalExpr", lhs |-> lhs, op |-> Parse(LogicTable, op, "And"),
             rhs |-> rhs])

(***************************************************************************)
(* Node constructors: push one node.                                       *)
(***************************************************************************)
PushNode(n) ==
  /\ Len(pnodes) < MaxNodes
  /\ pnodes' = Append(pnodes, n)
  /\ UNCHANGED <<values, var_names>>

ChainNode(l, r) == [kind |-> "Chain", left |-> l, right |-> r]

Lift(ref, params) == PushNode([kind |-> "Lift", morphism_ref |-> ref, params |-> params])
Delay(dur, hint) == PushNode([kind |-> "Delay", duration |-> dur, max_hint |-> hint])
SetVar(target, v) == PushNode([kind |-> "Set", target |-> target, value |-> v])
Chain(l, r) == PushNode(ChainNode(l, r))
Loop(count, body) == PushNode([kind |-> "Loop", count |-> count, body |-> body])
Match(subject, cases, default) ==
  PushNode([kind |-> "Match", subject |-> subject, cases |-> cases, default |-> default])
Apply(func, args) == PushNode([kind |-> "Apply", func |-> func, args |-> args])
FuncDef(name, params, body) ==
  PushNode([kind |-> "FuncDef", name |-> name, params |-> params, body |-> body])
Measure(target, source) ==
  PushNode([kind |-> "Measure", target |-> target, source |-> source])
IdentityNode == PushNode([kind |-> "Identity"])

(***************************************************************************)
(* chain_sequence: pairwise halving.  A round chains (c1, c2), (c3, c4),   *)
(* ... in order, pushing one Chain per pair, and carries an odd last       *)
(* element; rounds repeat until one handle is left.  Round returns the     *)
(* node vector and the next round's list.                                  *)
(***************************************************************************)
\* Plausible fault: an odd last element dropped instead of carried.
RECURSIVE RoundDropCarry(_, _, _)
RoundDropCarry(ns, cur, next) ==
  IF Len(cur) < 2 THEN [nodes |-> ns, next |-> next]
  ELSE RoundDropCarry(Append(ns, ChainNode(cur[1], cur[2])), Tail(Tail(cur)),
                      Append(next, Len(ns)))

RECURSIVE Round(_, _, _)
Round(ns, cur, next) ==
  IF cur = <<>> THEN [nodes |-> ns, next |-> next]
  ELSE IF Len(cur) >= 2
    THEN Round(Append(ns, ChainNode(cur[1], cur[2])), Tail(Tail(cur)),
               Append(next, Len(ns)))
  ELSE Round(ns, Tail(cur), Append(next, cur[1]))

RECURSIVE Reduce(_, _)
Reduce(ns, cur) ==
  IF Len(cur) <= 1 THEN ns
  ELSE LET r == Round(ns, cur, <<>>) IN Reduce(r.nodes, r.next)

\* chain_sequence on an empty list returns None; on one handle returns it.
ChainSequenceTrivial(list) ==
  /\ Len(list) <= 1
  /\ UNCHANGED vars

ChainSequence(list) ==
  /\ Len(list) >= 2
  /\ Len(pnodes) + Len(list) - 1 <= MaxNodes
  /\ pnodes' = Reduce(pnodes, list)
  /\ UNCHANGED <<values, var_names>>

(***************************************************************************)
(* Inputs: small sets of arguments over the handles that exist.            *)
(***************************************************************************)
OptValue == ValueIds \cup {None}
OptNode == PNodeIds \cup {None}
ParamMaps == {[n \in {} |-> 0]} \cup {(n :> v) : n \in Names, v \in ValueIds}
CaseMaps == {[k \in {} |-> 0]} \cup {(k :> b) : k \in Ints, b \in PNodeIds}
ValueLists == {<<>>} \cup {<<v>> : v \in ValueIds}
ChainLists == UNION {[1 .. k -> PNodeIds] : k \in 0 .. MaxList}

ValueStep ==
  \/ \E x \in Ints : Literal(x)
  \/ \E f \in FloatBits : LiteralFloat(f)
  \/ \E name \in Names : VariableHit(name) \/ \E h \in HintStrs : Variable(name, h)
  \/ \E l, r \in ValueIds :
       \/ \E op \in AluStrs : BinaryExpr(l, op, r)
       \/ \E op \in CmpStrs : Condition(l, op, r)
  \/ \E v \in ValueIds :
       \/ \E op \in UnaryStrs : UnaryExpr(op, v)
       \/ \E op \in LogicStrs, r \in OptValue : LogicalExpr(v, op, r)

NodeStep ==
  \/ \E ref \in Refs, ps \in ParamMaps : Lift(ref, ps)
  \/ \E v \in ValueIds :
       \/ \E h \in MaxHints \cup {None} : Delay(v, h)
       \/ \E w \in ValueIds : SetVar(v, w)
       \/ \E s \in Sources : Measure(v, s)
  \/ \E l, r \in PNodeIds : Chain(l, r)
  \/ \E b \in PNodeIds :
       \/ \E v \in ValueIds : Loop(v, b)
       \/ \E name \in Names, ps \in ValueLists : FuncDef(name, ps, b)
       \/ \E args \in ValueLists : Apply(b, args)
  \/ \E v \in ValueIds, cs \in CaseMaps, d \in OptNode : Match(v, cs, d)
  \/ IdentityNode
  \/ \E list \in ChainLists : ChainSequenceTrivial(list) \/ ChainSequence(list)

Next == ValueStep \/ NodeStep \/ Clear

Spec == Init /\ [][Next]_vars

(***************************************************************************)
(* Queries (arena.rs and ValueData): values.get(id), None when out of      *)
(* range; as_int only of int literals, as_float only of float literals,    *)
(* f64::from_bits(value as u64).                                           *)
(***************************************************************************)
GetValue(vals, id) == IF id \in 0 .. (Len(vals) - 1) THEN vals[id + 1] ELSE None

IsLiteral(vals, id) == GetValue(vals, id) # None /\ GetValue(vals, id).kind = "Literal"

IsVariable(vals, id) == GetValue(vals, id) # None /\ GetValue(vals, id).kind = "Variable"

GetLiteralInt(vals, id) ==
  IF IsLiteral(vals, id) /\ ~GetValue(vals, id).is_float
    THEN GetValue(vals, id).value ELSE None

GetLiteralFloat(vals, id) ==
  IF IsLiteral(vals, id) /\ GetValue(vals, id).is_float
    THEN AsU64(GetValue(vals, id).value) ELSE None

GetVariableName(vals, id) ==
  IF IsVariable(vals, id) THEN GetValue(vals, id).name ELSE None

(***************************************************************************)
(* Properties.                                                             *)
(***************************************************************************)
\* Variable interning (spec 8): var_names maps exactly the names of the
\* Variable values, each to the one Variable value of that name, over any
\* mix of value constructors and clears; so a second variable("x", h)
\* returns the first handle instead of pushing a second Variable, and no
\* name survives clear() to hand out a handle into the emptied vector.
VarInterning ==
  /\ DOMAIN var_names = {values[i].name : i \in {j \in DOMAIN values :
                                                    values[j].kind = "Variable"}}
  /\ \A n \in DOMAIN var_names :
       /\ IsVariable(values, var_names[n])
       /\ GetVariableName(values, var_names[n]) = n
  /\ \A i, j \in DOMAIN values :
       values[i].kind = "Variable" /\ values[j].kind = "Variable"
       /\ values[i].name = values[j].name => i = j

\* The handles under `id' reached through Chain nodes created at or after
\* index `from', left to right.
RECURSIVE ChainLeaves(_, _, _)
ChainLeaves(ns, id, from) ==
  IF id >= from /\ ns[id + 1].kind = "Chain"
    THEN ChainLeaves(ns, ns[id + 1].left, from) \o ChainLeaves(ns, ns[id + 1].right, from)
  ELSE <<id>>

RECURSIVE ChainDepth(_, _, _)
ChainDepth(ns, id, from) ==
  IF id >= from /\ ns[id + 1].kind = "Chain"
    THEN 1 + (IF ChainDepth(ns, ns[id + 1].left, from)
                   >= ChainDepth(ns, ns[id + 1].right, from)
                THEN ChainDepth(ns, ns[id + 1].left, from)
                ELSE ChainDepth(ns, ns[id + 1].right, from))
  ELSE 0

\* The least k with 2^k >= n.
CeilLog2(n) == CHOOSE k \in 0 .. n : 2 ^ k >= n /\ (k = 0 \/ 2 ^ (k - 1) < n)

\* chain_sequence over N >= 2 handles pushes N - 1 Chain nodes, the last
\* of which is the returned root; the new Chains hold the input handles in
\* their order, each exactly once, in a tree of depth ceil(log2 N).
ChainSequenceBalanced ==
  [][\A list \in ChainLists :
       ChainSequence(list) =>
         LET root == Len(pnodes') - 1 IN
         /\ Len(pnodes') = Len(pnodes) + Len(list) - 1
         /\ ChainLeaves(pnodes', root, Len(pnodes)) = list
         /\ ChainDepth(pnodes', root, Len(pnodes)) = CeilLog2(Len(list))]_vars

=============================================================================
