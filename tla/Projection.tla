----------------------------- MODULE Projection -----------------------------
(***************************************************************************)
(* Gold umbrellas and the projections into them: units and their           *)
(* conversion rules, the closed operators of a transform, its execution on *)
(* an event, its static verification, the assembly of transforms from      *)
(* annotated child fields and the name and value guard.                    *)
(*                                                                         *)
(* A path is a non-empty sequence of object keys, an event a function from *)
(* the paths of its leaves to values.  A value is [ty, n]: n is a number   *)
(* as a fraction <<p, q>>, or the elements of an array.  Fields and        *)
(* bindings come in sequences, in the order of the code's vectors.         *)
(***************************************************************************)
EXTENDS Integers, Sequences, FiniteSets, Orders
LOCAL INSTANCE SequencesExt

CONSTANTS
  NoUnit, NoCfid,
  PathOf,        \* the gold path of a canonical field id (build_umbrella)
  GenericNames,  \* GENERIC_NAMES
  MinSupport     \* umbrella_min_support

----------------------------------------------------------------------------
(* Types and units *)

Scalars == {"bool", "integer", "decimal", "string"}
Widens(a, b) == a = b \/ (a = "integer" /\ b = "decimal")

\* DIMENSIONS and RULES; a rule is named by the codes it joins, its factor is
\* the fraction num/den and its offset is in hundredths.
Dimensions ==
  [temperature |-> {"Cel", "K", "[degF]"}, pressure |-> {"Pa", "hPa", "kPa", "bar"},
   power |-> {"W", "kW", "MW", "GW"}, energy |-> {"J", "kW.h", "MW.h"},
   time |-> {"s", "min", "h"}, length |-> {"m", "km"}, dimensionless |-> {"1", "%"}]
Linear(from, to, num, den, offset) == [from |-> from, to |-> to, num |-> num, den |-> den, offset |-> offset]
Rules ==
  {Linear("Cel", "K", 1, 1, 27315), Linear("K", "Cel", 1, 1, -27315),
   Linear("hPa", "Pa", 100, 1, 0), Linear("Pa", "hPa", 1, 100, 0), Linear("kPa", "Pa", 1000, 1, 0),
   Linear("kW", "W", 1000, 1, 0), Linear("MW", "W", 1000000, 1, 0), Linear("GW", "W", 1000000000, 1, 0),
   Linear("W", "kW", 1, 1000, 0), Linear("W", "MW", 1, 1000000, 0),
   Linear("km", "m", 1000, 1, 0), Linear("m", "km", 1, 1000, 0),
   Linear("h", "s", 3600, 1, 0), Linear("min", "s", 60, 1, 0)}

\* dimension_of, rule and find_rule, as sets of at most one.
DimensionOf(u) ==
  IF u.system = "iso4217" THEN {"currency"} ELSE {d \in DOMAIN Dimensions : u.code \in Dimensions[d]}
RuleNamed(id) == {r \in Rules : <<r.from, r.to>> = id}
FindRule(from, to) == RuleNamed(<<from.code, to.code>>)

\* verify_conversion.  The rule of a currency converted into itself is not
\* looked at.
ConversionVerified(from, to, rule) ==
  IF "iso4217" \in {from.system, to.system} THEN from = to
  ELSE /\ DimensionOf(from) # {} /\ DimensionOf(from) = DimensionOf(to)
       /\ RuleNamed(rule) # {} /\ rule = <<from.code, to.code>>

\* Mutant: the offset of a rule is left out.
Bug_Convert(n, r) == <<n[1] * r.num, n[2] * r.den>>

Convert(n, r) == <<100 * n[1] * r.num + r.offset * n[2] * r.den, 100 * n[2] * r.den>>

----------------------------------------------------------------------------
(* Paths *)

ProperPrefix(p, q) == Len(p) < Len(q) /\ SubSeq(q, 1, Len(p)) = p

\* path::get: an inner node is an object, present and without a scalar type.
Object == [ty |-> "object", n |-> <<>>]
Lookup(event, p) ==
  IF p \in DOMAIN event THEN {event[p]}
  ELSE IF \E q \in DOMAIN event : ProperPrefix(p, q) THEN {Object} ELSE {}

\* path::set: what was below the path goes; fails across a leaf.
SetFails(event, p) == \E q \in DOMAIN event : ProperPrefix(q, p)
SetAt(event, p, v) ==
  [q \in {q \in DOMAIN event : ~ProperPrefix(p, q)} \cup {p} |-> IF q = p THEN v ELSE event[q]]

----------------------------------------------------------------------------
(* Execution *)

Cast(to) == [op |-> "cast", to |-> to]
UnitConvert(from, to, rule) == [op |-> "unit_convert", from |-> from, to |-> to, rule |-> rule]
Default(value, synthetic) == [op |-> "default", value |-> value, synthetic |-> synthetic]
ArrayMap(ops) == [op |-> "array_map", ops |-> ops]

\* The result of an op that fails.
Failed == [ty |-> "error", n |-> <<>>]

\* apply_ops on a scalar: one step of the chain.  Default is a no-op here.
ApplyScalarOp(v, op) ==
  CASE op.op = "cast" -> IF v.ty \in Scalars /\ Widens(v.ty, op.to) THEN v ELSE Failed
    [] op.op = "unit_convert" ->
         IF v.ty \in {"integer", "decimal"} /\ RuleNamed(op.rule) # {}
         THEN [ty |-> "decimal", n |-> Convert(v.n, CHOOSE r \in RuleNamed(op.rule) : TRUE)]
         ELSE Failed
    [] op.op = "default" -> v
    [] OTHER -> Failed
MapElement(v, ops) == FoldLeft(ApplyScalarOp, v, ops)
\* ... and on any value; an array_map inside an array_map is left out.
ApplyOp(v, op) ==
  IF v = Failed THEN Failed
  ELSE IF op.op # "array_map" THEN ApplyScalarOp(v, op)
  ELSE IF v.ty # "array" THEN Failed
  ELSE LET mapped == [i \in DOMAIN v.n |-> MapElement(v.n[i], op.ops)]
       IN IF \E i \in DOMAIN mapped : mapped[i] = Failed THEN Failed ELSE [v EXCEPT !.n = mapped]
ApplyOps(v, ops) ==
  LET after[n \in 0..Len(ops)] == IF n = 0 THEN v ELSE ApplyOp(after[n - 1], ops[n])
  IN after[Len(ops)]

\* default_value, of the first default of a binding.
DefaultOf(b) == LET ds == SelectSeq(b.ops, LAMBDA o : o.op = "default")
                IN IF ds = <<>> THEN Failed ELSE ds[1].value

\* apply: {} when the event is refused, else the set of the one gold event.
Empty == [p \in {} |-> Failed]
Written(b, event) ==
  IF Lookup(event, b.source) # {} THEN ApplyOps(CHOOSE v \in Lookup(event, b.source) : TRUE, b.ops)
  ELSE IF b.onMissing = "use_default" THEN DefaultOf(b) ELSE Failed
Omitted(b, event) == Lookup(event, b.source) = {} /\ b.onMissing = "omit"
Write(out, b, event) ==
  IF Omitted(b, event) THEN out
  ELSE {SetAt(o, b.target, Written(b, event)) :
          o \in {o \in out : Written(b, event) # Failed /\ ~SetFails(o, b.target)}}
Apply(transform, event) ==
  LET bs == transform.bindings
      out[n \in 0..Len(bs)] == IF n = 0 THEN {Empty} ELSE Write(out[n - 1], bs[n], event)
  IN out[Len(bs)]

----------------------------------------------------------------------------
(* Verification *)

\* UmbrellaSchema::field and the child field at a path, at most one each.
FieldAt(fields, p) ==
  LET at == {i \in DOMAIN fields : fields[i].path = p}
  IN {fields[i] : i \in {i \in at : \A j \in at : i <= j}}
IsArray(uf) == uf.ty = "array"

\* is_synthetic_only
IsSyntheticOnly(b) ==
  /\ b.onMissing = "use_default" /\ \E i \in DOMAIN b.ops : b.ops[i].op = "default" /\ b.ops[i].synthetic
  /\ \A i \in DOMAIN b.ops : b.ops[i].op = "default"

\* check_op_chain, the scalar part: type and unit after every op, and the issues.
ChainStep(acc, op) ==
  CASE op.op = "cast" ->
         [acc EXCEPT !.ty = op.to, !.issues = @ \cup (IF Widens(acc.ty, op.to) THEN {} ELSE {"lossy_cast"})]
    [] op.op = "unit_convert" ->
         [ty |-> "decimal", unit |-> op.to, issues |-> acc.issues \cup
            (IF acc.unit = op.from /\ ConversionVerified(op.from, op.to, op.rule) THEN {} ELSE {"bad_unit_op"})]
    [] OTHER -> acc
ChainEnd(child, ops) ==
  LET acc[n \in 0..Len(ops)] ==
        IF n = 0 THEN [ty |-> child.ty, unit |-> child.unit, issues |-> {}] ELSE ChainStep(acc[n - 1], ops[n])
  IN acc[Len(ops)]
CheckOpChain(child, uf, b) ==
  IF IsSyntheticOnly(b) THEN IF uf.required THEN {"synthetic_satisfies_required"} ELSE {}
  ELSE IF child.array \/ IsArray(uf) THEN IF child.array /\ IsArray(uf) THEN {} ELSE {"type_mismatch"}
  ELSE LET end == ChainEnd(child, b.ops)
       IN end.issues \cup (IF Widens(end.ty, uf.ty) THEN {} ELSE {"type_mismatch"})
            \cup (IF uf.unit \in {NoUnit, end.unit} THEN {} ELSE {"bad_unit_op"})

\* verify_static: the issues; a pass is the empty set.
BindingIssues(bs, i, fields, childFields) ==
  LET b == bs[i]
      child == FieldAt(childFields, b.source)
      target == FieldAt(fields, b.target)
  IN (IF child = {} THEN {"source_missing"} ELSE {})
     \cup (IF target = {} THEN {"unknown_target"} ELSE {})
     \cup (IF target # {} /\ \E j \in 1..(i - 1) : bs[j].target = b.target THEN {"duplicate_target"} ELSE {})
     \cup {"omit_on_required" : uf \in {uf \in target : b.onMissing = "omit" /\ uf.required}}
     \cup UNION {CheckOpChain(c, uf, b) : c \in child, uf \in target}
Total(bs, uf) ==
  \E i \in DOMAIN bs : bs[i].target = uf.path /\ bs[i].onMissing # "omit" /\ ~IsSyntheticOnly(bs[i])
VerifyStatic(transform, fields, childFields) ==
  LET bs == transform.bindings
  IN (IF \A k \in DOMAIN fields : fields[k].required => Total(bs, fields[k]) THEN {} ELSE {"required_not_total"})
     \cup UNION {BindingIssues(bs, i, fields, childFields) : i \in DOMAIN bs}

\* value_matches and validate_gold.
ValueMatches(uf, v) ==
  IF IsArray(uf) THEN v.ty = "array" /\ \A i \in DOMAIN v.n : v.n[i].ty \in Scalars /\ Widens(v.n[i].ty, uf.of)
  ELSE v.ty \in Scalars /\ Widens(v.ty, uf.ty)
ValidateGold(fields, event) ==
  \A k \in DOMAIN fields : LET found == Lookup(event, fields[k].path) IN
    IF found = {} THEN ~fields[k].required ELSE \A v \in found : ValueMatches(fields[k], v)

\* replay: the samples that fail.  Apply is a function, so it is deterministic.
Replay(transform, fields, samples) ==
  {e \in samples : Apply(transform, e) = {} \/ \E gold \in Apply(transform, e) : ~ValidateGold(fields, gold)}

----------------------------------------------------------------------------
(* Child fields *)

\* child_fields_from_schema.  A schema is the sequence of its nodes in the order
\* of the walk, each [path, types, elem]; notes maps a path to its annotation.
LeadingType(types) ==
  LET known == SelectSeq(types, LAMBDA t : t # "null")
  IN IF known # <<>> THEN known[1] ELSE IF types # <<>> THEN types[1] ELSE "none"
ScalarTypeOf(tag) == CASE tag = "bool" -> {"bool"} [] tag = "number" -> {"decimal"}
                       [] tag = "string" -> {"string"} [] OTHER -> {}
InTypes(node, t) == \E i \in DOMAIN node.types : node.types[i] = t
IsLeaf(nodes, i) ==
  ~(InTypes(nodes[i], "object") /\ \E j \in DOMAIN nodes : ProperPrefix(nodes[i].path, nodes[j].path))
LeafType(node) ==
  IF InTypes(node, "array")
  THEN IF ScalarTypeOf(LeadingType(node.elem)) = {} THEN {"string"} ELSE ScalarTypeOf(LeadingType(node.elem))
  ELSE ScalarTypeOf(LeadingType(node.types))
ChildFields(nodes, notes) ==
  LET leaves == ElementsAt(nodes, {i \in DOMAIN nodes :
                                   nodes[i].path # <<>> /\ IsLeaf(nodes, i) /\ LeafType(nodes[i]) # {}})
      field(n) == [path |-> n.path, ty |-> CHOOSE t \in LeafType(n) : TRUE, array |-> InTypes(n, "array"),
                   unit |-> IF n.path \in DOMAIN notes THEN notes[n.path].unit ELSE NoUnit,
                   cfid |-> IF n.path \in DOMAIN notes THEN notes[n.path].cfid ELSE NoCfid]
  IN [k \in DOMAIN leaves |-> field(leaves[k])]
Annotated(fields) == ElementsAt(fields, {i \in DOMAIN fields : fields[i].cfid # NoCfid})

----------------------------------------------------------------------------
(* Grouping and assembly *)

\* field_type_tag and the typed signature a cohort shares; it stands for the
\* umbrella's id, which is a hash of it.
FieldSig(fields) == {<<fields[i].cfid, fields[i].array, fields[i].ty>> : i \in DOMAIN fields}

\* build_umbrella: cfids in order; a type and a unit from the first member that
\* has the field.  The type is scalar even where the members have arrays.
Carriers(m, c) == {k \in DOMAIN m : m[k].cfid = c}
FirstCarrier(members, c) ==
  LET m == members[FirstOf({i \in DOMAIN members : Carriers(members[i], c) # {}})] IN m[FirstOf(Carriers(m, c))]
BuildUmbrella(cfids, members) ==
  [i \in DOMAIN cfids |->
     LET first == FirstCarrier(members, cfids[i])
     IN [cfid |-> cfids[i], path |-> PathOf[cfids[i]], ty |-> first.ty,
         of |-> "none", unit |-> first.unit, required |-> TRUE]]

\* unit_relation
UnitRelation(child, uf) ==
  IF child.unit = uf.unit THEN "same"
  ELSE IF NoUnit \in {child.unit, uf.unit} \/ FindRule(child.unit, uf.unit) = {} THEN "incompatible"
  ELSE "convertible"

\* enumerate, with DeterministicAnchor: the pairs it lets an assembly bind.
AutoBindable(child, uf) ==
  \/ UnitRelation(child, uf) = "convertible"
  \/ UnitRelation(child, uf) = "same" /\ ~IsArray(uf) /\ Widens(child.ty, uf.ty)
Enumerate(childFields, fields) ==
  LET same == {p \in (DOMAIN childFields) \X (DOMAIN fields) : childFields[p[1]].cfid = fields[p[2]].cfid}
      before == {pq \in same \X same : pq[1][1] < pq[2][1] \/ (pq[1][1] = pq[2][1] /\ pq[1][2] < pq[2][2])}
      at == InOrder(same, before)
  IN [k \in DOMAIN at |-> [child |-> childFields[at[k][1]], uf |-> fields[at[k][2]]]]

\* assemble_transform: the first accepted pair of a child field and of a target.
OpsFor(c, uf) ==
  (IF c.ty # uf.ty /\ Widens(c.ty, uf.ty) THEN <<Cast(uf.ty)>> ELSE <<>>)
  \o (IF UnitRelation(c, uf) = "convertible"
      THEN <<UnitConvert(c.unit, uf.unit, <<c.unit.code, uf.unit.code>>)>> ELSE <<>>)
BindingOf(pair) ==
  [source |-> pair.child.path, target |-> pair.uf.path, ops |-> OpsFor(pair.child, pair.uf),
   onMissing |-> IF pair.uf.required THEN "reject" ELSE "omit"]
Bind(bs, pair) ==
  IF \/ \E i \in DOMAIN bs : bs[i].source = pair.child.path \/ bs[i].target = pair.uf.path
     \/ ~AutoBindable(pair.child, pair.uf)
  THEN bs ELSE Append(bs, BindingOf(pair))
AssembleTransform(childFields, fields) ==
  LET pairs == Enumerate(childFields, fields)
      bound[n \in 0..Len(pairs)] == IF n = 0 THEN <<>> ELSE Bind(bound[n - 1], pairs[n])
      bs == bound[Len(pairs)]
  IN [bindings |-> bs,
      unmapped |-> {childFields[i].path : i \in DOMAIN childFields} \ {bs[i].source : i \in DOMAIN bs}]

----------------------------------------------------------------------------
(* The name and value guard *)

\* Members are [name, unit, mask, count, profile]: a normalized name, a set of
\* buckets, a number of observations and whether there is a profile.
NameCorroborated(members) ==
  /\ Len(members) >= 2 /\ members[1].name \notin GenericNames
  /\ \A i \in DOMAIN members : members[i].name = members[1].name
ValueVerdict(members) ==
  LET numeric == {i \in DOMAIN members :
                    members[i].profile /\ members[i].mask # {} /\ members[i].count >= MinSupport}
  IN IF Len(members) < 2 THEN "unknown"
     ELSE IF \E i \in DOMAIN members : members[i].unit # members[1].unit THEN "not_comparable"
     ELSE IF Cardinality(numeric) < 2 THEN "unknown"
     ELSE IF \E i, j \in numeric : members[i].mask \cap members[j].mask = {} THEN "contradictory"
     ELSE "compatible"
\* evaluate_field: the cause codes.
EvaluateField(members) ==
  {"cfid_exact", "type_compatible", ValueVerdict(members)}
    \cup (IF NameCorroborated(members) THEN {"name_corroborated"} ELSE {})

\* shadow_evaluate_guard: the members' evidence for a field,
\* from the leaf that carries its id.  leaves[i] is the profile of member i, a
\* function from paths, empty without one.
EvidenceFor(uf, members, leaves) ==
  LET carriers == SelectSeq([i \in DOMAIN members |-> i],
                            LAMBDA i : \E k \in DOMAIN members[i] : members[i][k].cfid = uf.cfid)
      of(i) == LET f == SelectSeq(members[i], LAMBDA c : c.cfid = uf.cfid)[1]
                   known == f.path \in DOMAIN leaves[i]
               IN [name |-> f.path[Len(f.path)], unit |-> f.unit, profile |-> DOMAIN leaves[i] # {},
                   mask |-> IF known THEN leaves[i][f.path].mask ELSE {},
                   count |-> IF known THEN leaves[i][f.path].count ELSE 0]
  IN [k \in DOMAIN carriers |-> of(carriers[k])]
\* get_field_lineage: the same evidence, from the bindings of the stored
\* transforms and each child's current fields (child_info).
BoundEvidence(uf, ts, children, leaves) ==
  LET of(i) ==
        LET bound == SelectSeq(ts[i].bindings, LAMBDA b : b.target = uf.path)
            unit(p) == {f.unit : f \in FieldAt(children[i], p)}
            row(p) == [name |-> p[Len(p)], unit |-> IF unit(p) = {} THEN NoUnit ELSE CHOOSE u \in unit(p) : TRUE,
                       profile |-> DOMAIN leaves[i] # {},
                       mask |-> IF p \in DOMAIN leaves[i] THEN leaves[i][p].mask ELSE {},
                       count |-> IF p \in DOMAIN leaves[i] THEN leaves[i][p].count ELSE 0]
        IN [k \in DOMAIN bound |-> row(bound[k].source)]
  IN FlattenSeq([i \in DOMAIN ts |-> of(i)])
Contradicted(fields, members, leaves) ==
  \E k \in DOMAIN fields : ValueVerdict(EvidenceFor(fields[k], members, leaves)) = "contradictory"
=============================================================================
