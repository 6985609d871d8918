----------------------------- MODULE MCUmbrella -----------------------------
(***************************************************************************)
(* Two schemas that carry a temperature, annotated in Celsius or Kelvin,   *)
(* or in the unit of a power by mistake; the second has a field without an *)
(* annotation beside it.                                                   *)
(***************************************************************************)
EXTENDS Umbrella, TLC

Ucum(code) == [system |-> "ucum", code |-> code]
Note(cfid, unit) == [cfid |-> cfid, unit |-> unit]
Leaf(key, type) == [path |-> <<key>>, types |-> <<type>>, elem |-> <<>>]
Root == [path |-> <<>>, types |-> <<"object">>, elem |-> <<>>]

mcPathOf == ("cfid_temp" :> <<"temp">>)
mcCfidOrder == <<"cfid_temp">>
mcChildren == <<"a", "b">>
mcNodesOf ==
  [a |-> <<Root, Leaf("t", "number")>>,
   b |-> <<Root, Leaf("air", "number"), Leaf("extra", "bool")>>]
mcNotes ==
  [a |-> {<<"t">> :> Note("cfid_temp", Ucum("Cel")), <<"t">> :> Note("cfid_temp", Ucum("K"))},
   b |-> {<<"air">> :> Note("cfid_temp", Ucum("K")), <<"air">> :> Note("cfid_temp", Ucum("W"))}]
mcFirstNote ==
  [a |-> <<"t">> :> Note("cfid_temp", Ucum("Cel")), b |-> <<"air">> :> Note("cfid_temp", Ucum("K"))]
mcClusterOf == [a |-> {"weather"}, b |-> {}]
mcLeavesOf == [a |-> <<"t">> :> [mask |-> {"small"}, count |-> 40], b |-> <<>>]
mcReadings == {<<1, 1>>, <<-55, 2>>}
Symmetry == Permutations(People)
mcGenericNames == {"id", "value"}

\* What the proofs about gold assume of paths and types holds here.
ASSUME GoldHypotheses == PathsApart /\ TypesAgree

----------------------------------------------------------------------------
(* What the operators of Projection promise *)

Decimal(p, q) == [ty |-> "decimal", n |-> <<p, q>>]
Gold(ty, required) == <<[cfid |-> "cfid_temp", path |-> <<"temp">>, ty |-> ty, of |-> "decimal",
                         unit |-> Ucum("K"), required |-> required]>>
Source(array) == <<[path |-> <<"t">>, ty |-> "decimal", array |-> array, unit |-> Ucum("Cel"), cfid |-> "cfid_temp"]>>
Binding(ops, onMissing) ==
  [bindings |-> <<[source |-> <<"t">>, target |-> <<"temp">>, ops |-> ops, onMissing |-> onMissing]>>]
ToKelvin == UnitConvert(Ucum("Cel"), Ucum("K"), <<"Cel", "K">>)
Nowhere == [p \in {} |-> Failed]
Temperature(v) == <<"t">> :> v

\* A default stands in for what is missing, and for nothing else; one that is
\* synthetic never satisfies a required field.  Whatever verify_static passes,
\* replay passes on events of the child's type.
ASSUME DefaultsFillGaps ==
  \A synthetic, required \in BOOLEAN : \A chain \in {<<>>, <<ToKelvin>>} :
    LET t == Binding(chain \o <<Default(Decimal(0, 1), synthetic)>>, "use_default")
        issues == VerifyStatic(t, Gold("decimal", required), Source(FALSE))
        gold(e) == CHOOSE g \in Apply(t, e) : TRUE
    IN /\ gold(Nowhere)[<<"temp">>] = Decimal(0, 1)
       /\ gold(Temperature(Decimal(20, 1)))[<<"temp">>] = ApplyOps(Decimal(20, 1), chain)
       /\ issues = (IF chain = <<>> /\ (~synthetic \/ ~required)
                     THEN (IF synthetic THEN {} ELSE {"bad_unit_op"})
                     ELSE IF chain = <<>> THEN {"synthetic_satisfies_required", "required_not_total"} ELSE {})
       /\ issues = {} => Replay(t, Gold("decimal", required), {Nowhere, Temperature(Decimal(20, 1))}) = {}

\* Inside an array verify_static checks nothing: that every element survives the
\* map is what replay finds out, sample by sample.
ASSUME ReplayLooksIntoArrays ==
  LET t == Binding(<<ArrayMap(<<ToKelvin>>)>>, "reject")
      list(vs) == Temperature([ty |-> "array", n |-> vs])
      good == list(<<Decimal(20, 1), Decimal(0, 1)>>)
      bad == list(<<Decimal(20, 1), [ty |-> "string", n |-> <<>>]>>)
  IN /\ VerifyStatic(t, Gold("array", TRUE), Source(TRUE)) = {}
     /\ Replay(t, Gold("array", TRUE), {good, bad, list(<<>>), Nowhere}) = {bad, Nowhere}

\* The lineage of a field shows the evidence the guard judged: what it reads
\* through the bindings of the stored transforms is what the guard read through
\* the ids, when all of them verify.
ASSUME LineageShowsTheEvidence ==
  \A na \in mcNotes.a, nb \in mcNotes.b :
    LET full == <<ChildFields(mcNodesOf.a, na), ChildFields(mcNodesOf.b, nb)>>
        members == [i \in 1..2 |-> Annotated(full[i])]
        fields == BuildUmbrella(mcCfidOrder, members)
        ts == [i \in 1..2 |-> AssembleTransform(members[i], fields)]
        leaves == <<mcLeavesOf.a, mcLeavesOf.b>>
    IN (\A i \in 1..2 : VerifyStatic(ts[i], fields, members[i]) = {}) =>
         \A k \in DOMAIN fields :
           BoundEvidence(fields[k], ts, full, leaves) = EvidenceFor(fields[k], members, leaves)

\* The guard does not depend on the order of the members, a contradiction needs
\* two well-supported members, and a shared name vouches for a field unless it is
\* a name that everything has.
Evidences == [name : {"t", "id"}, unit : {"Cel", "K"}, mask : {{}, {"small"}, {"large"}}, count : {29, 30},
              profile : BOOLEAN]
ASSUME GuardIsOneSided ==
  \A a, b \in Evidences :
    LET codes == EvaluateField(<<a, b>>)
    IN /\ codes = EvaluateField(<<b, a>>)
       /\ "contradictory" \in codes => \A m \in {a, b} : m.profile /\ m.count >= MinSupport /\ m.unit = a.unit
       /\ "name_corroborated" \in codes <=> a.name = b.name /\ a.name # "id"
       /\ "contradictory" \notin EvaluateField(<<a>>) /\ EvaluateField(<<a, a>>) \cap {"contradictory"} = {}
=============================================================================
