---------------------------- MODULE MCSemantics ----------------------------
(***************************************************************************)
(* Two schemas of one family, two clients, three pieces of metadata that   *)
(* put_semantic lets through: "plain" and "rewritten" say the same thing   *)
(* in different words (a key in another Unicode form, a number with        *)
(* trailing zeros, an attribute that says nothing), "other" differs.       *)
(***************************************************************************)
EXTENDS SemanticStore, Similarity, TLC

mcNfc == [k \in {"e", "e_decomposed", "qty"} |-> IF k = "e_decomposed" THEN "e" ELSE k]
mcRegistered == [cfid |-> {"cfid_price", "cfid_name"}, event |-> {"sale"}, unit |-> {"EUR"},
                 idns |-> {"acme.customer_id"}, vocab |-> {"deblob/order-status/v1"}]
Silent == [cfid |-> None, idns |-> None, unit |-> None, scale |-> None, temporal |-> None, enum |-> None]
Status(digits, exp) ==
  <<[value |-> [type |-> "number", v |-> [neg |-> FALSE, digits |-> digits, exp |-> exp]],
     meaning |-> [vocab |-> "deblob/order-status/v1", code |-> "open"]]>>
Priced(enum) == [Silent EXCEPT !.cfid = "cfid_price", !.unit = "EUR", !.enum = enum]
Metadata ==
  [plain |-> [event |-> None, fields |-> <<[path |-> <<Key("e")>>, sem |-> Priced(Status(1, 0))]>>],
   rewritten |-> [event |-> None, fields |->
      <<[path |-> <<Key("qty")>>,
         sem |-> [Silent EXCEPT !.temporal = [kind |-> None, epoch |-> None, resolution |-> None]]],
        [path |-> <<Key("e_decomposed")>>, sem |-> Priced(Status(10, -1))]>>],
   other |-> [event |-> "sale", fields |-> <<[path |-> <<Key("qty")>>,
                sem |-> [Silent EXCEPT !.cfid = "cfid_name", !.unit = "EUR"]]>>]]
Leaf(t) == [t |-> t]
MCShapes ==
  [s1 |-> [grammar |-> "canon", root |-> [t |-> "obj",
             f |-> [k \in {"e", "e_decomposed", "qty"} |-> Leaf("num")]]],
   s2 |-> [grammar |-> "canon", root |-> [t |-> "obj",
             f |-> [k \in {"e", "e_decomposed", "qty"} |-> Leaf("num")]]]]

mcMetas == {"plain", "rewritten", "other"}
mcSemOf == [m \in mcMetas |-> IF m = "rewritten" THEN "plain" ELSE m]
\* Features that the same metadata emit are posted alike: one key stands for
\* all of them.
mcKeysOf == [m \in mcMetas |-> IF m = "other" THEN {"of_other", "shared"} ELSE {"of_plain", "shared"}]
mcAllowed == Schemas \X mcMetas

\* The names above agree with what the code computes of the metadata.
ASSUME NamesAgree ==
  LET emitters(f) == {n \in mcMetas : f \in FeatureKeys(Metadata[n])}
      named(k) == {n \in mcMetas : k \in mcKeysOf[n]}
  IN /\ \A m, n \in mcMetas : (mcSemOf[m] = mcSemOf[n])
            <=> (SemanticFingerprint(Metadata[m]) = SemanticFingerprint(Metadata[n]))
     /\ \A m \in mcMetas : {emitters(f) : f \in FeatureKeys(Metadata[m])} = {named(k) : k \in mcKeysOf[m]}
     /\ \A s \in Schemas, m \in mcMetas : ~PutRefused(MCShapes[s], Metadata[m])

mcPriors == [s \in Schemas |-> IF s = "s2" THEN {"s1"} ELSE {}]
mcGeneric == {"cfid_name"}
mcSymmetry == Permutations(Clients)

----------------------------------------------------------------------------
(* What the operators of Meaning and Similarity promise, over schemas of both
   grammars and a population of annotations *)

Object(fields) == [grammar |-> "canon", root |-> [t |-> "obj", f |-> fields]]
Array(elements) == [t |-> "arr", of |-> elements]
Seen(types) == [types |-> types, children |-> [k \in {} |-> 0], elem |-> {}]
Generalized(children) == [grammar |-> "monoid", root |-> [Seen({"obj"}) EXCEPT !.children = children]]
LawSchemas ==
  { Object([qty |-> Leaf("num")]), Object([qty |-> Leaf("str")]),
    Object([qty |-> Leaf("num"), e |-> Leaf("str")]), Object([qty |-> Array(<<>>)]),
    Object([qty |-> Array(<<Leaf("num"), Leaf("str")>>)]), Object([qty |-> Array(<<Leaf("str"), Leaf("num")>>)]),
    Generalized([qty |-> Seen({"num"})]), Generalized([qty |-> Seen({"num", "str"})]),
    Generalized([qty |-> [Seen({"arr"}) EXCEPT !.elem = {Seen({"num"})}]]) }

\* Every path that has a type may be annotated; an empty array is the one place
\* where a path may be annotated and has no type.  A generalized schema and the
\* shape of the document it stands for give every path the same type.
ASSUME TypedPathsAreFieldPaths ==
  /\ \A s \in LawSchemas :
       LET untyped == CanonicalFieldPaths(s) \ DOMAIN TypedPathsFor(s)
       IN /\ DOMAIN TypedPathsFor(s) \subseteq CanonicalFieldPaths(s)
          /\ untyped # {} => s = Object([qty |-> Array(<<>>)]) /\ untyped = {<<Key("qty"), Wildcard>>}
  /\ TypedPathsFor(Object([qty |-> Leaf("num")])) = TypedPathsFor(Generalized([qty |-> Seen({"num"})]))

\* How two schemas relate, whether their meanings drifted apart and how hard they
\* collide does not depend on which of them came first, and no schema drifts from
\* itself or from a schema whose shared fields changed type.
ASSUME RelationsAreSymmetric ==
  \A a, b \in LawSchemas :
    /\ StructuralRelation(a, b) = StructuralRelation(b, a)
    /\ StructuralRelation(a, a) = "compatible"
    /\ \A x, y \in {None, "m1", "m2"} :
         /\ DetectSemanticDrift(a, x, b, y) <=> DetectSemanticDrift(b, y, a, x)
         /\ ~DetectSemanticDrift(a, x, a, x)
    /\ \A m \in mcMetas :
         /\ ClassifySemanticCollision(Metadata[m], a, b) = ClassifySemanticCollision(Metadata[m], b, a)
         /\ CollisionStrength(Metadata[m], a, b) = "strong" =>
              \A s \in {a, b} : Coverage(Metadata[m], s).annotated > 0

\* Six annotated schemas: two that mean the same, three of one event, one of them
\* with the fields of the former, and two that share an identifier's namespace;
\* all but one have a unit in common.
Identified == [Silent EXCEPT !.idns = "acme.customer_id"]
Population ==
  <<Metadata["plain"], Metadata["rewritten"],
    [event |-> None, fields |-> <<[path |-> <<Key("qty")>>, sem |-> [Identified EXCEPT !.unit = "EUR"]]>>],
    Metadata["other"],
    [event |-> "sale", fields |-> <<[path |-> <<Key("e")>>, sem |-> Identified]>>],
    [event |-> "sale", fields |-> Metadata["plain"].fields]>>
PopSig == [s \in DOMAIN Population |-> SemanticSignature(Population[s])]
PopPostings == [f \in UNION {DOMAIN PopSig[s].features : s \in DOMAIN PopSig} |->
                  {s \in DOMAIN PopSig : f \in DOMAIN PopSig[s].features}]
PopIdf(n) == [f \in DOMAIN PopPostings |-> IdfMultiplier(n, Cardinality(PopPostings[f]))]
Place == [s \in DOMAIN Population |-> s]

\* Similarity and strength are symmetric, a signature is wholly similar to
\* itself, and with too few schemas for frequencies to mean anything all
\* features count alike.
ASSUME SimilarityIsSymmetric ==
  \A n \in {2, 6} : \A a, b \in DOMAIN PopSig :
    LET score == SimilarityWeighted(PopSig[a], PopSig[b], PopIdf(n))
        self == SimilarityWeighted(PopSig[a], PopSig[a], PopIdf(n))
    IN /\ score = SimilarityWeighted(PopSig[b], PopSig[a], PopIdf(n))
       /\ score.numerator <= score.denominator /\ self.numerator = self.denominator
       /\ StrengthWeighted(PopSig[a], PopSig[b], PopIdf(n)) = StrengthWeighted(PopSig[b], PopSig[a], PopIdf(n))
       /\ n < IdfMinPopulation => \A f \in DOMAIN PopPostings : PopIdf(n)[f] = IdfMax

\* The neighbours found through the postings are those a search of the whole
\* population finds (among the schemas that share a feature of some weight),
\* strictly ranked, without the query, and fewer are a prefix of more.
ASSUME NeighborsAreExact ==
  \A q \in DOMAIN Population :
    LET answer(k) == Neighbors(Population, PopPostings, q, k, Place)
        idf == PopIdf(Cardinality(DOMAIN Population))
        entry(s) == [id |-> s, strength |-> StrengthWeighted(PopSig[q], PopSig[s], idf),
                     score |-> SimilarityWeighted(PopSig[q], PopSig[s], idf),
                     anchors |-> SharedAnchorCount(PopSig[q], PopSig[s], idf)]
        shares(s) == UnionKeys(PopSig[q], idf) \cap DOMAIN PopSig[s].features # {}
        list == answer(5).list
    IN /\ Range(list) = {entry(s) : s \in {x \in DOMAIN Population \ {q} :
                             shares(x) /\ entry(x).strength # "insufficient"}}
       /\ \A i, j \in DOMAIN list : i < j <=> RanksBefore(list[i], list[j], Place)
       /\ \A k \in 0..5 : answer(k).list = SubSeq(list, 1, MinOf(k, Len(list)))
       /\ answer(5).outcome = "found"

\* Two domains veto a match whichever comes first, and none vetoes itself.
ASSUME VetoIsSymmetric ==
  \A a, b \in DOMAIN Cluster \cup {"unheard_of"} :
    /\ DomainVeto(a, b) <=> DomainVeto(b, a)
    /\ ~DomainVeto(a, a) /\ ~DomainVeto(a, "unheard_of")
=============================================================================
