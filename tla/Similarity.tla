----------------------------- MODULE Similarity -----------------------------
(***************************************************************************)
(* The semantic signature of an annotation, the exact weighted Jaccard     *)
(* similarity of two signatures, the strength of a match, and the ranking  *)
(* of the neighbours of a schema, with the source-domain gate.             *)
(*                                                                         *)
(* A feature is a tuple whose first component is its class; the encoded    *)
(* feature (tag byte, length-prefixed components) and the tuple determine  *)
(* each other.                                                             *)
(***************************************************************************)
EXTENDS Meaning, FiniteSetsExt

Weight == [Event |-> 24, Field |-> 12, FieldIdns |-> 10, FieldUnit |-> 8, Idns |-> 6,
           Unit |-> 4, FieldEnum |-> 4, EnumMeaning |-> 3, FieldTemporal |-> 3, Temporal |-> 1]
Class(f) == f[1]

\* An attribute's own feature, and the compound one when the field has a
\* canonical_field_id.
WithField(cfid, plain, compound, v) ==
  {<<plain, v>>} \cup (IF cfid = None THEN {} ELSE {<<compound, cfid, v>>})
\* How often one field emits a feature: an enum meaning once per mapping.
Emits(sem, f) ==
  LET once(S) == IF f \in S THEN 1 ELSE 0
      meanings == IF sem.enum = None THEN {} ELSE DOMAIN sem.enum
  IN   (IF sem.cfid = None THEN 0 ELSE once({<<"Field", sem.cfid>>}))
     + (IF sem.idns = None THEN 0 ELSE once(WithField(sem.cfid, "Idns", "FieldIdns", sem.idns)))
     + (IF sem.unit = None THEN 0 ELSE once(WithField(sem.cfid, "Unit", "FieldUnit", sem.unit)))
     + (IF sem.temporal = None THEN 0
        ELSE IF sem.temporal.kind = None THEN 0
        ELSE once(WithField(sem.cfid, "Temporal", "FieldTemporal", sem.temporal.kind)))
     + Cardinality({i \in meanings :
          f \in WithField(sem.cfid, "EnumMeaning", "FieldEnum", sem.enum[i].meaning)})
FieldFeatures(sem) ==
  (IF sem.cfid = None THEN {} ELSE {<<"Field", sem.cfid>>})
  \cup (IF sem.idns = None THEN {} ELSE WithField(sem.cfid, "Idns", "FieldIdns", sem.idns))
  \cup (IF sem.unit = None THEN {} ELSE WithField(sem.cfid, "Unit", "FieldUnit", sem.unit))
  \cup (IF sem.temporal = None THEN {}
        ELSE IF sem.temporal.kind = None THEN {}
        ELSE WithField(sem.cfid, "Temporal", "FieldTemporal", sem.temporal.kind))
  \cup (IF sem.enum = None THEN {}
        ELSE UNION {WithField(sem.cfid, "EnumMeaning", "FieldEnum", sem.enum[i].meaning)
                      : i \in DOMAIN sem.enum})

\* semantic_signature: capped counts of path-independent features.
SemanticSignature(md) ==
  LET sems == {i \in DOMAIN md.fields : TRUE}
      keys == (IF md.event = None THEN {} ELSE {<<"Event", md.event>>})
                \cup UNION {FieldFeatures(md.fields[i].sem) : i \in sems}
      count(f) == (IF f = <<"Event", md.event>> THEN 1 ELSE 0)
                    + MapThenSumSet(LAMBDA i : Emits(md.fields[i].sem, f), sems)
  IN [features |-> [f \in keys |-> IF count(f) < CountCap THEN count(f) ELSE CountCap],
      event    |-> md.event,
      cfids    |-> {md.fields[i].sem.cfid : i \in sems} \ {None},
      idns     |-> {md.fields[i].sem.idns : i \in sems} \ {None}]
FeatureKeys(md) == DOMAIN SemanticSignature(md).features

----------------------------------------------------------------------------
(* Inverse document frequency *)

RECURSIVE Log2(_)
Log2(n) == IF n < 2 THEN 0 ELSE 1 + Log2(n \div 2)
IdfMultiplier(n, df) ==
  IF n < IdfMinPopulation \/ df = 0 THEN IdfMax
  ELSE LET l == Log2(n \div df) IN IF l < IdfMax THEN l ELSE IdfMax

Count(sig, f) == IF f \in DOMAIN sig.features THEN sig.features[f] ELSE 0
MinOf(x, y) == IF x < y THEN x ELSE y
MaxOf(x, y) == IF x < y THEN y ELSE x

\* idf is the function from features to multipliers the caller has read.
SimilarityWeighted(a, b, idf) ==
  LET keys == DOMAIN a.features \cup DOMAIN b.features
      w(f) == Weight[Class(f)] * idf[f]
  IN [numerator   |-> MapThenSumSet(LAMBDA f : w(f) * MinOf(Count(a, f), Count(b, f)), keys),
      denominator |-> MapThenSumSet(LAMBDA f : w(f) * MaxOf(Count(a, f), Count(b, f)), keys)]
\* Exact cross-multiplication; a score of nothing over nothing equals any other.
ScoreAbove(s, t) == s.numerator * t.denominator > t.numerator * s.denominator

IsAnchorCfid(c, idf) == c \notin Generic /\ idf[<<"Field", c>>] >= AnchorIdfMin
AnchorCfids(sig, idf) == {c \in sig.cfids : IsAnchorCfid(c, idf)}
SharedAnchors(a, b, idf) == AnchorCfids(a, idf) \cap AnchorCfids(b, idf)
\* Participation looks at the stop-list only, never at the corpus.
HasAnchor(sig) == sig.event # None \/ sig.cfids \ Generic # {} \/ sig.idns # {}

OverlappingTags(a, b) == {Class(f) : f \in DOMAIN a.features \cap DOMAIN b.features}
StrengthRank == [insufficient |-> 0, weak |-> 1, medium |-> 2, strong |-> 3]
StrengthWeighted(a, b, idf) ==
  LET shared == Cardinality(SharedAnchors(a, b, idf))
      fewest == MinOf(Cardinality(AnchorCfids(a, idf)), Cardinality(AnchorCfids(b, idf)))
      tags   == OverlappingTags(a, b)
      same   == a.event # None /\ a.event = b.event
      differ == a.event # None /\ b.event # None /\ a.event # b.event
  IN IF ~HasAnchor(a) \/ ~HasAnchor(b) THEN "insufficient"
     ELSE IF same \/ (shared >= 2 /\ shared * 2 >= fewest)
            THEN IF differ THEN "medium" ELSE "strong"
     ELSE IF shared >= 1 \/ (a.idns \cap b.idns # {} /\ tags \ {"Idns"} # {}) THEN "medium"
     ELSE IF tags \cap {"Unit", "Temporal", "EnumMeaning"} # {} THEN "weak"
     ELSE "insufficient"
SharedAnchorCount(a, b, idf) ==
  (IF a.event # None /\ a.event = b.event THEN 1 ELSE 0)
    + Cardinality(SharedAnchors(a, b, idf)) + Cardinality(a.idns \cap b.idns)

----------------------------------------------------------------------------
(* semantic_neighbors.rs and domain.rs *)

\* cmp_neighbors: strength, exact score, shared anchors, then the schema id,
\* whose order place gives.
RanksBefore(m, n, place) ==
  LET sm == StrengthRank[m.strength]
      sn == StrengthRank[n.strength]
  IN \/ sm > sn
     \/ sm = sn /\ ScoreAbove(m.score, n.score)
     \/ sm = sn /\ ~ScoreAbove(n.score, m.score) /\ m.anchors > n.anchors
     \/ /\ sm = sn /\ ~ScoreAbove(n.score, m.score) /\ ~ScoreAbove(m.score, n.score)
        /\ m.anchors = n.anchors /\ place[m.id] < place[n.id]

\* The postings a query searches: its features of some discriminative weight,
\* or all of them when none has any.
UnionKeys(sig, idf) ==
  LET kept == {f \in DOMAIN sig.features : idf[f] > 0}
  IN IF kept = {} THEN DOMAIN sig.features ELSE kept

\* The whole search over one snapshot: metas maps the annotated schemas to
\* their metadata, postings a feature to the schemas posted under it.
Neighbors(metas, postings, q, k, place) ==
  LET n == Cardinality(DOMAIN metas)
      sig == [s \in DOMAIN metas |-> SemanticSignature(metas[s])]
      posted(f) == IF f \in DOMAIN postings THEN postings[f] ELSE {}
      all == UNION {DOMAIN sig[s].features : s \in DOMAIN metas}
      idf == [f \in all |-> IdfMultiplier(n, Cardinality(posted(f)))]
      cands == UNION {posted(f) : f \in UnionKeys(sig[q], idf)}
      entry(s) == [id |-> s, strength |-> StrengthWeighted(sig[q], sig[s], idf),
                   score |-> SimilarityWeighted(sig[q], sig[s], idf),
                   anchors |-> SharedAnchorCount(sig[q], sig[s], idf)]
      found == {e \in {entry(s) : s \in (cands \ {q}) \cap DOMAIN metas} :
                  e.strength # "insufficient"}
      ranked == SetToSortSeq(found, LAMBDA m, o : RanksBefore(m, o, place))
  IN IF ~HasAnchor(sig[q]) THEN [outcome |-> "no_anchor", list |-> <<>>]
     ELSE IF Cardinality(cands) > MaxCandidates THEN [outcome |-> "too_broad", list |-> <<>>]
     ELSE [outcome |-> "found", list |-> SubSeq(ranked, 1, MinOf(k, Len(ranked)))]

Cluster == [compute |-> "tech", ai |-> "tech", registry |-> "tech", hw |-> "tech",
            energy |-> "energy", carbon |-> "energy", grid |-> "energy",
            geo |-> "geo", weather |-> "geo", env |-> "geo", space |-> "geo",
            civic |-> "civic", kg |-> "civic", transit |-> "transit", firehose |-> "social"]
\* A veto needs two known domains in different clusters.
DomainVeto(a, b) ==
  a \in DOMAIN Cluster /\ b \in DOMAIN Cluster /\ Cluster[a] # Cluster[b]
=============================================================================
