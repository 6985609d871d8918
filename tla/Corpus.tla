------------------------------- MODULE Corpus -------------------------------
(***************************************************************************)
(* The synthetic corpus: base families, the cases derived from them with   *)
(* the labels their transformation decides, and the curation of the train  *)
(* side into a replay set.                                                 *)
(*                                                                         *)
(* A family is [index, fields, schema, partition]: fields in name order,   *)
(* schema a number that stands for the fingerprint of the fields and their *)
(* types (its order is the order of the id strings), index counted from    *)
(* zero.  A distance is a fraction <<n, d>>.  What the random generator    *)
(* draws is an argument.                                                   *)
(***************************************************************************)
EXTENDS Evaluation, Orders, SequencesExt

CONSTANTS
  FieldPool,      \* FIELD_POOL: the fields in name order
  TypesOf,        \* a field's type_label, then those of the fields nested in it
  NovelTemplates, \* NOVEL_TEMPLATES: sequences of fields outside the pool
  Draws,          \* what sample_fields may draw
  Variants,       \* GenerateConfig::variants_per_family
  MaxFamilies,    \* GenerateConfig::families
  MaxEasy         \* CurationConfig::max_easy_positives_per_family

Types == {"array", "bool", "number", "object", "string"}
ASSUME CorpusAssumption ==
  /\ \A f \in DOMAIN TypesOf : TypesOf[f] \in Seq(Types)
  /\ FieldPool \in Seq(DOMAIN TypesOf) /\ FieldPool # <<>>
  /\ NovelTemplates \in Seq(Seq(DOMAIN TypesOf)) /\ NovelTemplates # <<>>
  /\ Variants \in Nat /\ MaxFamilies \in Nat /\ MaxEasy \in Nat

Elements(s) == {s[i] : i \in DOMAIN s}
Numeric(fields) == \E f \in Elements(fields) : TypesOf[f][1] = "number"

VARIABLES samples, \* the drawn fields and the schema id of every family so far
          corpus   \* its cases, none until they are generated
corpusVars == <<samples, corpus>>

----------------------------------------------------------------------------
(* Families *)

\* sample_fields: every sample has a number, in place of its last field if need
\* be, and is in name order.
NumericAt == {i \in DOMAIN FieldPool : TypesOf[FieldPool[i]][1] = "number"}
SampleFields(drawn) ==
  LET sample == IF Numeric(drawn) THEN Elements(drawn)
                ELSE Elements(SubSeq(drawn, 1, Len(drawn) - 1)) \cup {FieldPool[FirstOf(NumericAt)]}
  IN ElementsAt(FieldPool, {i \in DOMAIN FieldPool : FieldPool[i] \in sample})

\* assign_partitions: a fifth of the families, rounded, is held out.
HoldoutCount(n) == (2 * n + 5) \div 10
IsPartition(holdout, n) == holdout \subseteq 0..(n - 1) /\ Cardinality(holdout) = HoldoutCount(n)

\* build_families, its last loop: the families with their partitions.
Families(holdout) ==
  [i \in DOMAIN samples |->
     [index |-> i - 1, fields |-> samples[i].fields, schema |-> samples[i].schema,
      partition |-> IF i - 1 \in holdout THEN "test" ELSE "train"]]

\* type_signature, as a multiset.
Signature(fields) ==
  LET count(f, t) == Cardinality({k \in DOMAIN TypesOf[f] : TypesOf[f][k] = t})
  IN [t \in Types |-> SumFunction([i \in DOMAIN fields |-> count(fields[i], t)])]

\* jaccard_distance
JaccardDistance(a, b) ==
  LET inter == SumFunction([t \in Types |-> Min({a[t], b[t]})])
      union == SumFunction([t \in Types |-> Max({a[t], b[t]})])
  IN IF union = 0 THEN <<0, 1>> ELSE <<union - inter, union>>
Less(d, e) == d[1] * e[2] < e[1] * d[2]

\* Candidates in order of distance, then schema id, with their ranks.
Before(a, b) == Less(a.distance, b.distance) \/ (~Less(b.distance, a.distance) /\ a.schema < b.schema)
Ranked(C) ==
  LET at == InOrder(C, {p \in C \X C : Before(p[1], p[2])})
  IN [i \in DOMAIN at |->
        [family |-> at[i].family, schema |-> at[i].schema, distance |-> at[i].distance, rank |-> i]]
Candidate(f, sig) ==
  [family |-> f.index, schema |-> f.schema, distance |-> JaccardDistance(sig, Signature(f.fields))]

\* Mutant: the partition is not looked at.
Bug_Peers(all, exclude, partition) == {i \in DOMAIN all : all[i].index # exclude}

\* nearest_same_partition
Peers(all, exclude, partition) == {i \in DOMAIN all : all[i].index # exclude /\ all[i].partition = partition}
NearestSamePartition(all, exclude, partition, sig, take) ==
  LET ranked == Ranked({Candidate(all[i], sig) : i \in Peers(all, exclude, partition)})
  IN ElementsAt(ranked, {i \in DOMAIN ranked : i <= take})

\* The n-th element of a sequence that starts over at its end; n counts from zero.
Cycle(s, n) == s[(n % Len(s)) + 1]

\* same_partition_peer: the family itself when it is alone.
SamePartitionPeer(all, family, offset) ==
  LET peers == ElementsAt(all, Peers(all, family.index, family.partition))
  IN IF peers = <<>> THEN family ELSE Cycle(peers, offset)

\* build_retrieved_with_gold
RetrievedWithGold(family, all, sig, k) ==
  Ranked({Candidate(family, sig)}
         \cup {Candidate(all[c.family + 1], sig) :
                 c \in Elements(NearestSamePartition(all, family.index, family.partition, sig, k - 1))})

----------------------------------------------------------------------------
(* Variants *)

\* bucket_counts: 25/20/15/20/20 by largest remainder, in twentieths.
Weights == <<5, 4, 3, 4, 4>>
BucketCounts(total) ==
  LET base == [i \in 1..5 |-> (total * Weights[i]) \div 20]
      rest == [i \in 1..5 |-> (total * Weights[i]) % 20]
      left == total - (base[1] + base[2] + base[3] + base[4] + base[5])
      ahead(i) == {j \in 1..5 : rest[j] > rest[i] \/ (rest[j] = rest[i] /\ j < i)}
  IN [i \in 1..5 |-> base[i] + IF Cardinality(ahead(i)) < left THEN 1 ELSE 0]

Drifts == <<"add_optional", "widen_nullability", "wrapper", "enum_value">>
Splits == <<"snake_camel", "vendor_prefix", "abbrev">>
Incompatibles == <<"unit_swap", "generic_names">>
Abstains == <<"insufficient", "ambiguous", "missing">>

\* variant_schedule: the kinds of the m variants of the family at an index.  k
\* counts from zero, as the index of the code does.
VariantSchedule(m, index) ==
  LET n == BucketCounts(m)
      drift(k) == IF k % 2 = 0 THEN Cycle(Drifts, index + k) ELSE Cycle(Splits, index + k)
  IN [k \in 1..n[1] |-> "exact"]
     \o [k \in 1..n[2] |-> drift(k - 1)]
     \o [k \in 1..n[3] |-> Cycle(Incompatibles, index + k - 1)]
     \o [k \in 1..n[4] |-> "new_family"]
     \o [k \in 1..n[5] |-> Cycle(Abstains, index + k - 1)]

\* pick_unused_field
PickUnusedField(fields, offset) ==
  LET unused == ElementsAt(FieldPool, {i \in DOMAIN FieldPool : FieldPool[i] \notin Elements(fields)})
  IN IF unused = <<>> THEN Cycle(fields, offset) ELSE Cycle(unused, offset)

\* The types the candidate of a kind shows.  Renaming, a null, a new enum value
\* and a shifted magnitude leave them alone.
Half(s) == SubSeq(s, 1, (Len(s) + 1) \div 2)
Mixed(family, other) ==
  LET own == Half(family.fields)
      its == Half(other.fields)
  IN own \o ElementsAt(its, {i \in DOMAIN its : its[i] \notin Elements(own)})
CandidateSignature(kind, family, all) ==
  CASE kind = "add_optional" -> Signature(Append(family.fields, PickUnusedField(family.fields, family.index)))
    [] kind = "wrapper" -> [Signature(family.fields) EXCEPT !["object"] = @ + 2, !["string"] = @ + 1]
    [] kind = "new_family" -> Signature(Cycle(NovelTemplates, family.index))
    [] kind = "ambiguous" -> Signature(Mixed(family, SamePartitionPeer(all, family, family.index + 1)))
    [] OTHER -> Signature(family.fields)

\* A family id drawn at random for a lookalike.
FreshFamily == -1
Lookalike(family, schema, distance) ==
  <<[family |-> family, schema |-> schema, distance |-> distance, rank |-> 1]>>

\* Abstain(ambiguous): the two families of the blend, tied.
Tied(family, other, sig) ==
  LET da == JaccardDistance(sig, Signature(family.fields))
      db == JaccardDistance(sig, Signature(other.fields))
      tie == <<da[1] * db[2] + db[1] * da[2], 2 * da[2] * db[2]>>
      pair == IF family.schema <= other.schema THEN <<family, other>> ELSE <<other, family>>
  IN [i \in 1..2 |-> [family |-> pair[i].index, schema |-> pair[i].schema, distance |-> tie, rank |-> i]]

\* build_blueprint: what is retrieved for a kind ...
AtLeast2Percent(d) == IF Less(d, <<1, 50>>) THEN <<1, 50>> ELSE d
Retrieved(kind, family, all) ==
  LET sig == CandidateSignature(kind, family, all)
      near(exclude, take) == NearestSamePartition(all, exclude, family.partition, sig, take)
  IN CASE kind = "unit_swap" -> Lookalike(FreshFamily, family.schema, <<1, 100>>)
       [] kind = "generic_names" ->
            IF near(family.index, 1) = <<>> THEN Lookalike(FreshFamily, family.schema, <<1, 50>>)
            ELSE LET n == near(family.index, 1)[1]
                 IN Lookalike(n.family, n.schema, AtLeast2Percent(n.distance))
       [] kind = "new_family" -> near(FreshFamily, 2)
       [] kind = "missing" -> near(family.index, 2)
       [] kind = "ambiguous" -> Tied(family, SamePartitionPeer(all, family, family.index + 1), sig)
       [] kind = "insufficient" -> RetrievedWithGold(family, all, sig, 1)
       [] OTHER -> RetrievedWithGold(family, all, sig, 3)

\* ... and its label, decided by the kind alone.
Label(kind, family, retrieved) ==
  CASE kind = "exact" -> Match(family.schema, "exact")
    [] kind \in Elements(Drifts) \cup Elements(Splits) -> Match(family.schema, "compatible_drift")
    [] kind \in Elements(Incompatibles) -> Match(retrieved[1].schema, "incompatible_similarity")
    [] kind = "new_family" -> NewCandidate(IF family.index % 2 = 0 THEN "structural" ELSE "semantic")
    [] kind = "insufficient" -> Abstain("insufficient_evidence")
    [] kind = "ambiguous" -> Abstain("ambiguous")
    [] kind = "missing" -> Abstain("candidate_missing")
CategoryOf(kind) ==
  CASE kind = "exact" -> "known_exact"
    [] kind \in Elements(Drifts) \cup Elements(Splits) -> "compatible_drift"
    [] kind \in Elements(Incompatibles) -> "incompatible_unsafe"
    [] kind = "new_family" -> "new_family"
    [] OTHER -> "ambiguous_adversarial"
HasGoldLabel(kind) == kind \in {"exact", "missing"} \cup Elements(Drifts) \cup Elements(Splits)

\* finalize_case
FinalizeCase(kind, family, all) ==
  LET gold == IF HasGoldLabel(kind) THEN family.schema ELSE NoSchema
      finalized(retrieved) ==
        [category |-> CategoryOf(kind), retrieved |-> retrieved, injected |-> FALSE,
         decision |-> Label(kind, family, retrieved), gold |-> gold,
         goldRank |-> IF gold = NoSchema THEN 0 ELSE RankOf(retrieved, gold),
         mergeTrap |-> kind \in Elements(Incompatibles), splitTrap |-> kind \in Elements(Splits),
         partition |-> family.partition]
  IN finalized(Retrieved(kind, family, all))

\* generate_corpus
GenerateCorpus(all, variants) ==
  LET of(i) == LET kinds == VariantSchedule(variants, i - 1)
               IN [k \in DOMAIN kinds |-> FinalizeCase(kinds[k], all[i], all)]
  IN [i \in DOMAIN all |-> of(i)]

\* summarize
Summary(cases) ==
  [total |-> Len(cases),
   byCategory |-> [c \in Categories |-> Cardinality({i \in DOMAIN cases : cases[i].category = c})],
   byPartition |-> [p \in {"train", "test"} |-> Cardinality({i \in DOMAIN cases : cases[i].partition = p})],
   mergeTraps |-> Cardinality({i \in DOMAIN cases : cases[i].mergeTrap}),
   splitTraps |-> Cardinality({i \in DOMAIN cases : cases[i].splitTrap})]

----------------------------------------------------------------------------
(* Curation *)

\* classify_stratum
Stratum(c) ==
  IF c.mergeTrap \/ c.splitTrap \/ c.category = "incompatible_unsafe" THEN "immutable_golden"
  ELSE IF c.category = "ambiguous_adversarial" THEN "rare_adversarial"
  ELSE IF c.decision.kind = "abstain" THEN "no_call"
  ELSE "historical_replay"

\* margin_of: a case with a single candidate has the largest margin of all.
Minus(d, e) == LET n == d[1] * e[2] - e[1] * d[2]
               IN <<IF n < 0 THEN -n ELSE n, d[2] * e[2]>>
NarrowerMargin(c, d) ==
  LET margin(x) == Minus(x.retrieved[2].distance, x.retrieved[1].distance)
  IN /\ Len(c.retrieved) >= 2
     /\ Len(d.retrieved) >= 2 => Less(margin(c), margin(d))

\* curate_synthetic: the positions kept.  Only easy positives are capped, per
\* family of the nearest candidate, the narrowest margins first.
FamilyOf(c) == IF c.retrieved = <<>> THEN {} ELSE {c.retrieved[1].family}
CurateSynthetic(cases) ==
  LET easy(f) == {i \in DOMAIN cases : Stratum(cases[i]) = "historical_replay" /\ FamilyOf(cases[i]) = f}
      ahead(i) == {j \in easy(FamilyOf(cases[i])) :
                     \/ NarrowerMargin(cases[j], cases[i])
                     \/ j < i /\ ~NarrowerMargin(cases[i], cases[j])}
  IN {i \in DOMAIN cases : Stratum(cases[i]) = "historical_replay" => Cardinality(ahead(i)) < MaxEasy}

\* curation_report
CurationReport(cases) ==
  LET kept == CurateSynthetic(cases)
  IN [strata |-> [s \in {Stratum(cases[i]) : i \in kept} |-> Cardinality({i \in kept : Stratum(cases[i]) = s})],
      capped |-> Len(cases) - Cardinality(kept),
      families |-> Cardinality(UNION {FamilyOf(cases[i]) : i \in kept}),
      total |-> Cardinality(kept)]

----------------------------------------------------------------------------
(* From the draws to the corpus *)

CorpusInit == samples = <<>> /\ corpus = <<>>

\* build_families: a sample, drawn again while its schema is that of another
\* family.  Its schema id falls anywhere among the ids in use.
DrawFamily(drawn, id) ==
  LET fields == SampleFields(drawn) IN
  /\ Len(samples) < MaxFamilies
  /\ \A i \in DOMAIN samples : samples[i].fields # fields /\ samples[i].schema # id
  /\ samples' = Append(samples, [fields |-> fields, schema |-> id])
  /\ UNCHANGED corpus

Generate(holdout) ==
  /\ Len(samples) = MaxFamilies /\ corpus = <<>>
  /\ IsPartition(holdout, MaxFamilies)
  /\ corpus' = FlattenSeq(GenerateCorpus(Families(holdout), Variants))
  /\ UNCHANGED samples

CorpusNext ==
  \/ \E drawn \in Draws, id \in 1..MaxFamilies : DrawFamily(drawn, id)
  \/ \E holdout \in SUBSET (0..(MaxFamilies - 1)) : Generate(holdout)

CorpusSpec == CorpusInit /\ [][CorpusNext]_corpusVars

----------------------------------------------------------------------------
(* Properties *)

\* RetrainPlan::run trains on one partition and evaluates on the other: no case of
\* one offers a family or names a schema that a case of the other offers or names,
\* although candidates, lookalikes and blends are taken from other families.
NamedIn(c) == {c.retrieved[i].schema : i \in DOMAIN c.retrieved} \cup ({c.gold, c.decision.schema} \ {NoSchema})
PartitionsStayApart ==
  \A i, j \in DOMAIN corpus : corpus[i].partition # corpus[j].partition =>
    NamedIn(corpus[i]) \cap NamedIn(corpus[j]) = {}

\* Every case passes EvalCase::validate, the schedule hands out every variant and
\* with them every category and both traps, and
\* whoever answers every case as labelled scores perfectly: no label of build_blueprint
\* is one that compute_metrics counts as a merge, a split or a foreign id.
OracleRun == [i \in DOMAIN corpus |-> Answered(corpus[i], corpus[i].decision, FALSE, FALSE, 0, 1)]
LabelsAreSound ==
  corpus # <<>> =>
    /\ Len(corpus) = MaxFamilies * Variants
    /\ LoadCorpus(corpus) = {corpus}
    /\ LET s == Summary(corpus)
       IN /\ s.total = Len(corpus) /\ s.byPartition["train"] + s.byPartition["test"] = s.total
          /\ s.mergeTraps > 0 /\ s.splitTraps > 0 /\ \A c \in Categories : s.byCategory[c] > 0
    /\ LET score == ComputeMetrics(OracleRun)
       IN /\ score.exact = <<Len(corpus), Len(corpus)>> /\ score.idViolations = 0
          /\ score.falseMerge[1] = 0 /\ score.falseSplit[1] = 0 /\ score.wrongValid[1] = 0

\* Curation drops no trap and no adversarial case and keeps at most MaxEasy easy ones
\* of a family, those with the narrowest margins.
CurationKeepsTheHard ==
  LET kept == CurateSynthetic(corpus)
      easy == {i \in DOMAIN corpus : Stratum(corpus[i]) = "historical_replay"}
      report == CurationReport(corpus)
  IN /\ (DOMAIN corpus) \ easy \subseteq kept
     /\ report.total + report.capped = Len(corpus) /\ report.total = Cardinality(kept)
     /\ \A i \in kept \cap easy :
          /\ Cardinality({j \in kept \cap easy : FamilyOf(corpus[j]) = FamilyOf(corpus[i])}) <= MaxEasy
          /\ \A j \in easy \ kept : FamilyOf(corpus[j]) = FamilyOf(corpus[i]) => ~NarrowerMargin(corpus[j], corpus[i])

\* The corpus a retraining run is given: partitions that share nothing, labels its
\* own scoring agrees with, and a training side whose curation gives up nothing that
\* is hard.
CorpusIsSound == PartitionsStayApart /\ LabelsAreSound /\ CurationKeepsTheHard
============================================================================
