------------------------------ MODULE MCModels ------------------------------
(* A small instance of Models, its gate that of module Gate, beside the corpus its
   evidence comes from and the harness that retrains round by round. *)
EXTENDS Models, Gate, Corpus, Continual, TLC

\* Three known cases of one family and a merge trap; the gold of every known
\* case is retrieved first.
Known3 ==
  [category |-> "known_exact", retrieved |-> <<[family |-> 1, schema |-> 1, rank |-> 1, distance |-> <<0, 1>>]>>,
   injected |-> FALSE, decision |-> Match(1, "exact"), gold |-> 1, goldRank |-> 1,
   mergeTrap |-> FALSE, splitTrap |-> FALSE, partition |-> "test"]
Trap ==
  [Known3 EXCEPT !.category = "incompatible_unsafe", !.decision = Match(1, "incompatible_similarity"),
                 !.gold = NoSchema, !.goldRank = 0, !.mergeTrap = TRUE]
Corpus4 == <<Known3, Known3, Known3, Trap>>
Answer(c, d) == Answered(c, d, FALSE, FALSE, 0, 1)
\* Exact on all four; one known case missed; a trap merged with another schema.
RunOf(e) ==
  [i \in 1..4 |->
     Answer(Corpus4[i], CASE e = "merging" /\ i = 4 -> Match(2, "exact")
                          [] e = "good" /\ i = 1 -> Abstain("ambiguous")
                          [] OTHER -> Corpus4[i].decision)]
McPasses == {"good", "better"}
McRegresses == {<<"good", "better">>, <<"merging", "good">>, <<"merging", "better">>}
ASSUME GateAgrees ==
  /\ McPasses = {e \in Evidence : GateReasons(FromEval(RunOf(e))) = {}}
  /\ McRegresses = {p \in Evidence \X Evidence :
                      RegressionReasons(FromEval(RunOf(p[1])), FromEval(RunOf(p[2]))) # {}}

Example(actor, cluster) == [family |-> "f", actor |-> actor, cluster |-> cluster, source |-> "human_promote"]
McRecorded == <<Example("bob", "k"), Example("ann", "k"), Example("bob", "safety:1")>>
McExamples == {Example("ann", "")}

\* Three families of three fields over a pool of five, one held out.
McFieldPool == <<"active", "amount", "count", "name", "tags">>
McTypesOf ==
  [active |-> <<"bool">>, amount |-> <<"number">>, count |-> <<"number">>, name |-> <<"string">>,
   tags |-> <<"array">>, origin |-> <<"object", "string">>, notes |-> <<"string">>]
McNovel == <<<<"origin", "notes">>, <<"notes", "active", "name">>>>
McDraws == {<<"name", "active", "tags">>, <<"count", "amount", "name">>, <<"amount", "tags", "name">>,
            <<"tags", "count", "active">>, <<"active", "name", "count">>}

\* The first case of every batch is of one family, the second of a family of its own.
McFamilyOfCase == [c \in (0..1) \X (1..2) |-> IF c[2] = 1 THEN <<"f", 0>> ELSE <<"g", c[1]>>]

----------------------------------------------------------------------------
(* What the operators of Feedback and Evaluation promise, over short streams and
   runs *)

LawExamples == [family : {"f", "g"}, actor : {"ann", "bob"}, cluster : {"", "k", "safety:1"},
                source : {"human_promote"}]
LawStreams == UNION {[1..n -> LawExamples] : n \in 0..3}

\* The splits of a snapshot share no example and no cluster, hold nobody who is
\* quarantined and at most ExportCap of a family outside the safety suite; what an
\* export for training yields comes from the same families' examples, and reading
\* by partition loses none.
ASSUME SplitsAreDisjoint ==
  \A stream0 \in LawStreams : \A barred0 \in {{}, {"bob"}} :
    LET snap == ExportSnapshot(stream0, barred0)
        rest == snap.train \cup snap.holdout
        clusters(I) == {stream0[i].cluster : i \in I} \ {NoCluster}
    IN /\ snap.train \cap snap.holdout = {} /\ rest \cap snap.safety = {}
       /\ clusters(snap.train) \cap clusters(snap.holdout) = {}
       /\ clusters(rest) \cap SafetyClusters = {} /\ clusters(snap.safety) \subseteq SafetyClusters
       /\ \A i \in rest \cup snap.safety : stream0[i].actor \notin barred0
       /\ \A f \in {"f", "g"} : Cardinality({i \in rest : stream0[i].family = f}) <= ExportCap
       /\ \A i \in snap.holdout : stream0[i].family \in HoldoutFamilies
       /\ ExportJsonl(stream0, barred0, {}) = rest
       /\ UNION {ByPartition(stream0)[f] : f \in DOMAIN ByPartition(stream0)} = DOMAIN stream0

\* A correction outweighs every confirmation, and a rejection that blames the
\* policy, the retrieval or nothing teaches nothing.
ASSUME CorrectionsWeighMore ==
  \A w \in [positive : 0..2, hardNegative : 0..2] :
    /\ WeightsAccepted(w.positive, w.hardNegative) =>
         \A kind \in Positive :
           LET ctx == [family |-> "f", actor |-> "ann", cluster |-> ""]
               wrong == Capture("trusted_proposal_rejected", Match(1, "exact"), {}, w, ctx)
           IN /\ Capture(kind, Match(1, "exact"), {}, w, ctx).weight < wrong.weight
              /\ wrong.gold.kind = "abstain"
    /\ \A reason \in RejectionReasons :
         Captures("trusted_proposal_rejected", reason) <=>
           reason \notin {"policy_denial", "retrieval_miss", "other"}

\* Three cases: one whose gold is second of two, a merge trap, a new family.
Second ==
  [Known3 EXCEPT !.retrieved = <<[family |-> 2, schema |-> 2, rank |-> 1, distance |-> <<1, 4>>],
                                 [family |-> 1, schema |-> 1, rank |-> 2, distance |-> <<1, 2>>]>>,
                 !.goldRank = 2, !.splitTrap = TRUE]
Unknown == [Known3 EXCEPT !.category = "new_family", !.decision = NewCandidate("structural"), !.gold = NoSchema,
                          !.goldRank = 0, !.injected = TRUE]
LawCorpus == <<Second, Trap, Unknown>>
Outcomes(c) ==
  {Answer(c, d) : d \in {Match(1, "exact"), Match(2, "compatible_drift"), Match(1, "incompatible_similarity"),
                         NewCandidate("structural"), Abstain("candidate_missing")}}
    \cup {Answered(c, c.decision, e, ~e, 1, 0) : e \in BOOLEAN} \cup {Failed(c, f) : f \in Failures}
LawRuns == {<<a, b, c>> : a \in Outcomes(Second), b \in Outcomes(Trap), c \in Outcomes(Unknown)}

\* Every result is counted under exactly one of parsed, malformed, timed out and
\* provider error; a valid answer is exact or wrong; recall grows with k; the
\* confusion matrix has one entry for each answer to a case that expects a match;
\* no slice is worse than the worst one, which is no better than the whole.
ASSUME MetricsAddUp ==
  \A r \in LawRuns :
    LET m == ComputeMetrics(r)
        confusion == RelationConfusion(r)
        cells == DOMAIN confusion
        worst == WorstSlice(r)
    IN /\ m.jsonParse[1] + m.malformed[1] + m.timeouts[1] + m.providerErrors[1] = m.total
       /\ m.schemaValid[1] = m.wrongValid[1] + Cardinality({i \in DOMAIN r : IsSchemaValid(r[i]) /\ IsExact(r[i])})
       /\ m.recall1[1] <= m.recall3[1] /\ m.recall3[1] <= m.recall5[1] /\ m.recall5[1] <= m.recall5[2]
       /\ m.falseMerge[1] + m.exact[1] <= m.total /\ m.repairSuccess[2] = m.repair[1]
       /\ MapThenSumSet(LAMBDA p : confusion[p], cells)
            = Cardinality({i \in DOMAIN r : Ok(r[i]) /\ r[i].case.decision.kind = "match"})
       /\ Cardinality(worst) = 1
       /\ \A c \in worst : /\ ~LessPrecise(m.exact, CategoryPrecision(r, c))
                           /\ \A d \in {r[i].case.category : i \in DOMAIN r} :
                                ~LessPrecise(CategoryPrecision(r, d), CategoryPrecision(r, c))

\* Agreement of outcomes is an equivalence, so that the order of repeated runs does
\* not matter; exchanging the two best twice changes nothing, and an inferencer
\* that follows the nearest is as order-sensitive as there are cases to exchange.
ASSUME RepetitionIsFair ==
  LET o == Outcomes(Second)
      nearest(c) == Answer(c, Match(c.retrieved[CHOOSE i \in DOMAIN c.retrieved : c.retrieved[i].rank = 1].schema, "exact"))
      asked == Range(LawCorpus) \cup {SwapTopTwo(Second)}
  IN /\ \A a, b, c \in o : OutcomesAgree(a, b) /\ OutcomesAgree(b, c) => OutcomesAgree(c, a)
     /\ \A a, b, c \in o : Repeatability(<<<<a>>, <<b>>, <<c>>>>, 1) = Repeatability(<<<<c>>, <<a>>, <<b>>>>, 1)
     /\ SwapTopTwo(SwapTopTwo(Second)) = Second /\ SwapTopTwo(Second) # Second
     /\ OrderSensitivity([c \in asked |-> nearest(c)], LawCorpus) = <<1, 1>>
     /\ OrderSensitivity([c \in asked |-> Answer(c, Abstain("ambiguous"))], LawCorpus) = <<0, 1>>
     /\ \A k \in 0..2 : /\ Len(TruncateToK(Second, k).retrieved) = k
                         /\ TruncateToK(TruncateToK(Second, 1), k).retrieved = TruncateToK(Second, Min({1, k})).retrieved

\* A percentile is a value that occurred, and a higher one is no smaller.
ASSUME PercentilesAreValues ==
  \A n \in 1..4 : LET sorted == [i \in 1..n |-> i * i] IN
    /\ Percentile(sorted, 0) = 1 /\ Percentile(sorted, 100) = n * n
    /\ \A p, q \in {0, 25, 50, 95, 100} : p <= q => Percentile(sorted, p) <= Percentile(sorted, q)

----------------------------------------------------------------------------
\* The registry, the corpus and the harness share no variable and their steps
\* commute, so that one of them moves shows all that a property of any can see.
PartNext ==
  \/ CorpusInit /\ ContinualInit /\ Next /\ UNCHANGED <<corpusVars, continualVars>>
  \/ Init /\ ContinualInit /\ CorpusNext /\ UNCHANGED <<vars, continualVars>>
  \/ Init /\ CorpusInit /\ ContinualNext /\ UNCHANGED <<vars, corpusVars>>
PartInit == Init /\ CorpusInit /\ ContinualInit
PartSpec == PartInit /\ [][PartNext]_<<vars, corpusVars, continualVars>>

Symmetry == Permutations(ModelIds) \cup Permutations(Controllers)
=============================================================================
