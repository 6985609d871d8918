----------------------------- MODULE Evaluation -----------------------------
(***************************************************************************)
(* The evaluation harness: the three-way decision contract, the golden     *)
(* case and its self-consistency, the metrics of a run over a corpus and   *)
(* the passes that repeat a run.                                           *)
(*                                                                         *)
(* A run is a sequence of results, one per case in corpus order.  A rate   *)
(* is the pair of its counts, <<0, 0>> standing for None.                  *)
(***************************************************************************)
EXTENDS Integers, Sequences, FiniteSets, FiniteSetsExt

CONSTANT NoSchema

----------------------------------------------------------------------------
(* The decision contract *)

Match(schema, relation) == [kind |-> "match", schema |-> schema, detail |-> relation]
NewCandidate(novelty) == [kind |-> "new", schema |-> NoSchema, detail |-> novelty]
Abstain(cause) == [kind |-> "abstain", schema |-> NoSchema, detail |-> cause]

Relations == {"exact", "compatible_drift", "incompatible_similarity"}

IsAcceptedMatch(d) == d.kind = "match" /\ d.detail # "incompatible_similarity"

\* validate_decision: a match names one of the retrieved schemas.
IdAllowed(d, retrieved) == d.kind = "match" => \E i \in DOMAIN retrieved : retrieved[i].schema = d.schema

----------------------------------------------------------------------------
(* Golden cases *)

Categories == {"known_exact", "compatible_drift", "incompatible_unsafe", "new_family",
               "ambiguous_adversarial"}

\* The rank of the first retrieved candidate of a schema, 0 when there is none.
RankOf(retrieved, schema) ==
  LET at == {i \in DOMAIN retrieved : retrieved[i].schema = schema}
  IN IF at = {} THEN 0 ELSE retrieved[Min(at)].rank

\* EvalCase::validate
ValidCase(c) ==
  /\ c.decision.kind = "match" =>
       /\ RankOf(c.retrieved, c.decision.schema) # 0
       /\ IF IsAcceptedMatch(c.decision) THEN c.gold \in {NoSchema, c.decision.schema}
                                         ELSE c.gold = NoSchema
  /\ c.goldRank = IF c.gold = NoSchema THEN 0 ELSE RankOf(c.retrieved, c.gold)

\* load_corpus: one invalid case fails the load.
LoadCorpus(cases) == IF \A i \in DOMAIN cases : ValidCase(cases[i]) THEN {cases} ELSE {}

\* truncate_to_k: a case with its k nearest, its ground truth untouched.
TruncateToK(c, k) ==
  [c EXCEPT !.retrieved = SelectSeq(c.retrieved, LAMBDA r : r.rank <= k)]

----------------------------------------------------------------------------
(* Results *)

\* run_one: the case and what the inferencer made of it; a total failure has no
\* decision and no telemetry.
Failures == {"timeout", "transport", "parse"}
Answered(c, decision, parseError, schemaError, repairs, latency) ==
  [case |-> c, failure |-> "none", decision |-> decision, parseError |-> parseError,
   schemaError |-> schemaError, repairs |-> repairs, latency |-> latency]
Failed(c, failure) ==
  [case |-> c, failure |-> failure, decision |-> NewCandidate("none"), parseError |-> FALSE,
   schemaError |-> FALSE, repairs |-> 0, latency |-> 0]

Ok(r) == r.failure = "none"
IsExact(r) == Ok(r) /\ r.decision = r.case.decision
IsSchemaValid(r) == Ok(r) /\ ~r.parseError /\ ~r.schemaError
IsWrongValid(r) == IsSchemaValid(r) /\ ~IsExact(r)
Accepts(r) == Ok(r) /\ IsAcceptedMatch(r.decision)
IdViolation(r) == Ok(r) /\ ~IdAllowed(r.decision, r.case.retrieved)
HasGold(r) == r.case.gold # NoSchema
GoldWithin(r, k) == HasGold(r) /\ r.case.goldRank \in 1..k
GoldAbsent(r) == HasGold(r) /\ r.case.goldRank = 0

\* An accepted match with the wrong family; with the right family and the wrong
\* relation it is only a wrong answer.
IsFalseMerge(r) ==
  r.case.mergeTrap /\ Accepts(r) /\ r.decision.schema # r.case.decision.schema
\* A total failure never accepts, so it splits.
IsFalseSplit(r) == r.case.splitTrap /\ ~Accepts(r)

----------------------------------------------------------------------------
(* compute_metrics *)

Where(run, P(_)) == {i \in DOMAIN run : P(run[i])}

\* safe_rate_opt (and safe_rate, which has 0 for an empty run): the hits among
\* the results that count.
Rate(hits, among) == <<Cardinality(hits \cap among), Cardinality(among)>>

\* What the decisions are worth: parsed, valid, exact, abstained, novel.
DecisionMetrics(run) ==
  LET all == DOMAIN run
      exact == Where(run, IsExact)
      parsed(r) == Ok(r) /\ ~r.parseError
      sameKind(r) == Ok(r) /\ r.decision.kind = r.case.decision.kind
      abstained == Where(run, LAMBDA r : Ok(r) /\ r.decision.kind = "abstain")
      shouldAbstain == Where(run, LAMBDA r : Ok(r) /\ r.case.decision.kind = "abstain")
      saysNew == Where(run, LAMBDA r : Ok(r) /\ r.decision.kind = "new")
      isNew(r) == r.case.decision.kind = "new"
      newFamily(r) == r.case.category = "new_family"
      missed(r) == Ok(r) /\ r.decision = Abstain("candidate_missing")
      injected(r) == Ok(r) /\ r.case.injected
      mergeTrap(r) == r.case.mergeTrap
      splitTrap(r) == r.case.splitTrap
  IN [total |-> Len(run),
      jsonParse |-> Rate(Where(run, parsed), all),
      schemaValid |-> Rate(Where(run, IsSchemaValid), all),
      exact |-> Rate(exact, all),
      decisionChoice |-> Rate(Where(run, sameKind), all),
      wrongValid |-> Rate(Where(run, IsWrongValid), all),
      abstentionPrecision |-> Rate(shouldAbstain, abstained),
      abstentionRecall |-> Rate(abstained, shouldAbstain),
      idViolations |-> Cardinality(Where(run, IdViolation)),
      falseMerge |-> Rate(Where(run, IsFalseMerge), Where(run, mergeTrap)),
      falseSplit |-> Rate(Where(run, IsFalseSplit), Where(run, splitTrap)),
      novelRecall |-> Rate(saysNew, Where(run, newFamily)),
      novelPrecision |-> Rate(Where(run, isNew), saysNew),
      goldAbsent |-> Rate(Where(run, missed), Where(run, GoldAbsent)),
      injection |-> Rate(exact, Where(run, injected))]

\* What retrieval put in front of the model, whether it answered or not.
\* Reciprocal ranks are in sixtieths, exact for ranks up to six.
MrrScale == 60
RetrievalMetrics(run) ==
  LET gold == Where(run, HasGold)
      within(k) == {i \in DOMAIN run : GoldWithin(run[i], k)}
  IN [recall1 |-> Rate(within(1), gold), recall3 |-> Rate(within(3), gold),
      recall5 |-> Rate(within(5), gold),
      mrr |-> <<MapThenSumSet(LAMBDA i : MrrScale \div run[i].case.goldRank, within(MrrScale)),
                MrrScale * Cardinality(gold)>>]

\* Repairs, failures and cache hits; an answer without a latency is a hit.
OperationalMetrics(run) ==
  LET all == DOMAIN run
      repaired == Where(run, LAMBDA r : Ok(r) /\ r.repairs > 0)
      malformed(r) == r.failure = "parse" \/ r.parseError
      timedOut(r) == r.failure = "timeout"
      providerError(r) == r.failure = "transport"
      cached(r) == Ok(r) /\ r.latency = 0
  IN [repair |-> Rate(repaired, all),
      repairSuccess |-> Rate(Where(run, IsSchemaValid), repaired),
      repairsPerAccepted |-> <<MapThenSumSet(LAMBDA i : run[i].repairs, all),
                               Cardinality(Where(run, Accepts))>>,
      timeouts |-> Rate(Where(run, timedOut), all),
      providerErrors |-> Rate(Where(run, providerError), all),
      malformed |-> Rate(Where(run, malformed), all),
      cacheHits |-> Rate(Where(run, cached), all)]

\* The measures of two groups as one record.
Beside(f, g) == [x \in DOMAIN f \cup DOMAIN g |-> IF x \in DOMAIN f THEN f[x] ELSE g[x]]
ComputeMetrics(run) == Beside(DecisionMetrics(run), Beside(RetrievalMetrics(run), OperationalMetrics(run)))

\* bump_relation_confusion: expected relation by actual relation, "none" when
\* the answer was not a match.
RelationConfusion(run) ==
  [p \in Relations \X (Relations \cup {"none"}) |->
     Cardinality({i \in DOMAIN run :
       /\ Ok(run[i]) /\ run[i].case.decision.kind = "match"
       /\ p = <<run[i].case.decision.detail,
                IF run[i].decision.kind = "match" THEN run[i].decision.detail ELSE "none">>})]

\* per_category_precision, and the worst slice (the first category in order
\* among equals).
CategoryOrder == <<"known_exact", "compatible_drift", "incompatible_unsafe", "new_family",
                   "ambiguous_adversarial">>
CategoryPrecision(run, c) ==
  LET inCategory(r) == r.case.category = c IN Rate(Where(run, IsExact), Where(run, inCategory))
LessPrecise(a, b) == a[1] * b[2] < b[1] * a[2]
WorstSlice(run) ==
  LET p(i) == CategoryPrecision(run, CategoryOrder[i])
      seen == {i \in 1..5 : p(i)[2] # 0}
  IN {CategoryOrder[i] : i \in {i \in seen : \A j \in seen :
        ~LessPrecise(p(j), p(i)) /\ (j < i => LessPrecise(p(i), p(j)))}}

\* percentile_u64 of a sorted sequence: nearest rank, halves rounded up.
Percentile(sorted, p) ==
  LET n == Len(sorted) - 1 IN sorted[Min({(2 * p * n + 100) \div 200, n}) + 1]

----------------------------------------------------------------------------
(* Passes that repeat a run *)

\* outcomes_agree
OutcomesAgree(a, b) == Ok(a) = Ok(b) /\ (Ok(a) => a.decision = b.decision)

\* measure_candidate_order_sensitivity: the second pass sees the two best
\* candidates with rank and distance exchanged.  retrieved is in rank order.
SwapTopTwo(c) ==
  [c EXCEPT !.retrieved = [i \in DOMAIN @ |->
     IF i > 2 THEN @[i]
     ELSE [@[i] EXCEPT !.rank = c.retrieved[3 - i].rank, !.distance = c.retrieved[3 - i].distance]]]
\* inferred is what the inferencer makes of each case it is given.
OrderSensitivity(inferred, corpus) ==
  LET eligible == {i \in DOMAIN corpus : Len(corpus[i].retrieved) >= 2}
      changed(i) == ~OutcomesAgree(inferred[corpus[i]], inferred[SwapTopTwo(corpus[i])])
  IN Rate({i \in eligible : changed(i)}, eligible)

\* measure_repeatability over runs of the same corpus.
Repeatability(runs, n) ==
  IF Cardinality(DOMAIN runs) < 2 THEN <<0, 0>>
  ELSE <<Cardinality({i \in 1..n : \A k \in DOMAIN runs : OutcomesAgree(runs[k][i], runs[1][i])}), n>>
=============================================================================
