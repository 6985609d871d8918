-------------------------------- MODULE Gate --------------------------------
(***************************************************************************)
(* The statistical gate of a model version: the evidence computed from a   *)
(* held-out run, the reasons it fails its own gate and the reasons it      *)
(* regresses against the active model.                                     *)
(*                                                                         *)
(* Rates are pairs of counts, compared by cross-multiplication; thresholds *)
(* are percentages, the confidence a squared z.                            *)
(***************************************************************************)
EXTENDS Evaluation

CONSTANTS
  Z2,                      \* confidence_z squared
  MinTestN, MaxWrongValid, MinPrecision, FamilyMinN, FamilyFloor, MinRecall,
  Margin, RecallMargin, MaxFalseMergeCi

Percent == 100

\* a/n compared with a threshold of p percent.
RateAbove(r, p) == r[1] * Percent > p * r[2]
RateBelow(r, p) == r[1] * Percent < p * r[2]

----------------------------------------------------------------------------
(* Wilson bounds *)

\* wilson_bound without its square root: the bound times 2(n + z^2) is
\* (2s + z^2) -+ Spread, where Spread^2 = z^2 (4s(n - s) + z^2 n) / n.
Slack(s, n, p) == Percent * (2 * s + Z2) - 2 * p * (n + Z2)
SpreadExceeds(x, s, n) == x < 0 \/ x * x * n < Percent * Percent * Z2 * (4 * s * (n - s) + Z2 * n)
WilsonLowerBelow(s, n, p) == IF n = 0 THEN 0 < p ELSE SpreadExceeds(Slack(s, n, p), s, n)
WilsonUpperAbove(s, n, p) == IF n = 0 THEN Percent > p ELSE SpreadExceeds(-Slack(s, n, p), s, n)

----------------------------------------------------------------------------
(* Evidence *)

\* accepted_precision: nothing accepted counts as precise.
AcceptedPrecision(run) ==
  IF Where(run, Accepts) = {} THEN <<1, 1>> ELSE Rate(Where(run, IsExact), Where(run, Accepts))

\* oracle_retrieval_exact_accuracy: over the cases whose gold was retrieved.
OracleAccuracy(run) == LET ranked(r) == r.case.goldRank # 0 IN Rate(Where(run, IsExact), Where(run, ranked))

\* per_family_slices, by the family of the nearest candidate.
Slices(run) ==
  LET families == UNION {{run[i].case.retrieved[k].family : k \in {1} \cap DOMAIN run[i].case.retrieved} :
                           i \in DOMAIN run}
      slice(f) == LET inSlice(r) == r.case.retrieved # <<>> /\ r.case.retrieved[1].family = f
                  IN Rate(Where(run, IsExact), Where(run, inSlice))
  IN [f \in families |-> slice(f)]

\* GateEvidence::from_eval
FromEval(run) ==
  LET metrics == ComputeMetrics(run)
  IN [cases |-> metrics.total, falseMerge |-> metrics.falseMerge, wrongValid |-> metrics.wrongValid,
      precision |-> AcceptedPrecision(run), exact |-> metrics.exact, oracle |-> OracleAccuracy(run),
      recall |-> metrics.recall5, families |-> Slices(run)]

----------------------------------------------------------------------------
(* Gate and regression *)

\* The names of the checks that fail; a pass is the empty set.
GateReasons(e) ==
  {x \in {"total_cases", "false_merge_count", "false_merge_upper_ci", "wrong_valid_rate",
          "accepted_precision", "retrieval_recall_at_5", "family"} :
     CASE x = "total_cases" -> e.cases < MinTestN
       [] x = "false_merge_count" -> e.falseMerge[1] > 0
       [] x = "false_merge_upper_ci" ->
            e.falseMerge[2] > 0 /\ WilsonUpperAbove(e.falseMerge[1], e.falseMerge[2], MaxFalseMergeCi)
       [] x = "wrong_valid_rate" -> RateAbove(e.wrongValid, MaxWrongValid)
       [] x = "accepted_precision" -> RateBelow(e.precision, MinPrecision)
       [] x = "retrieval_recall_at_5" -> RateBelow(e.recall, MinRecall)
       [] x = "family" -> \E f \in DOMAIN e.families : LET s == e.families[f] IN
            s[2] >= FamilyMinN /\ WilsonLowerBelow(s[1], s[2], FamilyFloor)}

\* regression_reasons: a and b are rates; b exceeds a by more than m percent.
Exceeds(a, b, m) == Percent * (b[1] * a[2] - a[1] * b[2]) > m * a[2] * b[2]
RegressionReasons(c, a) ==
  {x \in {"false_merge_count", "exact_semantic_accuracy", "wrong_valid_rate", "retrieval_recall_at_5"} :
     CASE x = "false_merge_count" -> c.falseMerge[1] > a.falseMerge[1]
       [] x = "exact_semantic_accuracy" -> Exceeds(c.exact, a.exact, Margin)
       [] x = "wrong_valid_rate" -> Exceeds(a.wrongValid, c.wrongValid, Margin)
       [] x = "retrieval_recall_at_5" -> Exceeds(c.recall, a.recall, RecallMargin)}
=============================================================================
