------------------------------ MODULE Feedback ------------------------------
(***************************************************************************)
(* Labelled feedback: what a human decision becomes as a training example, *)
(* and what an export of the feedback stream lets through.                 *)
(*                                                                         *)
(* A stream is a sequence of examples; an export is a set of positions of  *)
(* it, narrowed step by step in the order of filtered_examples and         *)
(* apply_caps.                                                             *)
(***************************************************************************)
EXTENDS Integers, Sequences, FiniteSets, FiniteSetsExt

CONSTANTS
  NoCluster,       \* the empty dedup_cluster
  SafetyClusters,  \* clusters with the prefix "safety:"
  HoldoutFamilies, \* families whose hash puts them on the holdout side
  ExportCap        \* ExportCaps: examples per family and label source

ASSUME CapIsNatural == ExportCap \in Nat

----------------------------------------------------------------------------
(* Capturing *)

\* RejectionReason::is_generator_fault.
GeneratorFaults == {"wrong_family", "should_be_new_candidate", "should_abstain"}
RejectionReasons == GeneratorFaults \cup {"policy_denial", "retrieval_miss", "other"}
Positive == {"human_promote", "trusted_proposal_accepted", "semantic_annotation", "adjudication"}

\* FeedbackWeights::new refuses a pair in which a correction does not outweigh
\* a confirmation.
WeightsAccepted(positive, hardNegative) == hardNegative > positive

\* The example a decision of the given kind becomes; none for a rejection that
\* says nothing of the generator.  gold is the proposal itself when it was
\* accepted, and the correction, or an abstention, when it was rejected.
Captures(kind, reason) == kind \in Positive \/ reason \in GeneratorFaults
Capture(kind, gold, corrected, weights, ctx) ==
  [family |-> ctx.family, actor |-> ctx.actor, cluster |-> ctx.cluster, source |-> kind,
   gold |-> IF kind \in Positive THEN gold
            ELSE IF corrected = {} THEN [kind |-> "abstain"] ELSE CHOOSE g \in corrected : TRUE,
   weight |-> IF kind \in Positive THEN weights.positive ELSE weights.hardNegative]

----------------------------------------------------------------------------
(* Exporting *)

IsSafetySuite(e) == e.cluster \in SafetyClusters

\* quarantined actors are left out before anything else
Unquarantined(stream, quarantined) == {i \in DOMAIN stream : stream[i].actor \notin quarantined}

\* dedup_by_cluster: the first of a cluster stays, and every example without one.
DedupByCluster(stream, I) ==
  {i \in I : \/ stream[i].cluster = NoCluster
             \/ ~\E j \in I : j < i /\ stream[j].cluster = stream[i].cluster}

\* filtered_examples
Filtered(stream, quarantined, excludeSafety) ==
  LET kept == Unquarantined(stream, quarantined)
  IN DedupByCluster(stream, {i \in kept : excludeSafety => ~IsSafetySuite(stream[i])})

\* apply_caps: the first ExportCap of every family and label source.
SameSource(a, b) == a.family = b.family /\ a.source = b.source
ApplyCaps(stream, I) ==
  {i \in I : Cardinality({j \in I : j < i /\ SameSource(stream[j], stream[i])}) < ExportCap}

\* export_jsonl: caps first, then the partition asked for (all of them for {}).
ExportJsonl(stream, quarantined, partition) ==
  {i \in ApplyCaps(stream, Filtered(stream, quarantined, TRUE)) :
     partition = {} \/ stream[i].family \in partition}

\* iter_by_partition, unfiltered.
ByPartition(stream) ==
  [f \in {stream[i].family : i \in DOMAIN stream} |-> {i \in DOMAIN stream : stream[i].family = f}]

\* assign_split: the first of a cluster decides for all of it.
IsHoldout(stream, I, i) ==
  LET first == IF stream[i].cluster = NoCluster THEN i
               ELSE Min({j \in I : stream[j].cluster = stream[i].cluster})
  IN stream[first].family \in HoldoutFamilies

\* export_snapshot: the three split files.  Caps do not apply to the safety suite.
ExportSnapshot(stream, quarantined) ==
  LET all  == Filtered(stream, quarantined, FALSE)
      rest == {i \in all : ~IsSafetySuite(stream[i])}
  IN [train |-> ApplyCaps(stream, {i \in rest : ~IsHoldout(stream, rest, i)}),
      holdout |-> ApplyCaps(stream, {i \in rest : IsHoldout(stream, rest, i)}),
      safety |-> all \ rest]
=============================================================================
