------------------------------- MODULE Shadow -------------------------------
(* The shadow lane: run_shadow_sweep asks a language model, through
   HttpInferencer, which registered family a provisional candidate belongs
   to, and logs the answer beside what the deterministic policy says of it
   (shadow.rs, deblob-slm); TrustedApplier turns a corroborated answer into a
   promotion or a proposal (trusted.rs).

   One process sweeps.  Between the sweep's calls candidates grow and expire
   and schemas are published; every call may fail, and the process may
   restart, which empties the debounce set and the decision cache but not the
   log. *)
EXTENDS Retrieval

CONSTANTS
  Cands,            \* candidate ids
  Growth,           \* [Cands -> Seq(profile)]: a candidate's profile after n observations
  Publications,     \* the schemas that may be published: [schema, family, version, sig]
  Relations,        \* the Relations a match may claim
  MinSamples,       \* PromotionPolicy::min_samples of the shadow lane
  MinObservations,  \* POLICY_MIN_OBSERVATIONS
  TopK,             \* retrieval_k
  PageSize,         \* SWEEP_PAGE_SIZE
  CacheCapacity,    \* DecisionCache capacity
  MaxFaults,        \* bound on failing store calls, expiries and restarts
  MaxEntries        \* bound on the log: no page is read when it is full

ASSUME ShadowAssumption ==
  /\ MinSamples \in Nat \ {0} /\ MinObservations \in Nat /\ TopK \in Nat \ {0}
  /\ PageSize \in Nat \ {0} /\ CacheCapacity \in Nat \ {0}
  /\ MaxFaults \in Nat /\ MaxEntries \in Nat \ {0}
  /\ Relations \subseteq {"exact", "compatible_drift", "incompatible_similarity"}
  /\ \A c \in Cands : /\ Growth[c] \in Seq(Range(Growth[c])) \ {<<>>}
                      /\ \A sig \in Range(Growth[c]) : IsProfile(sig)
  /\ \A r \in Publications : /\ r.schema \in Nat /\ r.family \in Nat /\ r.version \in Nat
                             /\ IsProfile(r.sig)
  /\ \A r, s \in Publications : r.schema = s.schema => r = s

VARIABLES
  store,      \* [Cands -> [count, state]]: count 0 is a candidate not seen yet
  registry,   \* published schemas
  seen,       \* ShadowClassifier::classified: <<candidate, candidate_set_digest>>
  cache,      \* DecisionCache: cache key -> decision
  pc, todo, listed,   \* the sweep: its step, the rest of its page, the pages so far
  job,        \* the candidate in maybe_classify
  log,        \* the shadow streams: logged ShadowDecisions
  outbox,     \* what TrustedApplier did: promotions and proposals
  lost,       \* history: what was marked in this life and will not be logged
  life, faults

vars == <<store, registry, seen, cache, pc, todo, listed, job, log, outbox, lost, life, faults>>
stores == <<store, registry>>
memory == <<seen, cache>>
sweep == <<pc, todo, listed, job>>
records == <<log, outbox, lost>>

NoJob == [cand |-> 0]
Profile(c, n) == Growth[c][Min({n, Len(Growth[c])})]

Schemas == {r.schema : r \in Publications}

Match(s, rel) == [decision |-> "match_schema", schema |-> s, relation |-> rel]
NewCandidate == [decision |-> "new_candidate", schema |-> 0, relation |-> "none"]
Abstain == [decision |-> "abstain", schema |-> 0, relation |-> "none"]
Decisions == {Match(s, rel) : s \in Schemas, rel \in Relations} \cup {NewCandidate, Abstain}

\* What call_once may come back with: arguments that parse as a decision (about any
\* schema at all), arguments that do not, no tool call, or no answer.
Garbled == {[decision |-> k, schema |-> 0, relation |-> "none"] :
              k \in {"malformed", "unknown_field", "no_tool_call", "transport"}}
Answers == Decisions \cup Garbled

----------------------------------------------------------------------------
(* HttpInferencer::classify *)

\* validate_decision
ValidateDecision(a, allowed) ==
  a \in Decisions /\ (a.decision = "match_schema" => a.schema \in allowed)

\* The two attempts.  An answer that names a schema outside the top k is not asked for
\* again; what fails validation becomes an abstention.  The telemetry that says so
\* (parse_error, schema_validation_error, repair_count) is left out.
Attempts(first, second, allowed) ==
  LET last == IF first \in Garbled THEN second ELSE first
  IN [ok |-> last.decision # "transport",
      decision |-> IF ValidateDecision(last, allowed) THEN last ELSE Abstain]
Outcomes(allowed) == {Attempts(first, second, allowed) : first, second \in Answers}

\* Bug: the ranking is left out of the key.
Bug_CacheKey(prompt) == prompt.view
\* cache_key: the model and the contract version are fixed for a process.
CacheKey(prompt) == prompt

\* DecisionCache::put, evicting any key of a full cache.
Puts(c, key, decision) ==
  LET full == Cardinality(DOMAIN c) >= CacheCapacity /\ key \notin DOMAIN c
      kept == IF full THEN {DOMAIN c \ {k} : k \in DOMAIN c} ELSE {DOMAIN c}
  IN {[k \in d \cup {key} |-> IF k = key THEN decision ELSE c[k]] : d \in kept}

----------------------------------------------------------------------------
(* evaluate_policy and the gates around it *)

\* A gate is the input of evaluate_policy.  rank 0 stands for None.
PolicyGate(decision, retrieved, margin, count, collision) ==
  LET chosen == {c \in Range(retrieved) : c.schema = decision.schema}
      is == decision.decision = "match_schema"
  IN [isMatch |-> is,
      rank |-> IF is /\ chosen # {} THEN (CHOOSE c \in chosen : TRUE).rank ELSE 0,
      near |-> is /\ \E c \in chosen : c.distance <= 15 * Scale,
      margin |-> margin, count |-> count, relation |-> decision.relation, collision |-> collision]

\* Bug: the margin between the first two families is not looked at.
Bug_EvaluatePolicy(g) ==
  /\ g.isMatch
  /\ g.rank = 1
  /\ g.near
  /\ g.count >= MinObservations
  /\ g.relation \in {"exact", "compatible_drift"}
  /\ ~g.collision
\* would_accept of evaluate_policy: no gate reason.  The distance gate and
\* deterministic_compat_passed are the same comparison.
EvaluatePolicy(g) ==
  /\ g.isMatch
  /\ g.rank = 1
  /\ g.near
  /\ g.margin >= 10 * Scale
  /\ g.count >= MinObservations
  /\ g.relation \in {"exact", "compatible_drift"}
  /\ ~g.collision

\* counterfactual_live_disposition
Disposition(g) ==
  IF ~g.isMatch THEN "remain_shadow_only"
  ELSE IF EvaluatePolicy(g) THEN "accept_match" ELSE "reject_match"

\* is_accepted_match and trusted_verdict
TrustedVerdict(decision, g, mode) ==
  IF decision.decision # "match_schema" \/ decision.relation = "incompatible_similarity"
  THEN "shadow_only"
  ELSE IF ~EvaluatePolicy(g) THEN "reject"
  ELSE IF mode = "auto_apply" THEN "apply" ELSE "propose"

----------------------------------------------------------------------------
Init ==
  /\ store = [c \in Cands |-> [count |-> 0, state |-> "provisional"]]
  /\ registry = {}
  /\ seen = {} /\ cache = << >>
  /\ pc = "idle" /\ todo = {} /\ listed = {} /\ job = NoJob
  /\ log = {} /\ outbox = {} /\ lost = {}
  /\ life = 1 /\ faults = 0

Provisional == {c \in Cands : store[c].count > 0 /\ store[c].state = "provisional"}

(* The world the sweep reads *)

\* A record of the candidate is ingested: its count grows and its profile generalizes.
Observe(c) ==
  /\ store[c].state = "provisional" /\ store[c].count < Len(Growth[c])
  /\ store' = [store EXCEPT ![c].count = @ + 1]
  /\ UNCHANGED <<registry, memory, sweep, records, life, faults>>

\* The candidate's TTL ends (it is not seen again within the bound).
Expire(c) ==
  /\ c \in Provisional
  /\ store' = [store EXCEPT ![c].state = "expired"]
  /\ faults < MaxFaults /\ faults' = faults + 1
  /\ UNCHANGED <<registry, memory, sweep, records, life>>

\* A schema is published; versions of a family are allocated in order.
Publish(r) ==
  /\ r \notin registry
  /\ \A s \in Publications : s.family = r.family /\ s.version < r.version => s \in registry
  /\ registry' = registry \cup {r}
  /\ UNCHANGED <<store, memory, sweep, records, life, faults>>

----------------------------------------------------------------------------
(* sweep_once *)

\* list_candidates: a page of candidates the sweep has not listed yet.
Page ==
  /\ pc = "idle" \/ (pc = "next" /\ todo = {} /\ Provisional \ listed # {})
  /\ \E page \in SUBSET (Provisional \ listed) :
       /\ Cardinality(page) = Min({PageSize, Cardinality(Provisional \ listed)})
       /\ todo' = page /\ listed' = listed \cup page
  /\ Provisional # {} /\ pc' = "next"
  /\ Cardinality(log) < MaxEntries
  /\ UNCHANGED <<stores, memory, job, records, life, faults>>

\* No cursor is left: the sweep ends.
LastPage ==
  /\ pc = "next" /\ todo = {} /\ Provisional \subseteq listed
  /\ pc' = "idle" /\ listed' = {}
  /\ UNCHANGED <<stores, memory, todo, job, records, life, faults>>

\* list_candidates fails: the rest waits for the next tick.
PageFails ==
  /\ pc = "next" /\ todo = {} /\ faults < MaxFaults
  /\ pc' = "idle" /\ listed' = {} /\ faults' = faults + 1
  /\ UNCHANGED <<stores, memory, todo, job, records, life>>

(* maybe_classify *)

\* Done with a candidate, for whatever reason: the sweep goes on with the next.
NextCandidate(c) == pc' = "next" /\ todo' = todo \ {c} /\ job' = NoJob

Eligible(rec) == rec.count >= MinSamples

\* get_candidate and the eligibility check.
Read(c) ==
  /\ pc = "next" /\ c \in todo
  /\ IF store[c].state # "expired" /\ Eligible(store[c])
     THEN /\ job' = [cand |-> c, count |-> store[c].count, sig |-> Profile(c, store[c].count)]
          /\ pc' = "retrieve" /\ UNCHANGED todo
     ELSE NextCandidate(c)
  /\ UNCHANGED <<stores, memory, listed, records, life, faults>>

\* candidate_set_digest: which schemas, not in which order or how far.
CandidateSetDigest(retrieved) ==
  {[schema |-> c.schema, family |-> c.family, version |-> c.version] : c \in Range(retrieved)}

\* Bug: the pair is looked up but not inserted.
Bug_Debounced(key) == seen' = seen
\* The test and insert under the mutex: the pair is marked before the model is asked.
Debounced(key) == seen' = seen \cup {key}

\* retrieve_topk, the debounce, the view and the prompt.
Retrieve ==
  /\ pc = "retrieve"
  /\ \E found \in {RetrieveTopK(registry, job.sig, TopK)} :
       LET digest == CandidateSetDigest(found.candidates)
           view == ProfileView(job.sig, job.count)
       IN IF <<job.cand, digest>> \in seen
          THEN NextCandidate(job.cand) /\ UNCHANGED seen
          ELSE /\ Debounced(<<job.cand, digest>>)
               /\ job' = [cand |-> job.cand, count |-> job.count, sig |-> job.sig, over |-> registry,
                          found |-> found, digest |-> digest,
                          prompt |-> BuildPrompt(view, found.candidates)]
               /\ pc' = "call" /\ UNCHANGED todo
  /\ UNCHANGED <<stores, cache, listed, records, life, faults>>

\* get_candidate or list_families_by_band_depth fails: nothing was marked.
ReadFails ==
  /\ \/ pc = "next" /\ \E c \in todo : NextCandidate(c)
     \/ pc = "retrieve" /\ NextCandidate(job.cand)
  /\ faults < MaxFaults /\ faults' = faults + 1
  /\ UNCHANGED <<stores, memory, listed, records, life>>

\* What maybe_classify makes of the inferencer's result.
Answered(result) ==
  /\ pc' = "append"
  /\ job' = [cand |-> job.cand, count |-> job.count, sig |-> job.sig, over |-> job.over,
             found |-> job.found, digest |-> job.digest, result |-> result,
             gate |-> PolicyGate(result.decision, job.found.candidates, job.found.margin, job.count,
                                 DetectRedactionCollision(job.prompt.view))]

\* classify answers from the cache, whatever the telemetry of the call that filled it.
CacheHit ==
  /\ pc = "call" /\ CacheKey(job.prompt) \in DOMAIN cache
  /\ Answered([ok |-> TRUE, decision |-> cache[CacheKey(job.prompt)]])
  /\ UNCHANGED <<stores, memory, todo, listed, records, life, faults>>

\* classify fails for good: the failure itself is logged.
CallFails(result) ==
  /\ Answered(result)
  /\ UNCHANGED <<stores, memory, todo, listed, records, life, faults>>

\* classify asks the model (once or twice).  classify_with_retry repeats a call that
\* failed; a repetition changes nothing here, so it shows only as its last result.
Call(result) ==
  /\ pc = "call" /\ CacheKey(job.prompt) \notin DOMAIN cache
  /\ \/ /\ result.ok
        /\ Answered(result)
        /\ cache' \in Puts(cache, CacheKey(job.prompt), result.decision)
        /\ UNCHANGED <<stores, seen, todo, listed, records, life, faults>>
     \/ /\ ~result.ok
        /\ CallFails(result)

\* The ShadowDecision: an entry gets the next id of the candidate's stream.
ShadowDecision ==
  [id |-> 1 + Cardinality({e \in log : e.cand = job.cand}), life |-> life,
   cand |-> job.cand, count |-> job.count, sig |-> job.sig, over |-> job.over,
   retrieved |-> job.found.candidates, digest |-> job.digest,
   result |-> job.result, gate |-> job.gate, disposition |-> Disposition(job.gate)]

\* ShadowLog::append (XADD).
AppendLog ==
  /\ pc = "append"
  /\ log' = log \cup {ShadowDecision}
  /\ NextCandidate(job.cand)
  /\ UNCHANGED <<stores, memory, listed, outbox, lost, life, faults>>

\* XADD fails: maybe_classify returns the error, and the mark stays.
AppendFails ==
  /\ pc = "append" /\ faults < MaxFaults
  /\ faults' = faults + 1
  /\ lost' = lost \cup {<<job.cand, job.digest>>}
  /\ NextCandidate(job.cand)
  /\ UNCHANGED <<stores, memory, listed, log, outbox, life>>

\* The process restarts; the classifier and the inferencer begin anew.
Restart ==
  /\ faults < MaxFaults
  /\ faults' = faults + 1 /\ life' = life + 1
  /\ seen' = {} /\ cache' = << >> /\ lost' = {}
  /\ pc' = "idle" /\ todo' = {} /\ listed' = {} /\ job' = NoJob
  /\ UNCHANGED <<stores, log, outbox>>

----------------------------------------------------------------------------
\* A promotion, or a Proposal as ProposalSink::record keeps it; a proposal has no family yet.
Proposal(e, verdict, family) ==
  [verdict |-> verdict, cand |-> e.cand, schema |-> e.result.decision.schema, family |-> family]
Record(p) == outbox' = outbox \cup {p}

\* TrustedApplier::apply_if_trusted on a logged decision and its gate.  Promotion goes
\* into the family of the schema that was matched.
ApplyIfTrusted(e, mode) ==
  LET verdict == TrustedVerdict(e.result.decision, e.gate, mode)
      existing == {r \in registry : r.schema = e.result.decision.schema}
  IN /\ e.result.ok
     /\ \/ /\ verdict = "apply"
           /\ existing # {} /\ e.cand \in Provisional
           /\ store' = [store EXCEPT ![e.cand].state = "promoted"]
           /\ \E r \in existing : Record(Proposal(e, verdict, r.family))
        \/ /\ verdict = "propose"
           /\ Record(Proposal(e, verdict, 0))
           /\ UNCHANGED store
     /\ UNCHANGED <<registry, memory, sweep, log, lost, life, faults>>

SweepNext ==
  \/ Page \/ LastPage \/ Retrieve \/ CacheHit \/ AppendLog
  \/ \E c \in Cands : Read(c)
  \/ pc = "call" /\ \E result \in Outcomes(job.prompt.allowed) : Call(result)

WorldNext ==
  \/ \E c \in Cands : Observe(c) \/ Expire(c)
  \/ \E r \in Publications : Publish(r)
  \/ \E e \in log, mode \in {"auto_apply", "propose_only"} : ApplyIfTrusted(e, mode)
  \/ PageFails \/ ReadFails \/ AppendFails \/ Restart

Next == SweepNext \/ WorldNext

Spec == Init /\ [][Next]_vars

----------------------------------------------------------------------------
(* Properties *)

\* In one life of the process a candidate is scored at most once against the same set
\* of schemas, however its profile, its counts and the schemas' ranks move
\* (maybe_classify's debounce).
OncePerCandidateSet ==
  \A d, e \in log : d.life = e.life /\ d.cand = e.cand /\ d.digest = e.digest => d = e

\* A logged match names a schema that was offered for this very candidate, at the rank
\* it had there, even when the decision came out of the cache and the registry or the
\* profile changed since it was made (cache_key, validate_decision).
SelectedWasOffered ==
  \A e \in log : e.result.decision.decision = "match_schema" =>
    \E i \in DOMAIN e.retrieved : /\ e.retrieved[i].schema = e.result.decision.schema
                                  /\ e.gate.rank = i /\ e.retrieved[i].rank = i

\* No other family of the neighbourhood, in any of its versions, comes within the margin
\* of the family that was selected.
UnrivalledBy(e) ==
  LET own == CHOOSE s \in e.over : s.schema = e.result.decision.schema
      limit == Distance(e.sig, own.sig) + 10 * Scale
  IN \A r \in ListFamilies(e.over, e.sig) : r.family # own.family => Distance(e.sig, r.sig) >= limit

\* What TrustedApplier applied or proposed is what an entry of the log accepted.
AppliedWasAccepted ==
  \A o \in outbox : \E e \in log : /\ e.cand = o.cand /\ e.result.decision.schema = o.schema
                                   /\ e.disposition = "accept_match"

\* What the policy accepts, or TrustedApplier applied or proposed, is the schema of the
\* one family that is near (rank_candidates, evaluate_policy, trusted_verdict).
AcceptedIsUnrivalled ==
  /\ \A e \in log : e.disposition = "accept_match" => UnrivalledBy(e)
  /\ AppliedWasAccepted

\* A schema whose canonical form is the candidate's own is found by the widened bucket
\* lookup: the first candidate then lies at distance 0 (neighbor_bands_and_depths,
\* compute_distance).
TwinIsFound ==
  pc \in {"call", "append"} /\ (\E r \in job.over : r.sig = job.sig) =>
    job.found.candidates # <<>> /\ job.found.candidates[1].distance = 0

\* The model can choose only among what was retrieved for this candidate, and the
\* obvious choice is among it.
SelectionIsSound == SelectedWasOffered /\ TwinIsFound

\* A pair that is marked, and so will not be asked about again in this life, has its
\* decision in the log, or is being worked on, or lost its entry to a failing XADD: no
\* other end of maybe_classify, an unreachable model or an answer that fails validation
\* twice included, forgets a candidate it has marked.
MarkedIsAccountedFor ==
  \A pair \in seen :
    \/ \E e \in log : e.life = life /\ <<e.cand, e.digest>> = pair
    \/ pc \in {"call", "append"} /\ <<job.cand, job.digest>> = pair
    \/ pair \in lost

\* Together: a candidate set is asked about once and its decision logged once, unless
\* the log itself failed.
MarkedIsLoggedOnce == OncePerCandidateSet /\ MarkedIsAccountedFor

=============================================================================
