---------------------------- MODULE ReviewProofs ----------------------------
(***************************************************************************)
(* Proofs about what a model or people decide beside the hot path: the     *)
(* distance and the ranking of candidates (Retrieval), the shadow lane's   *)
(* log, cache, debounce and acceptance (Shadow), the assembly,             *)
(* verification and execution of transforms (Projection), and the          *)
(* listings, the lineage and the gold events of umbrellas (Umbrella).      *)
(***************************************************************************)
EXTENDS Umbrella, NatFacts, Shadow, TLAPS

-----------------------------------------------------------------------------
(* Shadow: a candidate set is asked about once.                             *)

\* The pair the sweep has marked and is working on.
Working == pc \in {"call", "append"}

LoggedHere(pair) == \E e \in log : e.life = life /\ <<e.cand, e.digest>> = pair

DebounceInv ==
    /\ life \in Nat
    /\ \A e \in log : e.life \in Nat /\ e.life <= life
    /\ \A e \in log : e.life = life => <<e.cand, e.digest>> \in seen
    /\ Working => <<job.cand, job.digest>> \in seen /\ ~LoggedHere(<<job.cand, job.digest>>)
    /\ OncePerCandidateSet
    /\ MarkedIsAccountedFor

\* Nothing is logged or marked, and the sweep is not at a marked pair, before or after.
LEMMA DebounceStays ==
    ASSUME DebounceInv, UNCHANGED <<log, seen, life, lost>>, ~Working, ~Working'
    PROVE  DebounceInv'
BY DEF DebounceInv, Working, LoggedHere, OncePerCandidateSet, MarkedIsAccountedFor

\* ... or it is still at the same one.
LEMMA DebounceWorks ==
    ASSUME DebounceInv, UNCHANGED <<log, seen, life, lost>>, Working <=> Working',
           job'.cand = job.cand, job'.digest = job.digest
    PROVE  DebounceInv'
BY DEF DebounceInv, Working, LoggedHere, OncePerCandidateSet, MarkedIsAccountedFor

\* The world moves beside the sweep.
LEMMA WorldStep ==
    ASSUME DebounceInv,
           \/ \E c \in Cands : Observe(c) \/ Expire(c)
           \/ \E r \in Publications : Publish(r)
           \/ \E e \in log, mode \in {"auto_apply", "propose_only"} : ApplyIfTrusted(e, mode)
           \/ UNCHANGED vars
    PROVE  DebounceInv'
<1>1. UNCHANGED <<log, seen, life, lost, pc, job>>
  BY DEF Observe, Expire, Publish, ApplyIfTrusted, memory, sweep, records, vars
<1> QED BY <1>1, DebounceWorks DEF Working

\* A sweep that has marked nothing of its page moves on, or fails before it marks.
LEMMA QuietSweep ==
    ASSUME DebounceInv, ~Working,
           \/ Page \/ LastPage \/ PageFails \/ ReadFails
           \/ \E c \in Cands : Read(c)
    PROVE  DebounceInv'
<1>1. UNCHANGED <<log, seen, life, lost>> /\ pc' \notin {"call", "append"}
  BY DEF Page, LastPage, PageFails, ReadFails, Read, NextCandidate, stores, memory, records
<1> QED BY <1>1, DebounceStays DEF Working

\* The pair is marked, and was not: nothing of this life has it in the log.
LEMMA RetrieveStep ==
    ASSUME DebounceInv, Retrieve
    PROVE  DebounceInv'
<1>1. UNCHANGED <<log, life, lost>> /\ pc = "retrieve"
  BY DEF Retrieve, records
<1>2. CASE seen' = seen /\ pc' = "next"
  BY <1>1, <1>2, DebounceStays DEF Working
<1>3. ASSUME NEW digest, <<job.cand, digest>> \notin seen, seen' = seen \cup {<<job.cand, digest>>},
             job'.cand = job.cand, job'.digest = digest, pc' = "call"
      PROVE  DebounceInv'
  <2>1. ~LoggedHere(<<job.cand, digest>>)
    BY <1>3 DEF DebounceInv, LoggedHere
  <2> QED BY <1>1, <1>3, <2>1 DEF DebounceInv, Working, LoggedHere, OncePerCandidateSet, MarkedIsAccountedFor
<1> QED BY <1>2, <1>3 DEF Retrieve, Debounced, NextCandidate

\* The answer is on its way: the pair is the same.
LEMMA AnsweredStep ==
    ASSUME DebounceInv, pc = "call", NEW result, Answered(result), UNCHANGED <<log, seen, life, lost>>
    PROVE  DebounceInv'
<1>1. job'.cand = job.cand /\ job'.digest = job.digest /\ pc' = "append"
  BY DEF Answered
<1> QED BY <1>1, DebounceWorks DEF Working

\* The decision is logged: the first of its pair in this life.
LEMMA AppendStep ==
    ASSUME DebounceInv, AppendLog
    PROVE  DebounceInv'
<1>1. UNCHANGED <<seen, life, lost>> /\ pc = "append" /\ pc' = "next" /\ Working
  BY DEF AppendLog, NextCandidate, memory, Working
<1>2. PICK e : e = ShadowDecision
  OBVIOUS
<1>3. log' = log \cup {e} /\ e.life = life /\ e.cand = job.cand /\ e.digest = job.digest
  BY <1>2 DEF AppendLog, ShadowDecision
<1>4. \A d \in log : ~(d.life = life /\ d.cand = job.cand /\ d.digest = job.digest)
  BY <1>1 DEF DebounceInv, LoggedHere
<1>5. OncePerCandidateSet'
  BY <1>3, <1>4 DEF DebounceInv, OncePerCandidateSet
<1>6. MarkedIsAccountedFor'
  BY <1>1, <1>3 DEF DebounceInv, MarkedIsAccountedFor
<1> QED BY <1>1, <1>3, <1>5, <1>6 DEF DebounceInv, Working

\* XADD fails: what was marked is lost.
LEMMA AppendFailsStep ==
    ASSUME DebounceInv, AppendFails
    PROVE  DebounceInv'
BY DEF AppendFails, NextCandidate, memory, DebounceInv, Working, OncePerCandidateSet, MarkedIsAccountedFor

\* The classifier begins anew, and its marks with it.
LEMMA RestartStep ==
    ASSUME DebounceInv, Restart
    PROVE  DebounceInv'
<1>1. life' = life + 1 /\ log' = log /\ seen' = {} /\ ~Working'
  BY DEF Restart, Working
<1>2. \A e \in log : e.life \in Nat /\ e.life <= life'
  BY <1>1 DEF DebounceInv
<1>3. \A e \in log : e.life # life'
  BY <1>1 DEF DebounceInv
<1>4. OncePerCandidateSet' /\ MarkedIsAccountedFor'
  BY <1>1 DEF DebounceInv, OncePerCandidateSet, MarkedIsAccountedFor
<1>5. life' \in Nat
  BY <1>1 DEF DebounceInv
<1> QED BY <1>1, <1>2, <1>3, <1>4, <1>5 DEF DebounceInv

\* In one life a candidate set is asked about once and its decision logged once, unless
\* the log itself failed: whatever the registry, the profiles and the answers do.
THEOREM DebounceHolds == Spec => []MarkedIsLoggedOnce
<1>1. Init => DebounceInv
  BY DEF Init, DebounceInv, Working, OncePerCandidateSet, MarkedIsAccountedFor
<1>2. DebounceInv /\ [Next]_vars => DebounceInv'
  <2> SUFFICES ASSUME DebounceInv, [Next]_vars PROVE DebounceInv'
    OBVIOUS
  <2>1. CASE \/ \E c \in Cands : Observe(c) \/ Expire(c)
             \/ \E r \in Publications : Publish(r)
             \/ \E e \in log, mode \in {"auto_apply", "propose_only"} : ApplyIfTrusted(e, mode)
             \/ UNCHANGED vars
    BY <2>1, WorldStep
  <2>2. CASE Page \/ LastPage \/ PageFails \/ ReadFails \/ \E c \in Cands : Read(c)
    <3>1. ~Working
      BY <2>2 DEF Page, LastPage, PageFails, ReadFails, Read, Working
    <3> QED BY <2>2, <3>1, QuietSweep
  <2>3. CASE Retrieve
    BY <2>3, RetrieveStep
  <2>4. CASE CacheHit
    BY <2>4, AnsweredStep DEF CacheHit, memory, records
  <2>5. ASSUME NEW result, Call(result) PROVE DebounceInv'
    BY <2>5, AnsweredStep DEF Call, CallFails, memory, records
  <2>6. CASE AppendLog
    BY <2>6, AppendStep
  <2>7. CASE AppendFails
    BY <2>7, AppendFailsStep
  <2>8. CASE Restart
    BY <2>8, RestartStep
  <2> QED BY <2>1, <2>2, <2>3, <2>4, <2>5, <2>6, <2>7, <2>8 DEF Next, SweepNext, WorldNext
<1>3. DebounceInv => MarkedIsLoggedOnce
  BY DEF DebounceInv, MarkedIsLoggedOnce
<1> QED BY <1>1, <1>2, <1>3, PTL DEF Spec

-----------------------------------------------------------------------------
(* Shadow: what is logged was offered, and what is applied was accepted.    *)

\* A decision names a schema of a set, if it names one at all.
Within(decision, schemas) == decision.decision = "match_schema" => decision.schema \in schemas

SchemasOf(retrieved) == {c.schema : c \in Range(retrieved)}

\* The ranks are the positions.
Ranked(retrieved) == \A i \in DOMAIN retrieved : retrieved[i].rank = i

\* What SelectedWasOffered says of one entry.
Offered(decision, retrieved, gate) ==
    decision.decision = "match_schema" =>
        \E i \in DOMAIN retrieved : /\ retrieved[i].schema = decision.schema
                                    /\ gate.rank = i /\ retrieved[i].rank = i

\* Every cached decision stays within the schemas of the prompt it answered, and so does
\* the prompt the sweep has built within what it retrieved; each entry's disposition is
\* its gate's.
OfferInv ==
    /\ \A key \in DOMAIN cache : Within(cache[key], key.allowed)
    /\ Working => Ranked(job.found.candidates)
    /\ pc = "call" => job.prompt.allowed = SchemasOf(job.found.candidates)
    /\ pc = "append" => /\ Offered(job.result.decision, job.found.candidates, job.gate)
                        /\ job.gate.isMatch <=> job.result.decision.decision = "match_schema"
    /\ \A e \in log : /\ Offered(e.result.decision, e.retrieved, e.gate)
                      /\ e.gate.isMatch <=> e.result.decision.decision = "match_schema"
                      /\ e.disposition = Disposition(e.gate)
    /\ AppliedWasAccepted

\* The gate finds the schema where the ranking has it.
LEMMA GateFindsIt ==
    ASSUME NEW decision, NEW retrieved, NEW margin, NEW count, NEW collision, NEW gate,
           Within(decision, SchemasOf(retrieved)), Ranked(retrieved),
           gate = PolicyGate(decision, retrieved, margin, count, collision)
    PROVE  /\ Offered(decision, retrieved, gate)
           /\ gate.isMatch <=> decision.decision = "match_schema"
<1>1. gate.isMatch <=> decision.decision = "match_schema"
  BY DEF PolicyGate
<1>2. ASSUME decision.decision = "match_schema"
      PROVE  \E i \in DOMAIN retrieved : /\ retrieved[i].schema = decision.schema
                                         /\ gate.rank = i /\ retrieved[i].rank = i
  <2>1. {c \in Range(retrieved) : c.schema = decision.schema} # {}
    BY <1>2 DEF Within, SchemasOf
  <2>2. gate.rank = (CHOOSE c \in {c \in Range(retrieved) : c.schema = decision.schema} : TRUE).rank
    BY <1>2, <2>1 DEF PolicyGate
  <2>3. PICK c \in {c \in Range(retrieved) : c.schema = decision.schema} : gate.rank = c.rank
    BY <2>1, <2>2
  <2>4. PICK i \in DOMAIN retrieved : retrieved[i] = c
    BY <2>3 DEF Range
  <2> QED BY <2>3, <2>4 DEF Ranked
<1> QED BY <1>1, <1>2 DEF Offered

\* Where nothing is answered, cached, logged or applied.
LEMMA OfferStays ==
    ASSUME OfferInv, UNCHANGED <<cache, log, outbox>>,
           Working' => UNCHANGED <<pc, job>>
    PROVE  OfferInv'
<1>1. CASE Working'
  BY <1>1 DEF OfferInv, Working, AppliedWasAccepted
<1>2. CASE ~Working'
  BY <1>2 DEF OfferInv, Working, AppliedWasAccepted
<1> QED BY <1>1, <1>2

\* The ranking numbers what it returns.
LEMMA RankingNumbers ==
    ASSUME NEW reg, NEW sig, NEW k, NEW found, found = RetrieveTopK(reg, sig, k)
    PROVE  Ranked(found.candidates)
<1>1. PICK refs : refs = ListFamilies(reg, sig)
  OBVIOUS
<1>2. PICK ranked : ranked = Ranking(sig, FamilyRepresentatives(sig, refs))
  OBVIOUS
<1>3. found = RankCandidates(sig, refs, k)
  BY <1>1 DEF RetrieveTopK
<1>4. found.candidates = [i \in 1..Min({k, Len(ranked)}) |-> FamilyCandidate(sig, ranked[i], i)]
  BY <1>2, <1>3 DEF RankCandidates, Foremost
<1>5. \A i, r : FamilyCandidate(sig, r, i).rank = i
  BY DEF FamilyCandidate
<1> QED BY <1>4, <1>5 DEF Ranked

\* The prompt allows what was retrieved.
LEMMA OfferRetrieve ==
    ASSUME OfferInv, Retrieve
    PROVE  OfferInv'
<1>1. UNCHANGED <<cache, log, outbox>>
  BY DEF Retrieve, records
<1>2. CASE pc' = "next"
  BY <1>1, <1>2, OfferStays DEF Working
<1>3. CASE pc' = "call"
  <2>1. PICK found : found = RetrieveTopK(registry, job.sig, TopK)
    OBVIOUS
  <2>2. PICK view : view = ProfileView(job.sig, job.count)
    OBVIOUS
  <2>3. job'.found = found /\ job'.prompt = BuildPrompt(view, found.candidates)
    BY <1>3, <2>1, <2>2 DEF Retrieve, NextCandidate
  <2>4. job'.prompt.allowed = SchemasOf(found.candidates)
    BY <2>3 DEF BuildPrompt, SchemasOf
  <2>5. Ranked(found.candidates)
    BY <2>1, RankingNumbers
  <2> QED BY <1>1, <1>3, <2>3, <2>4, <2>5 DEF OfferInv, AppliedWasAccepted
<1> QED BY <1>2, <1>3 DEF Retrieve, NextCandidate

\* An answer that stays within the prompt is offered by what was retrieved.
LEMMA OfferAnswered ==
    ASSUME OfferInv, pc = "call", NEW result, Answered(result), UNCHANGED <<log, outbox>>,
           Within(result.decision, job.prompt.allowed),
           \A key \in DOMAIN cache' : Within(cache'[key], key.allowed)
    PROVE  OfferInv'
<1>1. PICK retrieved, margin, count, collision :
         /\ retrieved = job.found.candidates
         /\ job'.found = job.found /\ job'.result = result /\ pc' = "append"
         /\ job'.gate = PolicyGate(result.decision, retrieved, margin, count, collision)
  BY DEF Answered
<1>2. Within(result.decision, SchemasOf(retrieved)) /\ Ranked(retrieved)
  BY <1>1 DEF OfferInv, Working
<1>3. PICK gate : gate = PolicyGate(result.decision, retrieved, margin, count, collision)
  OBVIOUS
<1>4. /\ Offered(result.decision, retrieved, gate)
      /\ gate.isMatch <=> result.decision.decision = "match_schema"
  BY <1>2, <1>3, GateFindsIt
<1> QED BY <1>1, <1>2, <1>3, <1>4 DEF OfferInv, Working, AppliedWasAccepted

\* validate_decision lets no other schema through, and an abstention names none.
LEMMA OutcomeIsWithin ==
    ASSUME NEW allowed, NEW result \in Outcomes(allowed)
    PROVE  Within(result.decision, allowed)
<1>1. PICK last : result.decision = IF ValidateDecision(last, allowed) THEN last ELSE Abstain
  <2>1. PICK first \in Answers, second \in Answers : result = Attempts(first, second, allowed)
    BY DEF Outcomes
  <2> QED BY <2>1 DEF Attempts
<1> QED BY <1>1 DEF ValidateDecision, Abstain, Within

\* The cache keeps an answer under the prompt it was given for.
LEMMA PutsWithin ==
    ASSUME NEW c, \A k \in DOMAIN c : Within(c[k], k.allowed),
           NEW key, NEW decision, Within(decision, key.allowed), NEW d \in Puts(c, key, decision)
    PROVE  \A k \in DOMAIN d : Within(d[k], k.allowed)
<1>1. PICK kept : /\ kept \subseteq DOMAIN c
                  /\ d = [k \in kept \cup {key} |-> IF k = key THEN decision ELSE c[k]]
  BY DEF Puts
<1> QED BY <1>1

\* The entry is what the job came to.
LEMMA OfferAppend ==
    ASSUME OfferInv, AppendLog
    PROVE  OfferInv'
<1>1. PICK e : e = ShadowDecision
  OBVIOUS
<1>2. /\ log' = log \cup {e} /\ pc = "append" /\ pc' = "next" /\ UNCHANGED <<cache, outbox>>
      /\ e.retrieved = job.found.candidates /\ e.result = job.result /\ e.gate = job.gate
      /\ e.disposition = Disposition(e.gate)
  BY <1>1 DEF AppendLog, ShadowDecision, NextCandidate, memory
<1>3. /\ Offered(e.result.decision, e.retrieved, e.gate)
      /\ e.gate.isMatch <=> e.result.decision.decision = "match_schema"
  BY <1>2 DEF OfferInv
<1>4. AppliedWasAccepted'
  BY <1>2 DEF OfferInv, AppliedWasAccepted
<1> QED BY <1>2, <1>3, <1>4 DEF OfferInv, Working

\* What is applied or proposed is of an entry whose gate accepts.
LEMMA OfferApplied ==
    ASSUME OfferInv, NEW e \in log, NEW mode \in {"auto_apply", "propose_only"}, ApplyIfTrusted(e, mode)
    PROVE  OfferInv'
<1>1. PICK verdict : verdict = TrustedVerdict(e.result.decision, e.gate, mode)
  OBVIOUS
<1>2. PICK family : outbox' = outbox \cup {Proposal(e, verdict, family)} /\ verdict \in {"apply", "propose"}
  BY <1>1 DEF ApplyIfTrusted, Record
<1>3. PICK o : o = Proposal(e, verdict, family)
  OBVIOUS
<1>4. o.cand = e.cand /\ o.schema = e.result.decision.schema
  BY <1>3 DEF Proposal
<1>5. EvaluatePolicy(e.gate)
  BY <1>1, <1>2 DEF TrustedVerdict
<1>6. e.disposition = "accept_match"
  BY <1>5 DEF OfferInv, Disposition, EvaluatePolicy
<1>7. UNCHANGED <<cache, log, pc, job>>
  BY DEF ApplyIfTrusted, memory, sweep
<1>8. AppliedWasAccepted'
  BY <1>2, <1>3, <1>4, <1>6, <1>7 DEF OfferInv, AppliedWasAccepted
<1> QED BY <1>7, <1>8 DEF OfferInv, Working

\* The step of each action of the sweep and of the world.
LEMMA OfferStep ==
    ASSUME OfferInv, [Next]_vars
    PROVE  OfferInv'
<1>1. CASE \/ \E c \in Cands : Observe(c) \/ Expire(c) \/ Read(c)
           \/ \E r \in Publications : Publish(r)
           \/ Page \/ LastPage \/ PageFails \/ ReadFails \/ AppendFails \/ UNCHANGED vars
  <2>1. UNCHANGED <<cache, log, outbox>> /\ (Working' => UNCHANGED <<pc, job>>)
    BY <1>1 DEF Observe, Expire, Read, Publish, Page, LastPage, PageFails, ReadFails, AppendFails, NextCandidate,
                memory, sweep, records, vars, Working
  <2> QED BY <2>1, OfferStays
<1>2. CASE Restart
  <2>1. UNCHANGED <<log, outbox>> /\ ~Working' /\ pc' = "idle" /\ DOMAIN cache' = {}
    BY <1>2 DEF Restart, Working
  <2> QED BY <2>1 DEF OfferInv, AppliedWasAccepted
<1>3. CASE Retrieve
  BY <1>3, OfferRetrieve
<1>4. CASE CacheHit
  <2>1. PICK result : /\ Answered(result) /\ result.decision = cache[CacheKey(job.prompt)]
                      /\ pc = "call" /\ job.prompt \in DOMAIN cache /\ UNCHANGED <<cache, log, outbox>>
    BY <1>4 DEF CacheHit, CacheKey, memory, records
  <2>2. Within(result.decision, job.prompt.allowed)
    BY <2>1 DEF OfferInv, CacheKey
  <2> QED BY <2>1, <2>2, OfferAnswered DEF OfferInv
<1>5. ASSUME pc = "call", NEW result \in Outcomes(job.prompt.allowed), Call(result)
      PROVE  OfferInv'
  <2>1. /\ Answered(result) /\ UNCHANGED <<log, outbox>>
        /\ cache' = cache \/ cache' \in Puts(cache, job.prompt, result.decision)
    BY <1>5 DEF Call, CallFails, CacheKey, memory, records
  <2>2. Within(result.decision, job.prompt.allowed)
    BY <1>5, OutcomeIsWithin
  <2>3. \A key \in DOMAIN cache' : Within(cache'[key], key.allowed)
    BY <2>1, <2>2, PutsWithin DEF OfferInv
  <2> QED BY <1>5, <2>1, <2>2, <2>3, OfferAnswered
<1>6. CASE AppendLog
  BY <1>6, OfferAppend
<1>7. ASSUME NEW e \in log, NEW mode \in {"auto_apply", "propose_only"}, ApplyIfTrusted(e, mode)
      PROVE  OfferInv'
  BY <1>7, OfferApplied
<1> QED BY <1>1, <1>2, <1>3, <1>4, <1>5, <1>6, <1>7 DEF Next, SweepNext, WorldNext

\* The invariant of what was offered.
LEMMA OfferAlways == Spec => []OfferInv
<1>1. Init => OfferInv
  BY DEF Init, OfferInv, Working, AppliedWasAccepted
<1>2. OfferInv /\ [Next]_vars => OfferInv'
  BY OfferStep
<1> QED BY <1>1, <1>2, PTL DEF Spec

\* A logged match names a schema that was offered for this very candidate, at the rank it
\* had there, also when the decision came out of the cache, whatever was published,
\* observed or restarted since; and nothing is applied or proposed but what an entry of the
\* log accepted.
THEOREM OffersHold == Spec => [](SelectedWasOffered /\ AppliedWasAccepted)
<1>1. OfferInv => SelectedWasOffered /\ AppliedWasAccepted
  BY DEF OfferInv, SelectedWasOffered, Offered
<1> QED BY <1>1, OfferAlways, PTL

-----------------------------------------------------------------------------
(* Shadow: the distance of two profiles.                                    *)

\* A quotient of something that is no more than s times the divisor.
LEMMA Quotient ==
    ASSUME NEW s \in Nat, NEW m \in Nat, NEW c \in Nat \ {0}, m <= s * c
    PROVE  m \div c \in 0..s
<1>1. PICK q \in Nat : q = m \div c /\ q * c <= m
  OBVIOUS
<1>2. q <= s
  <2> SUFFICES ASSUME q >= s + 1 PROVE FALSE
    OBVIOUS
  <2>1. PICK d \in Nat : q = s + 1 + d
    <3>1. q - (s + 1) \in Nat /\ q = s + 1 + (q - (s + 1))
      OBVIOUS
    <3> QED BY <3>1
  <2>2. d * c \in Nat /\ q * c = s * c + c + d * c
    BY <2>1
  <2>3. s * c \in Nat /\ q * c \in Nat
    OBVIOUS
  <2> QED BY <1>1, <2>2, <2>3
<1> QED BY <1>1, <1>2

\* A part of a whole, in parts of s.
LEMMA Parts ==
    ASSUME NEW s \in Nat, NEW i \in Nat, NEW c \in Nat \ {0}, i <= c
    PROVE  /\ (s * i) \div c \in 0..s
           /\ i = c => (s * i) \div c = s
<1>1. PICK m \in Nat : m = s * i
  OBVIOUS
<1>2. m <= s * c
  <2>1. PICK d \in Nat : c = i + d
    <3>1. c - i \in Nat /\ c = i + (c - i)
      OBVIOUS
    <3> QED BY <3>1
  <2>2. s * d \in Nat /\ s * c = s * i + s * d
    BY <2>1
  <2> QED BY <1>1, <2>2
<1>3. i = c => m \div c = s
  BY <1>1
<1> QED BY <1>1, <1>2, <1>3, Quotient

LEMMA Jaccard ==
    ASSUME NEW a, NEW b, IsFiniteSet(a), IsFiniteSet(b)
    PROVE  /\ JaccardDistance(a, b) \in 0..Scale
           /\ a = b => JaccardDistance(a, b) = 0
<1>1. PICK common : common = a \cap b
  OBVIOUS
<1>2. PICK all : all = a \cup b
  OBVIOUS
<1>3. IsFiniteSet(all) /\ IsFiniteSet(common) /\ common \in SUBSET all
  BY <1>1, <1>2, FS_Union, FS_Subset
<1>4. PICK i, c : i = Cardinality(common) /\ c = Cardinality(all)
  OBVIOUS
<1>5. i \in Nat /\ c \in Nat /\ i <= c /\ (c = 0 <=> all = {})
  BY <1>3, <1>4, FS_CardinalityType, FS_Subset, FS_EmptySet
<1>6. Scale \in Nat
  BY RetrievalAssumption
<1>7. ASSUME c # 0
      PROVE  (Scale * i) \div c \in 0..Scale /\ (i = c => (Scale * i) \div c = Scale)
  BY <1>5, <1>6, <1>7, Parts
<1>8. a = b => i = c
  BY <1>1, <1>2, <1>4
<1>9. JaccardDistance(a, b) = IF c = 0 THEN 0 ELSE Scale - (Scale * i) \div c
  <2>1. JaccardDistance(a, b) = IF all = {} THEN 0 ELSE Scale - (Scale * Cardinality(common)) \div Cardinality(all)
    BY <1>1, <1>2, Zenon DEF JaccardDistance
  <2> QED BY <1>4, <1>5, <2>1, Zenon
<1>10. CASE c = 0
  BY <1>6, <1>9, <1>10
<1>11. CASE c # 0
  <2>1. PICK q : q = (Scale * i) \div c
    OBVIOUS
  <2> QED BY <1>6, <1>7, <1>8, <1>9, <1>11, <2>1
<1> QED BY <1>10, <1>11

\* What the distance compares of a profile is finite.
LEMMA ProfileSets ==
    ASSUME NEW sig, IsProfile(sig)
    PROVE  /\ IsFiniteSet(Recorded(sig)) /\ IsFiniteSet(RequiredPaths(sig))
           /\ IsFiniteSet(NameTokens(sig)) /\ IsFiniteSet(TypeUnion(sig))
           /\ \A t : IsFiniteSet(OfType(sig, t))
           /\ \A p \in Recorded(sig) : IsFiniteSet(sig[p].types)
           /\ MaxDepth(sig) \in Nat
<1>1. PICK paths : paths = Recorded(sig)
  OBVIOUS
<1>2. paths \in SUBSET DOMAIN sig /\ IsFiniteSet(paths)
  <2>1. paths \in SUBSET DOMAIN sig
    BY <1>1 DEF Recorded
  <2> QED BY <2>1, FS_Subset DEF IsProfile
<1>3. IsFiniteSet(RequiredPaths(sig)) /\ \A t : IsFiniteSet(OfType(sig, t))
  <2>1. RequiredPaths(sig) \in SUBSET paths /\ \A t : OfType(sig, t) \in SUBSET paths
    BY <1>1 DEF RequiredPaths, OfType
  <2>2. ASSUME NEW T \in SUBSET paths PROVE IsFiniteSet(T)
    BY <1>2, FS_Subset
  <2> QED BY <2>1, <2>2
<1>4. \A p \in paths : IsFiniteSet(sig[p].types)
  BY <1>2 DEF IsProfile
<1>5. IsFiniteSet(NameTokens(sig))
  <2>1. PICK named : named = {p \in paths : Last(p) # Elem}
    OBVIOUS
  <2>2. PICK f : f = [p \in named |-> NormalizeNameTokens(Last(p))]
    OBVIOUS
  <2>3. PICK tokens : tokens = {f[p] : p \in named}
    OBVIOUS
  <2>4. IsFiniteSet(tokens)
    <3>1. named \in SUBSET paths
      BY <2>1
    <3>2. IsFiniteSet(named)
      BY <1>2, <3>1, FS_Subset
    <3> QED BY <2>3, <3>2, ImageIsFinite
  <2>5. ASSUME NEW p \in named PROVE IsFiniteSet(f[p])
    <3>1. p \in Seq(Range(Keys) \cup {Elem}) /\ p # <<>> /\ p[Len(p)] # Elem
      BY <1>1, <1>2, <2>1 DEF IsProfile, Recorded, Last
    <3>2. p[Len(p)] \in Range(Keys)
      BY <3>1
    <3>3. f[p] = TokensOf[p[Len(p)]]
      BY <2>2 DEF NormalizeNameTokens, Last
    <3> QED BY <3>2, <3>3, RetrievalAssumption
  <2>6. NameTokens(sig) = UNION tokens
    BY <1>1, <2>1, <2>2, <2>3 DEF NameTokens
  <2>7. \A T \in tokens : IsFiniteSet(T)
    BY <2>3, <2>5
  <2> QED BY <2>4, <2>6, <2>7, FS_UNION
<1>6. IsFiniteSet(TypeUnion(sig))
  <2>1. PICK f : f = [p \in paths |-> sig[p].types]
    OBVIOUS
  <2>2. PICK types : types = {f[p] : p \in paths}
    OBVIOUS
  <2>3. IsFiniteSet(types)
    BY <1>2, <2>2, ImageIsFinite
  <2>4. \A T \in types : IsFiniteSet(T)
    BY <1>4, <2>1, <2>2
  <2>5. TypeUnion(sig) = UNION types
    BY <1>1, <2>1, <2>2 DEF TypeUnion
  <2> QED BY <2>3, <2>4, <2>5, FS_UNION
<1>7. MaxDepth(sig) \in Nat
  <2>1. PICK f : f = [p \in DOMAIN sig |-> Len(p)]
    OBVIOUS
  <2>2. PICK lengths : lengths = {f[p] : p \in DOMAIN sig}
    OBVIOUS
  <2>3. IsFiniteSet(lengths)
    BY <2>2, ImageIsFinite DEF IsProfile
  <2>4. lengths # {} /\ lengths \subseteq Nat
    BY <2>1, <2>2 DEF IsProfile
  <2>5. PICK x \in lengths : \A y \in lengths : y <= x
    BY <2>3, <2>4, Greatest
  <2>6. PICK m : m = Max(lengths)
    OBVIOUS
  <2>7. m \in lengths
    BY <2>4, <2>5, <2>6 DEF Max
  <2>8. MaxDepth(sig) = m
    BY <2>1, <2>2, <2>6 DEF MaxDepth
  <2> QED BY <2>4, <2>7, <2>8
<1> QED BY <1>1, <1>2, <1>3, <1>4, <1>5, <1>6, <1>7

\* The distance of two depths is a part of the deeper one.
LEMMA Depths ==
    ASSUME NEW m \in Nat, NEW n \in Nat
    PROVE  /\ DepthDistance(m, n) \in 0..Scale
           /\ DepthDistance(m, n) = DepthDistance(n, m)
           /\ m = n => DepthDistance(m, n) = 0
<1>1. PICK d \in Nat, c \in Nat \ {0} : /\ d = (IF m > n THEN m - n ELSE n - m)
                                     /\ c = Max({m, n, 1}) /\ d <= c
  <2>1. PICK c \in Nat \ {0} : c \in {m, n, 1} /\ c >= m /\ c >= n /\ c >= 1
    <3>1. \E c \in {m, n, 1} : c >= m /\ c >= n /\ c >= 1
      OBVIOUS
    <3> QED BY <3>1
  <2>2. PICK top : top = Max({m, n, 1})
    OBVIOUS
  <2>3. top = c
    <3>1. top \in {m, n, 1} /\ top >= m /\ top >= n /\ top >= 1
      BY <2>1, <2>2 DEF Max
    <3> QED BY <2>1, <3>1
  <2>4. PICK d : d = IF m > n THEN m - n ELSE n - m
    OBVIOUS
  <2>5. d \in Nat /\ d <= c
    BY <2>1, <2>4
  <2> QED BY <2>1, <2>2, <2>3, <2>4, <2>5
<1>2. Scale \in Nat
  BY RetrievalAssumption
<1>3. DepthDistance(m, n) = (Scale * d) \div c
  BY <1>1 DEF DepthDistance
<1>4. DepthDistance(n, m) = (Scale * d) \div c
  <2>1. d = (IF n > m THEN n - m ELSE m - n)
    BY <1>1
  <2>2. {n, m, 1} = {m, n, 1}
    OBVIOUS
  <2>3. DepthDistance(n, m) = (Scale * (IF n > m THEN n - m ELSE m - n)) \div Max({n, m, 1})
    BY DEF DepthDistance
  <2>4. Max({n, m, 1}) = c
    BY <1>1, <2>2, Zenon
  <2> QED BY <2>1, <2>3, <2>4, Zenon
<1>5. m = n => d = 0 /\ Scale * d = 0 /\ (Scale * d) \div c = 0
  BY <1>1, <1>2
<1>6. (Scale * d) \div c \in 0..Scale
  BY <1>1, <1>2, Parts
<1> QED BY <1>3, <1>4, <1>5, <1>6

\* A component's distance stays in its scale, is the same both ways, and is none from a
\* profile to itself.
IsDistance(d, e, same) == d \in 0..Scale /\ d = e /\ (same => d = 0)

\* So is the distance in paths and types.
LEMMA PathTypes ==
    ASSUME NEW a, NEW b, IsProfile(a), IsProfile(b)
    PROVE  IsDistance(FieldPathTypeDistance(a, b), FieldPathTypeDistance(b, a), a = b)
<1>1. PICK all, both : all = Recorded(a) \cup Recorded(b) /\ both = Recorded(a) \cap Recorded(b)
  OBVIOUS
<1>2. PICK rest : rest = all \ both
  OBVIOUS
<1>3. /\ IsFiniteSet(all) /\ IsFiniteSet(both) /\ IsFiniteSet(rest)
      /\ Cardinality(all) = Cardinality(both) + Cardinality(rest)
  <2>1. IsFiniteSet(all)
    <3>1. IsFiniteSet(Recorded(a)) /\ IsFiniteSet(Recorded(b))
      BY ProfileSets
    <3> QED BY <1>1, <3>1, FS_Union
  <2>2. both \in SUBSET all /\ all \cap both = both
    BY <1>1
  <2>3. IsFiniteSet(both)
    BY <2>1, <2>2, FS_Subset
  <2>4. IsFiniteSet(rest) /\ Cardinality(rest) = Cardinality(all) - Cardinality(all \cap both)
    BY <1>2, <2>1, FS_Difference
  <2>5. Cardinality(all) \in Nat /\ Cardinality(both) \in Nat
    BY <2>1, <2>3, FS_CardinalityType
  <2>6. Cardinality(rest) = Cardinality(all) - Cardinality(both)
    BY <2>2, <2>4, Zenon
  <2> QED BY <2>1, <2>3, <2>4, <2>5, <2>6
<1>4. PICK c, l, r : c = Cardinality(all) /\ l = Cardinality(both) /\ r = Cardinality(rest)
  OBVIOUS
<1>5. c \in Nat /\ l \in Nat /\ r \in Nat /\ c = l + r /\ (c = 0 <=> all = {}) /\ (r = 0 <=> rest = {})
  BY <1>3, <1>4, FS_CardinalityType, FS_EmptySet
<1>6. Scale \in Nat
  BY RetrievalAssumption
<1>7. PICK f : f = [p \in both |-> JaccardDistance(a[p].types, b[p].types)]
  OBVIOUS
<1>8. DOMAIN f = both /\ \A p \in both : f[p] \in 0..Scale /\ (a = b => f[p] \in 0..0)
  <2>1. ASSUME NEW p \in both
        PROVE  f[p] \in 0..Scale /\ (a = b => f[p] = 0)
    <3>1. IsFiniteSet(a[p].types) /\ IsFiniteSet(b[p].types)
      BY <1>1, ProfileSets
    <3> QED BY <1>7, <3>1, Jaccard
  <2> QED BY <1>7, <2>1
<1>9. f = [p \in both |-> JaccardDistance(b[p].types, a[p].types)]
  <2>1. ASSUME NEW S, NEW T PROVE JaccardDistance(S, T) = JaccardDistance(T, S)
    <3>1. S \cup T = T \cup S /\ S \cap T = T \cap S
      OBVIOUS
    <3> QED BY <3>1, Zenon DEF JaccardDistance
  <2> QED BY <1>7, <2>1
<1>10. PICK t : t = SumFunction(f)
  OBVIOUS
<1>11. t \in 0..(Scale * l)
  BY <1>3, <1>4, <1>6, <1>8, <1>10, SumOfNaturals
<1>12. a = b => t \in 0..(0 * l)
  <2>1. 0 \in Nat
    OBVIOUS
  <2> QED BY <1>3, <1>4, <1>8, <1>10, <2>1, SumOfNaturals
<1>13. FieldPathTypeDistance(a, b) = IF all = {} THEN 0 ELSE (t + Scale * r) \div c
  <2>1. FieldPathTypeDistance(a, b)
          = IF all = {} THEN 0
            ELSE (SumFunction([p \in both |-> JaccardDistance(a[p].types, b[p].types)])
                    + Scale * Cardinality(all \ both)) \div Cardinality(all)
    BY <1>1, Zenon DEF FieldPathTypeDistance
  <2> QED BY <1>2, <1>4, <1>7, <1>10, <2>1, Zenon
<1>14. FieldPathTypeDistance(b, a) = IF all = {} THEN 0 ELSE (t + Scale * r) \div c
  <2>1. all = Recorded(b) \cup Recorded(a) /\ both = Recorded(b) \cap Recorded(a)
    BY <1>1
  <2>2. FieldPathTypeDistance(b, a)
          = IF all = {} THEN 0
            ELSE (SumFunction([p \in both |-> JaccardDistance(b[p].types, a[p].types)])
                    + Scale * Cardinality(all \ both)) \div Cardinality(all)
    BY <2>1, Zenon DEF FieldPathTypeDistance
  <2> QED BY <1>2, <1>4, <1>9, <1>10, <2>2, Zenon
<1>15. ASSUME c # 0 PROVE (t + Scale * r) \div c \in 0..Scale
  <2>1. PICK m : m = t + Scale * r
    OBVIOUS
  <2>2. m \in Nat /\ m <= Scale * c
    <3>1. Scale * c = Scale * l + Scale * r /\ Scale * r \in Nat /\ Scale * l \in Nat
      BY <1>5, <1>6
    <3> QED BY <1>11, <2>1, <3>1
  <2> QED BY <1>5, <1>6, <1>15, <2>1, <2>2, Quotient
<1>16. a = b => r = 0 /\ t = 0
  <2>1. a = b => rest = {}
    BY <1>1, <1>2
  <2> QED BY <1>5, <1>12, <2>1
<1>17. a = b /\ c # 0 => (t + Scale * r) \div c = 0
  BY <1>5, <1>6, <1>16
<1> QED BY <1>5, <1>6, <1>13, <1>14, <1>15, <1>17 DEF IsDistance

\* The other components: sets of paths, tokens or types, and depths.
LEMMA Components ==
    ASSUME NEW a, NEW b, IsProfile(a), IsProfile(b)
    PROVE  /\ IsDistance(JaccardDistance(NameTokens(a), NameTokens(b)),
                         JaccardDistance(NameTokens(b), NameTokens(a)), a = b)
           /\ IsDistance(JaccardDistance(RequiredPaths(a), RequiredPaths(b)),
                         JaccardDistance(RequiredPaths(b), RequiredPaths(a)), a = b)
           /\ IsDistance(DepthDistance(MaxDepth(a), MaxDepth(b)),
                         DepthDistance(MaxDepth(b), MaxDepth(a)), a = b)
           /\ IsDistance(NullabilityDistance(a, b), NullabilityDistance(b, a), a = b)
           /\ IsDistance(ArrayMapShapeDistance(a, b), ArrayMapShapeDistance(b, a), a = b)
<1>1. ASSUME NEW S, NEW T, IsFiniteSet(S), IsFiniteSet(T), a = b => S = T
      PROVE  IsDistance(JaccardDistance(S, T), JaccardDistance(T, S), a = b)
  <2>1. JaccardDistance(S, T) = JaccardDistance(T, S)
    <3>1. S \cup T = T \cup S /\ S \cap T = T \cap S
      OBVIOUS
    <3> QED BY <3>1, Zenon DEF JaccardDistance
  <2> QED BY <1>1, <2>1, Jaccard DEF IsDistance
<1>2. ASSUME NEW d, NEW e, NEW f, NEW g, IsDistance(d, e, a = b), IsDistance(f, g, a = b)
      PROVE  IsDistance((d + f) \div 2, (e + g) \div 2, a = b)
  <2>1. Scale \in Nat
    BY RetrievalAssumption
  <2> QED BY <1>2, <2>1 DEF IsDistance
<1>3. ASSUME NEW t
      PROVE  IsDistance(JaccardDistance(OfType(a, t), OfType(b, t)),
                        JaccardDistance(OfType(b, t), OfType(a, t)), a = b)
  BY <1>1, ProfileSets
<1>4. /\ IsDistance(JaccardDistance(NameTokens(a), NameTokens(b)),
                    JaccardDistance(NameTokens(b), NameTokens(a)), a = b)
      /\ IsDistance(JaccardDistance(RequiredPaths(a), RequiredPaths(b)),
                    JaccardDistance(RequiredPaths(b), RequiredPaths(a)), a = b)
      /\ IsDistance(JaccardDistance(TypeUnion(a), TypeUnion(b)),
                    JaccardDistance(TypeUnion(b), TypeUnion(a)), a = b)
  BY <1>1, ProfileSets
<1>5. IsDistance(DepthDistance(MaxDepth(a), MaxDepth(b)), DepthDistance(MaxDepth(b), MaxDepth(a)), a = b)
  <2>1. MaxDepth(a) \in Nat /\ MaxDepth(b) \in Nat
    BY ProfileSets
  <2>2. a = b => MaxDepth(a) = MaxDepth(b)
    OBVIOUS
  <2> QED BY <2>1, <2>2, Depths DEF IsDistance
<1>6. IsDistance(NullabilityDistance(a, b), NullabilityDistance(b, a), a = b)
  BY <1>2, <1>3, <1>4 DEF NullabilityDistance
<1>7. IsDistance(ArrayMapShapeDistance(a, b), ArrayMapShapeDistance(b, a), a = b)
  BY <1>2, <1>3 DEF ArrayMapShapeDistance
<1> QED BY <1>4, <1>5, <1>6, <1>7

\* The distance of two profiles lies on its scale whatever they hold, is the same from
\* either side, and is zero from a profile to itself: the thresholds of the policy, a
\* distance of 15 and a margin of 10 parts in a hundred, mean what their names say
\* (compute_distance, DistanceComponents::total).
THEOREM DistanceIsSound ==
    ASSUME NEW a, NEW b, IsProfile(a), IsProfile(b)
    PROVE  /\ Distance(a, b) \in 0..(100 * Scale)
           /\ Distance(a, b) = Distance(b, a)
           /\ a = b => Distance(a, b) = 0
<1>1. PICK pt, nt, rp, dd, nd, ar :
        /\ pt = FieldPathTypeDistance(a, b) /\ nt = JaccardDistance(NameTokens(a), NameTokens(b))
        /\ rp = JaccardDistance(RequiredPaths(a), RequiredPaths(b))
        /\ dd = DepthDistance(MaxDepth(a), MaxDepth(b))
        /\ nd = NullabilityDistance(a, b) /\ ar = ArrayMapShapeDistance(a, b)
  OBVIOUS
<1>2. /\ pt = FieldPathTypeDistance(b, a) /\ nt = JaccardDistance(NameTokens(b), NameTokens(a))
      /\ rp = JaccardDistance(RequiredPaths(b), RequiredPaths(a))
      /\ dd = DepthDistance(MaxDepth(b), MaxDepth(a))
      /\ nd = NullabilityDistance(b, a) /\ ar = ArrayMapShapeDistance(b, a)
  BY <1>1, PathTypes, Components DEF IsDistance
<1>3. Distance(a, b) = 35 * pt + 25 * nt + 15 * rp + 10 * dd + 10 * nd + 5 * ar
  BY <1>1, Zenon DEF Distance
<1>4. Distance(b, a) = 35 * pt + 25 * nt + 15 * rp + 10 * dd + 10 * nd + 5 * ar
  BY <1>2, Zenon DEF Distance
<1>5. /\ pt \in 0..Scale /\ nt \in 0..Scale /\ rp \in 0..Scale
      /\ dd \in 0..Scale /\ nd \in 0..Scale /\ ar \in 0..Scale
  BY <1>1, PathTypes, Components DEF IsDistance
<1>6. a = b => pt = 0 /\ nt = 0 /\ rp = 0 /\ dd = 0 /\ nd = 0 /\ ar = 0
  BY <1>1, PathTypes, Components DEF IsDistance
<1>7. Scale \in Nat
  BY RetrievalAssumption
<1>8. PICK d : d = 35 * pt + 25 * nt + 15 * rp + 10 * dd + 10 * nd + 5 * ar
  OBVIOUS
<1>9. d \in 0..(100 * Scale)
  BY <1>5, <1>7, <1>8
<1>10. a = b => d = 0
  BY <1>6, <1>8
<1> QED BY <1>3, <1>4, <1>8, <1>9, <1>10

-----------------------------------------------------------------------------
(* Shadow: the ranking, and what the policy accepts of it.                  *)

\* Registered schemas: finitely many, each id one schema.
IsRegistry(reg) ==
    /\ IsFiniteSet(reg)
    /\ \A r \in reg : r.schema \in Nat /\ r.family \in Nat /\ r.version \in Nat /\ IsProfile(r.sig)
    /\ \A r, s \in reg : r.schema = s.schema => r = s

\* The nearest version of each family represents it.
LEMMA FamilyIsRepresented ==
    ASSUME NEW refs, IsRegistry(refs), NEW sig, IsProfile(sig), NEW r \in refs
    PROVE  \E x \in FamilyRepresentatives(sig, refs) :
             x.family = r.family /\ Distance(sig, x.sig) <= Distance(sig, r.sig)
<1>1. PICK S : S = {s \in refs : s.family = r.family}
  OBVIOUS
<1>2. IsFiniteSet(S) /\ S # {}
  <2>1. S \in SUBSET refs
    BY <1>1
  <2> QED BY <1>1, <2>1, FS_Subset DEF IsRegistry
<1>3. PICK d : d = [s \in refs |-> Distance(sig, s.sig)]
  OBVIOUS
<1>4. \A s \in refs : d[s] = Distance(sig, s.sig) /\ d[s] \in Nat
  <2>1. ASSUME NEW s \in refs PROVE Distance(sig, s.sig) \in Nat
    <3>1. Scale \in Nat /\ IsProfile(s.sig)
      BY RetrievalAssumption DEF IsRegistry
    <3>2. PICK e : e = Distance(sig, s.sig)
      OBVIOUS
    <3> QED BY <3>1, <3>2, DistanceIsSound
  <2> QED BY <1>3, <2>1
<1> DEFINE Nearer(s, t) == \/ d[s] < d[t]
                           \/ d[s] = d[t] /\ s.version < t.version
                           \/ d[s] = d[t] /\ s.version = t.version /\ s.schema < t.schema
<1>5. \A s, t \in refs : NearerVersion(sig, s, t) <=> Nearer(s, t)
  BY <1>4 DEF NearerVersion
<1> DEFINE R == {p \in S \X S : Nearer(p[1], p[2])}
<1>6. IsOrder(R, S)
  <2>1. \A s, t \in S : <<s, t>> \in R <=> Nearer(s, t)
    OBVIOUS
  <2>2. \A s \in S : s.schema \in Nat /\ s.version \in Nat /\ d[s] \in Nat /\ s \in refs
    BY <1>1, <1>4 DEF IsRegistry
  <2>3. \A s, t \in S : s.schema = t.schema => s = t
    BY <1>1 DEF IsRegistry
  <2>4. \A s \in S : ~Nearer(s, s)
    BY <2>2
  <2>5. \A s, t, u \in S : Nearer(s, t) /\ Nearer(t, u) => Nearer(s, u)
    BY <2>2
  <2>6. \A s, t \in S : s = t \/ Nearer(s, t) \/ Nearer(t, s)
    BY <2>2, <2>3
  <2> HIDE DEF R, Nearer
  <2> QED BY <2>1, <2>4, <2>5, <2>6 DEF IsOrder
<1>7. PICK x \in S : \A y \in S : y = x \/ <<x, y>> \in R
  <2> HIDE DEF R
  <2> QED BY <1>2, <1>6, Least
<1>8. \A y \in S : y = x \/ Nearer(x, y)
  BY <1>7
<1>9. x \in FamilyRepresentatives(sig, refs)
  <2> HIDE DEF Nearer
  <2> QED BY <1>1, <1>5, <1>8 DEF FamilyRepresentatives
<1>10. d[x] <= d[r]
  BY <1>1, <1>4, <1>8
<1> QED BY <1>1, <1>4, <1>9, <1>10

\* ... and no other does.
LEMMA RepresentativesDiffer ==
    ASSUME NEW refs, IsRegistry(refs), NEW sig, IsProfile(sig),
           NEW r \in FamilyRepresentatives(sig, refs), NEW s \in FamilyRepresentatives(sig, refs),
           r.family = s.family
    PROVE  r = s
<1> SUFFICES ASSUME r # s PROVE FALSE
  OBVIOUS
<1>1. NearerVersion(sig, r, s) /\ NearerVersion(sig, s, r) /\ r \in refs /\ s \in refs
  BY DEF FamilyRepresentatives
<1>2. PICK d, e : d = Distance(sig, r.sig) /\ e = Distance(sig, s.sig)
  OBVIOUS
<1>3. d \in Nat /\ e \in Nat
  <2>1. Scale \in Nat /\ IsProfile(r.sig) /\ IsProfile(s.sig)
    BY <1>1, RetrievalAssumption DEF IsRegistry
  <2> QED BY <1>2, <2>1, DistanceIsSound
<1>4. r.version \in Nat /\ s.version \in Nat /\ r.schema \in Nat /\ s.schema \in Nat
  BY <1>1 DEF IsRegistry
<1> QED BY <1>1, <1>2, <1>3, <1>4 DEF NearerVersion

\* The ranking holds each representative once, the nearer before the farther.
LEMMA RankingRanks ==
    ASSUME NEW reps, IsRegistry(reps), NEW sig, IsProfile(sig),
           \A r, s \in reps : r.family = s.family => r = s,
           NEW ranked, ranked = Ranking(sig, reps)
    PROVE  \E n \in Nat :
             /\ DOMAIN ranked = 1..n /\ Len(ranked) = n
             /\ \A i \in 1..n : ranked[i] \in reps
             /\ \A r \in reps : \E i \in 1..n : ranked[i] = r
             /\ \A i, j \in 1..n : i < j => Distance(sig, ranked[i].sig) <= Distance(sig, ranked[j].sig)
<1>1. PICK n \in Nat : n = Cardinality(reps)
  BY FS_CardinalityType DEF IsRegistry
<1>2. PICK d : d = [s \in reps |-> Distance(sig, s.sig)]
  OBVIOUS
<1>3. \A s \in reps : d[s] = Distance(sig, s.sig) /\ d[s] \in Nat
  <2>1. ASSUME NEW s \in reps PROVE Distance(sig, s.sig) \in Nat
    <3>1. Scale \in Nat /\ IsProfile(s.sig)
      BY RetrievalAssumption DEF IsRegistry
    <3>2. PICK e : e = Distance(sig, s.sig)
      OBVIOUS
    <3> QED BY <3>1, <3>2, DistanceIsSound
  <2> QED BY <1>2, <2>1
<1> DEFINE Nearer(s, t) == d[s] < d[t] \/ (d[s] = d[t] /\ s.family < t.family)
<1>4. \A s, t \in reps : NearerFamily(sig, s, t) <=> Nearer(s, t)
  BY <1>3 DEF NearerFamily
<1> DEFINE R == {p \in reps \X reps : Nearer(p[1], p[2])}
<1>5. \A s, t \in reps : <<s, t>> \in R <=> Nearer(s, t)
  OBVIOUS
<1>6. IsOrder(R, reps)
  <2>1. \A s \in reps : s.family \in Nat /\ d[s] \in Nat
    BY <1>3 DEF IsRegistry
  <2>2. \A s \in reps : ~Nearer(s, s)
    BY <2>1
  <2>3. \A s, t, u \in reps : Nearer(s, t) /\ Nearer(t, u) => Nearer(s, u)
    BY <2>1
  <2>4. \A s, t \in reps : s = t \/ Nearer(s, t) \/ Nearer(t, s)
    BY <2>1
  <2> HIDE DEF R, Nearer
  <2> QED BY <1>5, <2>2, <2>3, <2>4 DEF IsOrder
<1> HIDE DEF R
<1>7. PICK f : f = [i \in 1..n |-> CHOOSE r \in reps : Place(R, reps)[r] = i - 1]
  OBVIOUS
<1>8. ASSUME NEW i \in 1..n PROVE f[i] \in reps /\ Place(R, reps)[f[i]] = i - 1
  <2>1. i - 1 \in 0..(n - 1)
    OBVIOUS
  <2>2. \E r \in reps : Place(R, reps)[r] = i - 1
    BY <1>1, <1>6, <2>1, PlacesAreTaken DEF IsRegistry
  <2> QED BY <1>7, <2>2
<1> DEFINE Sorted(g) == \A i, j \in DOMAIN g : i < j => NearerFamily(sig, g[i], g[j])
<1>9. f \in [1..n -> reps] /\ Sorted(f)
  <2>1. f \in [1..n -> reps]
    BY <1>7, <1>8
  <2>2. ASSUME NEW i \in 1..n, NEW j \in 1..n, i < j PROVE <<f[i], f[j]>> \in R
    BY <1>6, <1>8, <2>2, Places DEF IsRegistry
  <2>3. ASSUME NEW i \in 1..n, NEW j \in 1..n, i < j PROVE NearerFamily(sig, f[i], f[j])
    BY <1>4, <1>5, <1>8, <2>2, <2>3
  <2> QED BY <2>1, <2>3
<1>10. ranked \in [1..n -> reps] /\ Sorted(ranked)
  <2>1. ranked = CHOOSE g \in [1..n -> reps] : Sorted(g)
    BY <1>1 DEF Ranking
  <2> HIDE DEF Sorted
  <2> QED BY <1>9, <2>1
<1>11. DOMAIN ranked = 1..n /\ Len(ranked) = n
  BY <1>10
<1>12. ASSUME NEW i \in 1..n, NEW j \in 1..n, i < j
       PROVE  Distance(sig, ranked[i].sig) <= Distance(sig, ranked[j].sig) /\ ranked[i] # ranked[j]
  <2>1. NearerFamily(sig, ranked[i], ranked[j]) /\ ranked[i] \in reps /\ ranked[j] \in reps
    BY <1>10, <1>12
  <2>2. Nearer(ranked[i], ranked[j])
    BY <1>4, <2>1
  <2>3. ranked[j].family \in Nat
    BY <2>1 DEF IsRegistry
  <2> QED BY <1>3, <2>1, <2>2, <2>3
<1>13. ASSUME NEW r \in reps PROVE \E i \in 1..n : ranked[i] = r
  <2>1. \A i, j \in 1..n : ranked[i] = ranked[j] => i = j
    <3> SUFFICES ASSUME NEW i \in 1..n, NEW j \in 1..n, ranked[i] = ranked[j], i # j PROVE FALSE
      OBVIOUS
    <3>1. i < j \/ j < i
      OBVIOUS
    <3> QED BY <1>12, <3>1
  <2>2. IsFiniteSet(reps) /\ Cardinality(reps) = n
    BY <1>1 DEF IsRegistry
  <2> QED BY <1>10, <2>1, <2>2, AllAreTaken
<1> QED BY <1>10, <1>11, <1>12, <1>13

\* What retrieve_topk returns of a registry: the first candidate is the nearest
\* representative, and every other family lies at least the margin beyond it.
LEMMA Retrieved ==
    ASSUME NEW reg, IsRegistry(reg), NEW sig, IsProfile(sig),
           NEW found, found = RetrieveTopK(reg, sig, TopK)
    PROVE  /\ \A r \in ListFamilies(reg, sig) :
                /\ found.candidates # <<>> /\ found.candidates[1].distance \in Nat
                /\ found.candidates[1].distance <= Distance(sig, r.sig)
           /\ found.margin \in Int
           /\ found.margin > 0 => \E own \in reg :
                /\ found.candidates[1].schema = own.schema
                /\ \A r \in ListFamilies(reg, sig) :
                     r.family # own.family => Distance(sig, r.sig) >= Distance(sig, own.sig) + found.margin
<1>1. PICK refs : refs = ListFamilies(reg, sig)
  OBVIOUS
<1>2. refs \subseteq reg /\ IsRegistry(refs)
  <2>1. refs \in SUBSET reg
    BY <1>1 DEF ListFamilies
  <2>2. IsFiniteSet(refs)
    BY <2>1, FS_Subset DEF IsRegistry
  <2> QED BY <2>1, <2>2 DEF IsRegistry
<1>3. PICK reps : reps = FamilyRepresentatives(sig, refs)
  OBVIOUS
<1>4. reps \subseteq refs /\ IsRegistry(reps)
  <2>1. reps \in SUBSET refs
    BY <1>3 DEF FamilyRepresentatives
  <2>2. IsFiniteSet(reps)
    BY <1>2, <2>1, FS_Subset DEF IsRegistry
  <2> QED BY <1>2, <2>1, <2>2 DEF IsRegistry
<1>5. PICK ranked : ranked = Ranking(sig, reps)
  OBVIOUS
<1>6. \A r, s \in reps : r.family = s.family => r = s
  BY <1>2, <1>3, RepresentativesDiffer
<1>7. PICK n \in Nat :
        /\ Len(ranked) = n
        /\ \A i \in 1..n : ranked[i] \in reps
        /\ \A r \in reps : \E i \in 1..n : ranked[i] = r
        /\ \A i, j \in 1..n : i < j => Distance(sig, ranked[i].sig) <= Distance(sig, ranked[j].sig)
  BY <1>4, <1>5, <1>6, RankingRanks
<1>8. PICK top : top = Min({TopK, n})
  OBVIOUS
<1>9. top \in 0..n /\ (n >= 1 => top >= 1) /\ (top >= 2 => n >= 2)
  <2>1. TopK \in Nat \ {0}
    BY ShadowAssumption
  <2>2. \E m \in {TopK, n} : \A k \in {TopK, n} : m <= k
    BY <2>1
  <2>3. top \in {TopK, n} /\ top <= TopK /\ top <= n
    BY <1>8, <2>2 DEF Min
  <2> QED BY <2>1, <2>3
<1>10. PICK first : first = [i \in 1..top |-> FamilyCandidate(sig, ranked[i], i)]
  OBVIOUS
<1>11. /\ found.candidates = first
       /\ found.margin = IF top >= 2 THEN first[2].distance - first[1].distance ELSE 0
  <2>1. found = RankCandidates(sig, refs, TopK)
    BY <1>1 DEF RetrieveTopK
  <2>2. PICK len : len = Len(ranked) /\ len = n
    BY <1>7
  <2>3. found.candidates = [i \in 1..Min({TopK, len}) |-> FamilyCandidate(sig, ranked[i], i)]
    BY <1>3, <1>5, <2>1, <2>2 DEF RankCandidates, Foremost
  <2>4. found.candidates = first
    BY <1>8, <1>10, <2>2, <2>3
  <2>5. found.margin = IF Min({TopK, len}) >= 2 THEN found.candidates[2].distance - found.candidates[1].distance ELSE 0
    BY <1>3, <1>5, <2>1, <2>2 DEF RankCandidates, Foremost
  <2> QED BY <1>8, <2>2, <2>4, <2>5
<1>12. \A i \in 1..top : /\ first[i].schema = ranked[i].schema
                         /\ first[i].distance = Distance(sig, ranked[i].sig)
  BY <1>10 DEF FamilyCandidate
<1>13. \A i \in 1..n : Distance(sig, ranked[i].sig) \in Nat
  <2>1. ASSUME NEW i \in 1..n PROVE Distance(sig, ranked[i].sig) \in Nat
    <3>1. IsProfile(ranked[i].sig) /\ Scale \in Nat
      BY <1>4, <1>7, RetrievalAssumption DEF IsRegistry
    <3>2. PICK g, d : g = ranked[i].sig /\ d = Distance(sig, g)
      OBVIOUS
    <3> QED BY <3>1, <3>2, DistanceIsSound
  <2> QED BY <2>1
<1>14. \A r \in refs : Distance(sig, r.sig) \in Nat
  <2>1. ASSUME NEW r \in refs PROVE Distance(sig, r.sig) \in Nat
    <3>1. IsProfile(r.sig) /\ Scale \in Nat
      BY <1>2, RetrievalAssumption DEF IsRegistry
    <3>2. PICK g, d : g = r.sig /\ d = Distance(sig, g)
      OBVIOUS
    <3> QED BY <3>1, <3>2, DistanceIsSound
  <2> QED BY <2>1
<1>15. ASSUME NEW r \in refs
       PROVE  \E i \in 1..n : /\ ranked[i].family = r.family
                              /\ Distance(sig, ranked[i].sig) <= Distance(sig, r.sig)
  <2>1. PICK x \in reps : x.family = r.family /\ Distance(sig, x.sig) <= Distance(sig, r.sig)
    BY <1>2, <1>3, FamilyIsRepresented
  <2> QED BY <1>7, <2>1
<1>16. ASSUME NEW r \in refs
       PROVE  /\ found.candidates # <<>> /\ found.candidates[1].distance \in Nat
              /\ found.candidates[1].distance <= Distance(sig, r.sig)
  <2>1. PICK i \in 1..n : Distance(sig, ranked[i].sig) <= Distance(sig, r.sig)
    BY <1>15
  <2>2. 1 \in 1..top /\ 1 \in 1..n
    BY <1>9
  <2>3. first # <<>>
    BY <1>10, <2>2
  <2>4. i = 1 \/ 1 < i
    OBVIOUS
  <2>5. Distance(sig, ranked[1].sig) <= Distance(sig, ranked[i].sig)
    BY <1>7, <1>13, <2>2, <2>4
  <2> QED BY <1>11, <1>12, <1>13, <1>14, <2>1, <2>2, <2>3, <2>5
<1>17. ASSUME found.margin > 0
       PROVE  \E own \in reg :
                /\ found.candidates[1].schema = own.schema
                /\ \A r \in refs :
                     r.family # own.family => Distance(sig, r.sig) >= Distance(sig, own.sig) + found.margin
  <2>1. top >= 2 /\ 1 \in 1..top /\ 2 \in 1..top /\ 1 \in 1..n /\ 2 \in 1..n
    <3>1. top >= 2
      BY <1>11, <1>17
    <3> QED BY <1>9, <3>1
  <2>2. PICK own : own = ranked[1]
    OBVIOUS
  <2>3. own \in reps /\ own \in reg /\ found.candidates[1].schema = own.schema
    BY <1>2, <1>4, <1>7, <1>11, <1>12, <2>1, <2>2
  <2>4. PICK a, b : a = Distance(sig, own.sig) /\ b = Distance(sig, ranked[2].sig)
    OBVIOUS
  <2>5. a \in Nat /\ b \in Nat /\ found.margin = b - a
    BY <1>11, <1>12, <1>13, <2>1, <2>2, <2>4
  <2>6. ASSUME NEW r \in refs, r.family # own.family PROVE Distance(sig, r.sig) >= a + found.margin
    <3>1. PICK i \in 1..n : ranked[i].family = r.family /\ Distance(sig, ranked[i].sig) <= Distance(sig, r.sig)
      BY <1>15
    <3>2. i = 2 \/ 2 < i
      <4>1. i # 1
        BY <2>2, <2>6, <3>1
      <4> QED BY <4>1
    <3>3. b <= Distance(sig, ranked[i].sig)
      BY <1>7, <1>13, <2>1, <2>4, <3>2
    <3> QED BY <1>13, <1>14, <2>5, <3>1, <3>3
  <2> QED BY <2>3, <2>4, <2>6
<1>18. found.margin \in Int
  <2>1. CASE top >= 2
    <3>1. 1 \in 1..top /\ 2 \in 1..top /\ 1 \in 1..n /\ 2 \in 1..n
      BY <1>9, <2>1
    <3>2. first[1].distance \in Nat /\ first[2].distance \in Nat
      BY <1>12, <1>13, <3>1
    <3> QED BY <1>11, <2>1, <3>2
  <2>2. CASE ~(top >= 2)
    BY <1>11, <2>2
  <2> QED BY <2>1, <2>2
<1> QED BY <1>1, <1>16, <1>17, <1>18

\* What retrieve_topk found for a profile in the registry it looked at.
Registered(reg) == IsFiniteSet(reg) /\ reg \subseteq Publications
FoundIn(over, sig, found) == Registered(over) /\ IsProfile(sig) /\ found = RetrieveTopK(over, sig, TopK)

\* Every entry, and the job the sweep works on, was ranked in a registry that existed; its
\* gate has the margin of that ranking.
RankInv ==
    /\ store \in [Cands -> [count : Nat, state : {"provisional", "expired", "promoted"}]]
    /\ Registered(registry)
    /\ pc = "retrieve" => IsProfile(job.sig)
    /\ Working => FoundIn(job.over, job.sig, job.found)
    /\ pc = "append" => job.gate.margin = job.found.margin
    /\ \A e \in log : \E found : /\ FoundIn(e.over, e.sig, found) /\ e.retrieved = found.candidates
                                 /\ e.gate.margin = found.margin

\* What is published is a registry.
LEMMA RegisteredIsRegistry ==
    ASSUME NEW reg, Registered(reg)
    PROVE  IsRegistry(reg)
BY ShadowAssumption DEF Registered, IsRegistry

\* A candidate that was seen has a profile.
LEMMA ProfilesAreProfiles ==
    ASSUME NEW c \in Cands, NEW n \in Nat \ {0}
    PROVE  IsProfile(Profile(c, n))
<1>1. PICK g : g = Growth[c]
  OBVIOUS
<1>2. g \in Seq(Range(g)) /\ g # <<>> /\ \A sig \in Range(g) : IsProfile(sig)
  BY <1>1, ShadowAssumption
<1>3. PICK len : len = Len(g)
  OBVIOUS
<1>4. len \in Nat \ {0} /\ DOMAIN g = 1..len
  BY <1>2, <1>3
<1>5. PICK m : m = Min({n, len})
  OBVIOUS
<1>6. m \in 1..len
  <2>1. \E x \in {n, len} : \A y \in {n, len} : x <= y
    BY <1>4
  <2>2. m \in {n, len} /\ m <= len
    BY <1>5, <2>1 DEF Min
  <2> QED BY <1>4, <2>2
<1>7. Profile(c, n) = g[m]
  BY <1>1, <1>3, <1>5 DEF Profile
<1>8. g[m] \in Range(g)
  BY <1>4, <1>6 DEF Range
<1> QED BY <1>2, <1>7, <1>8

\* The world moves, and the sweep is where it was.
LEMMA RankWorld ==
    ASSUME RankInv,
           \/ \E c \in Cands : Observe(c) \/ Expire(c)
           \/ \E r \in Publications : Publish(r)
           \/ \E e \in log, mode \in {"auto_apply", "propose_only"} : ApplyIfTrusted(e, mode)
           \/ UNCHANGED vars
    PROVE  RankInv'
<1>1. UNCHANGED <<log, pc, job>>
  BY DEF Observe, Expire, Publish, ApplyIfTrusted, memory, sweep, records, vars
<1> DEFINE States3 == {"provisional", "expired", "promoted"}
<1>2. ASSUME NEW c \in Cands, NEW st \in States3, store' = [store EXCEPT ![c].state = st]
      PROVE  store' \in [Cands -> [count : Nat, state : States3]]
  BY <1>2 DEF RankInv
<1>3. store' \in [Cands -> [count : Nat, state : States3]]
  <2>1. ASSUME NEW c \in Cands, Observe(c) PROVE store' \in [Cands -> [count : Nat, state : States3]]
    <3>1. store' = [store EXCEPT ![c].count = @ + 1]
      BY <2>1 DEF Observe
    <3> QED BY <3>1 DEF RankInv
  <2>2. ASSUME NEW c \in Cands, Expire(c) PROVE store' \in [Cands -> [count : Nat, state : States3]]
    BY <1>2, <2>2 DEF Expire
  <2>3. ASSUME NEW e \in log, NEW mode, ApplyIfTrusted(e, mode)
        PROVE  store' \in [Cands -> [count : Nat, state : States3]]
    <3>1. CASE store' = store
      BY <3>1 DEF RankInv
    <3>2. CASE e.cand \in Cands /\ store' = [store EXCEPT ![e.cand].state = "promoted"]
      BY <1>2, <3>2
    <3> QED BY <2>3, <3>1, <3>2 DEF ApplyIfTrusted, Provisional
  <2>4. CASE (\E r \in Publications : Publish(r)) \/ UNCHANGED vars
    BY <2>4 DEF Publish, RankInv, vars
  <2> QED BY <2>1, <2>2, <2>3, <2>4
<1>4. Registered(registry')
  <2>1. ASSUME NEW r \in Publications, Publish(r) PROVE Registered(registry')
    <3>1. registry' = registry \cup {r}
      BY <2>1 DEF Publish
    <3>2. IsFiniteSet(registry')
      BY <3>1, FS_AddElement DEF RankInv, Registered
    <3> QED BY <3>1, <3>2 DEF RankInv, Registered
  <2>2. CASE registry' = registry
    BY <2>2 DEF RankInv, Registered
  <2> QED BY <2>1, <2>2 DEF Observe, Expire, ApplyIfTrusted, vars
<1> QED BY <1>1, <1>3, <1>4 DEF RankInv, Working, Registered, FoundIn

\* The sweep's own steps leave the store and the registry alone.
LEMMA RankSweep ==
    ASSUME RankInv, SweepNext \/ PageFails \/ ReadFails \/ AppendFails \/ Restart
    PROVE  RankInv'
<1>1. UNCHANGED <<store, registry>>
  BY DEF SweepNext, Page, LastPage, Retrieve, CacheHit, AppendLog, Read, Call, CallFails,
         PageFails, ReadFails, AppendFails, Restart, stores
<1>2. CASE log' = log /\ pc' \notin {"retrieve", "call", "append"}
  BY <1>1, <1>2 DEF RankInv, Working, Registered, FoundIn
<1>3. ASSUME NEW c \in Cands, Read(c) PROVE RankInv'
  <2>1. log' = log
    BY <1>3 DEF Read, records
  <2>2. CASE pc' = "next"
    BY <1>2, <2>1, <2>2
  <2>3. CASE pc' = "retrieve"
    <3>1. Eligible(store[c]) /\ job'.sig = Profile(c, store[c].count)
      BY <1>3, <2>3 DEF Read, NextCandidate
    <3>2. store[c].count \in Nat \ {0}
      BY <3>1, ShadowAssumption DEF RankInv, Eligible
    <3>3. IsProfile(job'.sig)
      BY <3>1, <3>2, ProfilesAreProfiles
    <3> QED BY <1>1, <2>1, <2>3, <3>3 DEF RankInv, Working, Registered, FoundIn
  <2> QED BY <1>3, <2>2, <2>3 DEF Read, NextCandidate
<1>4. CASE Retrieve
  <2>1. log' = log /\ pc = "retrieve"
    BY <1>4 DEF Retrieve, records
  <2>2. CASE pc' = "next"
    BY <1>2, <2>1, <2>2
  <2>3. CASE pc' = "call"
    <3>1. PICK found : found = RetrieveTopK(registry, job.sig, TopK)
      OBVIOUS
    <3>2. job'.found = found /\ job'.over = registry /\ job'.sig = job.sig
      BY <1>4, <2>3, <3>1 DEF Retrieve, NextCandidate
    <3>3. FoundIn(job'.over, job'.sig, job'.found)
      BY <2>1, <3>1, <3>2 DEF RankInv, FoundIn
    <3> QED BY <1>1, <2>1, <2>3, <3>3 DEF RankInv, Working, Registered
  <2> QED BY <1>4, <2>2, <2>3 DEF Retrieve, NextCandidate
<1>5. ASSUME NEW result, Answered(result), pc = "call", log' = log PROVE RankInv'
  <2>1. /\ job'.found = job.found /\ job'.over = job.over /\ job'.sig = job.sig /\ pc' = "append"
        /\ job'.gate.margin = job.found.margin
    BY <1>5 DEF Answered, PolicyGate
  <2> QED BY <1>1, <1>5, <2>1 DEF RankInv, Working, Registered, FoundIn
<1>6. CASE CacheHit
  BY <1>5, <1>6 DEF CacheHit, records
<1>7. ASSUME NEW result, Call(result) PROVE RankInv'
  BY <1>5, <1>7 DEF Call, CallFails, records
<1>8. CASE AppendLog
  <2>1. PICK e : e = ShadowDecision
    OBVIOUS
  <2>2. /\ log' = log \cup {e} /\ pc = "append" /\ pc' = "next"
        /\ e.over = job.over /\ e.sig = job.sig /\ e.retrieved = job.found.candidates /\ e.gate = job.gate
    BY <1>8, <2>1 DEF AppendLog, ShadowDecision, NextCandidate
  <2>3. \E found : /\ FoundIn(e.over, e.sig, found) /\ e.retrieved = found.candidates
                   /\ e.gate.margin = found.margin
    <3>1. FoundIn(e.over, e.sig, job.found) /\ e.gate.margin = job.found.margin
      BY <2>2 DEF RankInv, Working
    <3> QED BY <2>2, <3>1
  <2> QED BY <1>1, <2>2, <2>3 DEF RankInv, Working, Registered, FoundIn
<1>9. CASE Page \/ LastPage \/ PageFails \/ ReadFails \/ AppendFails \/ Restart
  <2>1. log' = log /\ pc' \notin {"retrieve", "call", "append"}
    BY <1>9 DEF Page, LastPage, PageFails, ReadFails, AppendFails, Restart, NextCandidate, records
  <2> QED BY <1>2, <2>1
<1> QED BY <1>3, <1>4, <1>6, <1>7, <1>8, <1>9 DEF SweepNext

\* The invariant of what was ranked.
LEMMA RankAlways == Spec => []RankInv
<1>1. Init => RankInv
  BY FS_EmptySet DEF Init, RankInv, Registered, Working
<1>2. RankInv /\ [Next]_vars => RankInv'
  BY RankWorld, RankSweep DEF Next, WorldNext
<1> QED BY <1>1, <1>2, PTL DEF Spec

\* A schema whose profile is the candidate's own is always found, and first: its bucket is
\* among the neighbouring ones, no representative of its family lies beyond it, and no
\* family comes before it but at distance 0.
LEMMA TwinsAreFound ==
    ASSUME RankInv
    PROVE  TwinIsFound
<1> SUFFICES ASSUME Working, NEW r \in job.over, r.sig = job.sig
             PROVE  job.found.candidates # <<>> /\ job.found.candidates[1].distance = 0
  BY DEF TwinIsFound, Working
<1>1. FoundIn(job.over, job.sig, job.found) /\ IsRegistry(job.over)
  BY RegisteredIsRegistry DEF RankInv, FoundIn
<1>2. r \in ListFamilies(job.over, job.sig)
  <2>1. PICK n, d : n = TopLevelFields(job.sig) /\ d = SummaryDepth(job.sig)
    OBVIOUS
  <2>2. Band(n) \in NeighborBandsAndDepths(job.sig).bands /\ d \in NeighborBandsAndDepths(job.sig).depths
    BY <2>1 DEF NeighborBandsAndDepths
  <2> QED BY <2>1, <2>2 DEF ListFamilies
<1>3. Distance(job.sig, r.sig) = 0
  BY <1>1, DistanceIsSound DEF FoundIn
<1>4. PICK over, sig, found : over = job.over /\ sig = job.sig /\ found = job.found
  OBVIOUS
<1>5. /\ found.candidates # <<>> /\ found.candidates[1].distance \in Nat
      /\ found.candidates[1].distance <= Distance(sig, r.sig)
  BY <1>1, <1>2, <1>4, Retrieved DEF FoundIn
<1> QED BY <1>3, <1>4, <1>5

\* An entry the policy accepts names the first of its ranking, at a margin above zero.
LEMMA AcceptedIsAlone ==
    ASSUME RankInv, OfferInv, NEW e \in log, e.disposition = "accept_match"
    PROVE  UnrivalledBy(e)
<1>1. e.gate.isMatch /\ EvaluatePolicy(e.gate)
  BY DEF OfferInv, Disposition
<1>2. e.gate.rank = 1 /\ e.gate.margin >= 10 * Scale
  BY <1>1 DEF EvaluatePolicy
<1>3. e.retrieved[1].schema = e.result.decision.schema
  BY <1>1, <1>2 DEF OfferInv, Offered
<1>4. PICK over, sig, found : over = e.over /\ sig = e.sig /\ FoundIn(over, sig, found)
                              /\ e.retrieved = found.candidates /\ e.gate.margin = found.margin
  BY DEF RankInv
<1>5. IsRegistry(over) /\ Scale \in Nat \ {0}
  BY <1>4, RegisteredIsRegistry, RetrievalAssumption DEF FoundIn
<1>6. PICK margin : margin = found.margin
  OBVIOUS
<1>7. margin \in Int /\ margin > 0
  <2>1. margin \in Int
    BY <1>4, <1>5, <1>6, Retrieved DEF FoundIn
  <2> QED BY <1>2, <1>4, <1>5, <1>6, <2>1
<1>8. PICK own \in over : /\ found.candidates[1].schema = own.schema
                          /\ \A r \in ListFamilies(over, sig) :
                               r.family # own.family => Distance(sig, r.sig) >= Distance(sig, own.sig) + margin
  BY <1>4, <1>5, <1>6, <1>7, Retrieved DEF FoundIn
<1>9. own = CHOOSE s \in over : s.schema = e.result.decision.schema
  BY <1>3, <1>4, <1>5, <1>8 DEF IsRegistry
<1>10. ASSUME NEW r \in ListFamilies(over, sig), r.family # own.family
       PROVE  Distance(sig, r.sig) >= Distance(sig, own.sig) + 10 * Scale
  <2>1. PICK d, f : d = Distance(sig, r.sig) /\ f = Distance(sig, own.sig)
    OBVIOUS
  <2>2. d \in Nat /\ f \in Nat
    <3>1. r \in over
      BY DEF ListFamilies
    <3>2. IsProfile(r.sig) /\ IsProfile(own.sig) /\ IsProfile(sig)
      BY <1>4, <1>5, <3>1 DEF IsRegistry, FoundIn
    <3> QED BY <1>5, <2>1, <3>2, DistanceIsSound
  <2>3. d >= f + margin /\ margin >= 10 * Scale
    BY <1>2, <1>4, <1>6, <1>8, <1>10, <2>1
  <2> QED BY <1>5, <1>7, <2>1, <2>2, <2>3
<1> QED BY <1>4, <1>9, <1>10 DEF UnrivalledBy

\* The model chooses only among what was retrieved for this very candidate, and a schema
\* whose profile is the candidate's own is always retrieved, as the first, at distance 0
\* (retrieve_topk, validate_decision, cache_key).
THEOREM SelectionHolds == Spec => []SelectionIsSound
<1>1. RankInv /\ OfferInv => SelectionIsSound
  BY TwinsAreFound DEF SelectionIsSound, OfferInv, SelectedWasOffered, Offered
<1> QED BY <1>1, RankAlways, OfferAlways, PTL

\* What the policy accepts has no rival: every version of every other family of the
\* neighbourhood, in the registry as it was ranked, lies beyond the selected one by the
\* margin at least; and nothing else is applied or proposed (rank_candidates,
\* evaluate_policy, apply_if_trusted).
THEOREM AcceptanceHolds == Spec => []AcceptedIsUnrivalled
<1>1. RankInv /\ OfferInv => AcceptedIsUnrivalled
  BY AcceptedIsAlone DEF AcceptedIsUnrivalled, OfferInv
<1> QED BY <1>1, RankAlways, OfferAlways, PTL

-----------------------------------------------------------------------------
(* Umbrella: the listings and the lineage.                                  *)

\* The fields of a request's state, and of a stored umbrella.
IsDecision(r) ==
    r = [pc |-> r.pc, id |-> r.id, fields |-> r.fields, todo |-> r.todo, bundle |-> r.bundle, sound |-> r.sound]
IsUmbrella(u) == u = [state |-> u.state, fields |-> u.fields] /\ u.state \in States

UmbrellaTypes ==
    /\ person = [h \in People |-> person[h]] /\ \A h \in People : IsDecision(person[h])
    /\ umbrellas = [id \in DOMAIN umbrellas |-> umbrellas[id]] /\ \A id \in DOMAIN umbrellas : IsUmbrella(umbrellas[id])
    /\ deaths \in Nat

\* What an approval is about to write the lineage of has its transforms, and what a
\* rejection is about to set exists.
Grounded(r) ==
    /\ r.pc = "lineage" => DOMAIN r.bundle \subseteq DOMAIN TransformsOf(r.id)
    /\ r.pc = "reject" => Known(r.id)

UmbrellaInv ==
    /\ \A h \in People : Grounded(person[h])
    /\ ListedByState
    /\ LineageFollows

\* A request moves on without a command that writes, or ends.
LEMMA DecisionMoves ==
    ASSUME UmbrellaTypes, UmbrellaInv, UNCHANGED umbrellaStore, NEW h \in People, NEW y,
           person' = [person EXCEPT ![h] = y], IsDecision(y), Grounded(y), y.pc # "lineage",
           (deaths' = deaths /\ person[h].pc # "lineage") \/ deaths' = deaths + 1
    PROVE  UmbrellaTypes' /\ UmbrellaInv'
<1>1. UNCHANGED <<umbrellas, listing, transforms, lineage>>
  BY DEF umbrellaStore
<1>2. person'[h] = y /\ (\A k \in People : k # h => person'[k] = person[k]) /\ person' = [k \in People |-> person'[k]]
  BY DEF UmbrellaTypes
<1>3. (\A k \in People : Grounded(person[k]))'
  <2>1. ASSUME NEW k \in People PROVE Grounded(person'[k])
    BY <1>2 DEF UmbrellaInv
  <2> QED BY <1>1, <2>1 DEF Grounded, Known, TransformsOf
<1>4. UmbrellaTypes'
  BY <1>1, <1>2 DEF UmbrellaTypes
<1>5. ListedByState'
  BY <1>1 DEF UmbrellaInv, ListedByState
<1>6. LineageFollows'
  <2>1. deaths' = 0 => deaths = 0 /\ person[h].pc # "lineage"
    BY DEF UmbrellaTypes
  <2>2. \A id : TransformsOf(id)' = TransformsOf(id)
    BY <1>1 DEF TransformsOf
  <2> QED BY <1>1, <1>2, <2>1, <2>2 DEF UmbrellaInv, LineageFollows
<1> QED BY <1>3, <1>4, <1>5, <1>6 DEF UmbrellaInv

\* An umbrella is put under a state: it leaves the other listings.
LEMMA ListedAgain ==
    ASSUME ListedByState, NEW id, NEW s \in States, listing' = Relist(id, s),
           DOMAIN umbrellas' = DOMAIN umbrellas \cup {id}, umbrellas'[id].state = s,
           \A x \in DOMAIN umbrellas : x # id => umbrellas'[x] = umbrellas[x]
    PROVE  ListedByState'
<1>1. ASSUME NEW t \in States
      PROVE  listing'[t] = {x \in DOMAIN umbrellas' : umbrellas'[x].state = t}
  <2>1. listing[t] = {x \in DOMAIN umbrellas : umbrellas[x].state = t}
    BY DEF ListedByState
  <2>2. listing'[t] = IF t = s THEN listing[t] \cup {id} ELSE listing[t] \ {id}
    BY DEF Relist
  <2>3. CASE t = s
    BY <2>1, <2>2, <2>3
  <2>4. CASE t # s
    BY <2>1, <2>2, <2>4
  <2> QED BY <2>3, <2>4
<1> QED BY <1>1 DEF ListedByState

\* The types after an umbrella is put.
LEMMA UmbrellaPut ==
    ASSUME UmbrellaTypes, NEW id, NEW fields, NEW s \in States, PutUmbrella(id, fields, s)
    PROVE  /\ umbrellas' = [x \in DOMAIN umbrellas' |-> umbrellas'[x]]
           /\ \A x \in DOMAIN umbrellas' : IsUmbrella(umbrellas'[x])
           /\ DOMAIN umbrellas' = DOMAIN umbrellas \cup {id} /\ umbrellas'[id].state = s
           /\ \A x \in DOMAIN umbrellas : x # id => umbrellas'[x] = umbrellas[x]
           /\ listing' = Relist(id, s)
<1>1. PICK u : u = [state |-> s, fields |-> fields]
  OBVIOUS
<1>2. IsUmbrella(u) /\ u.state = s
  BY <1>1 DEF IsUmbrella
<1>3. umbrellas' = With(umbrellas, id, u) /\ listing' = Relist(id, s)
  BY <1>1 DEF PutUmbrella
<1>4. /\ DOMAIN umbrellas' = DOMAIN umbrellas \cup {id} /\ umbrellas'[id] = u
      /\ \A x \in DOMAIN umbrellas : x # id => umbrellas'[x] = umbrellas[x]
      /\ umbrellas' = [x \in DOMAIN umbrellas' |-> umbrellas'[x]]
  BY <1>3 DEF With
<1>5. \A x \in DOMAIN umbrellas' : IsUmbrella(umbrellas'[x])
  BY <1>2, <1>4 DEF UmbrellaTypes
<1> QED BY <1>2, <1>3, <1>4, <1>5

\* put_umbrella of a proposal: what was active is no longer, and nothing is active that was not.
LEMMA PutStep ==
    ASSUME UmbrellaTypes, UmbrellaInv, NEW p \in Proposers, Put(p)
    PROVE  UmbrellaTypes' /\ UmbrellaInv'
<1>1. PICK id, fields : PutUmbrella(id, fields, "provisional")
  BY DEF Put
<1>2. UNCHANGED <<person, transforms, lineage, deaths>>
  BY DEF Put, Proposes
<1>3. /\ umbrellas' = [x \in DOMAIN umbrellas' |-> umbrellas'[x]]
      /\ \A x \in DOMAIN umbrellas' : IsUmbrella(umbrellas'[x])
      /\ DOMAIN umbrellas' = DOMAIN umbrellas \cup {id} /\ umbrellas'[id].state = "provisional"
      /\ \A x \in DOMAIN umbrellas : x # id => umbrellas'[x] = umbrellas[x]
      /\ listing' = Relist(id, "provisional")
  BY <1>1, UmbrellaPut DEF States
<1>4. \A x : TransformsOf(x)' = TransformsOf(x)
  BY <1>2 DEF TransformsOf
<1>5. UmbrellaTypes'
  BY <1>2, <1>3 DEF UmbrellaTypes
<1>6. (\A h \in People : Grounded(person[h]))'
  BY <1>2, <1>3, <1>4 DEF UmbrellaInv, Grounded, Known
<1>7. ListedByState'
  BY <1>3, ListedAgain DEF UmbrellaInv, States
<1>8. LineageFollows'
  <2>1. \A x \in DOMAIN umbrellas' : umbrellas'[x].state = "active" =>
           x \in DOMAIN umbrellas /\ umbrellas[x].state = "active"
    BY <1>3
  <2> QED BY <1>2, <1>4, <2>1 DEF UmbrellaInv, LineageFollows
<1> QED BY <1>5, <1>6, <1>7, <1>8 DEF UmbrellaInv

\* put_transform of a proposal.
LEMMA PutNextStep ==
    ASSUME UmbrellaTypes, UmbrellaInv, NEW p \in Proposers, PutNext(p)
    PROVE  UmbrellaTypes' /\ UmbrellaInv'
<1>1. PICK id, c, t : PutTransform(id, c, t)
  BY DEF PutNext
<1>2. UNCHANGED <<person, umbrellas, listing, lineage, deaths>>
  BY DEF PutNext, Proposes
<1>3. PICK ts : ts = With(TransformsOf(id), c, t)
  OBVIOUS
<1>4. transforms' = With(transforms, id, ts) /\ DOMAIN TransformsOf(id) \subseteq DOMAIN ts
  BY <1>1, <1>3 DEF PutTransform, With
<1>5. \A x : DOMAIN TransformsOf(x) \subseteq DOMAIN TransformsOf(x)'
  BY <1>4 DEF TransformsOf, With
<1>6. UmbrellaTypes'
  BY <1>2 DEF UmbrellaTypes
<1>7. (\A h \in People : Grounded(person[h]))'
  BY <1>2, <1>5 DEF UmbrellaInv, Grounded, Known
<1>8. ListedByState' /\ LineageFollows'
  BY <1>2, <1>5 DEF UmbrellaInv, ListedByState, LineageFollows
<1> QED BY <1>6, <1>7, <1>8 DEF UmbrellaInv

\* One request moves to y; the others stay.
LEMMA OneDecides ==
    ASSUME UmbrellaTypes, NEW h \in People, NEW y, IsDecision(y), person' = [person EXCEPT ![h] = y]
    PROVE  /\ person'[h] = y /\ \A k \in People : k # h => person'[k] = person[k]
           /\ person' = [k \in People |-> person'[k]] /\ \A k \in People : IsDecision(person'[k])
BY DEF UmbrellaTypes

\* promote_bundle: the umbrella is active, its bundle is stored, and the lineage is next.
LEMMA PromoteStep ==
    ASSUME UmbrellaTypes, UmbrellaInv, NEW h \in People, ApprovePromote(h)
    PROVE  UmbrellaTypes' /\ UmbrellaInv'
<1>1. PICK id, fields, bundle : id = person[h].id /\ fields = person[h].fields /\ bundle = person[h].bundle
  OBVIOUS
<1>2. PICK y : y = [person[h] EXCEPT !.pc = "lineage"]
  OBVIOUS
<1>3. IsDecision(person[h])
  BY DEF UmbrellaTypes
<1>4. IsDecision(y) /\ y.pc = "lineage" /\ y.id = id /\ y.bundle = bundle
  BY <1>1, <1>2, <1>3 DEF IsDecision
<1>5. /\ PutUmbrella(id, fields, "active") /\ person' = [person EXCEPT ![h] = y]
      /\ transforms' = With(transforms, id,
           [c \in DOMAIN TransformsOf(id) \cup DOMAIN bundle |->
              IF c \in DOMAIN bundle THEN bundle[c] ELSE TransformsOf(id)[c]])
      /\ UNCHANGED <<lineage, deaths>> /\ person[h].pc = "verify"
  BY <1>1, <1>2 DEF ApprovePromote, PromoteBundle, Acts
<1>6. /\ person'[h] = y /\ \A k \in People : k # h => person'[k] = person[k]
      /\ person' = [k \in People |-> person'[k]] /\ \A k \in People : IsDecision(person'[k])
  BY <1>4, <1>5, OneDecides
<1>7. /\ umbrellas' = [x \in DOMAIN umbrellas' |-> umbrellas'[x]]
      /\ \A x \in DOMAIN umbrellas' : IsUmbrella(umbrellas'[x])
      /\ DOMAIN umbrellas' = DOMAIN umbrellas \cup {id} /\ umbrellas'[id].state = "active"
      /\ \A x \in DOMAIN umbrellas : x # id => umbrellas'[x] = umbrellas[x]
      /\ listing' = Relist(id, "active")
  BY <1>5, UmbrellaPut DEF States
<1>8. PICK ts : ts = [c \in DOMAIN TransformsOf(id) \cup DOMAIN bundle |->
                        IF c \in DOMAIN bundle THEN bundle[c] ELSE TransformsOf(id)[c]]
  OBVIOUS
<1>9. /\ transforms' = With(transforms, id, ts)
      /\ DOMAIN TransformsOf(id) \subseteq DOMAIN ts /\ DOMAIN bundle \subseteq DOMAIN ts
  BY <1>5, <1>8
<1>10. /\ \A x : DOMAIN TransformsOf(x) \subseteq DOMAIN TransformsOf(x)'
       /\ DOMAIN bundle \subseteq DOMAIN TransformsOf(id)'
  BY <1>9 DEF TransformsOf, With
<1>11. UmbrellaTypes'
  BY <1>5, <1>6, <1>7 DEF UmbrellaTypes
<1>12. (\A k \in People : Grounded(person[k]))'
  <2>1. Grounded(y)'
    BY <1>4, <1>10 DEF Grounded
  <2>2. ASSUME NEW k \in People, k # h PROVE Grounded(person[k])'
    BY <1>6, <1>7, <1>10, <2>2 DEF UmbrellaInv, Grounded, Known
  <2> QED BY <1>6, <2>1, <2>2 DEF Grounded, Known
<1>13. ListedByState'
  BY <1>7, ListedAgain DEF UmbrellaInv, States
<1>14. LineageFollows'
  BY <1>4, <1>5, <1>6, <1>7, <1>10 DEF UmbrellaInv, LineageFollows
<1> QED BY <1>11, <1>12, <1>13, <1>14 DEF UmbrellaInv

\* put_lineage_assertion.
LEMMA LineageStep ==
    ASSUME UmbrellaTypes, UmbrellaInv, NEW h \in People, ApproveLineage(h)
    PROVE  UmbrellaTypes' /\ UmbrellaInv'
<1>1. IsDecision(IdlePerson) /\ IdlePerson.pc = "idle"
  BY DEF IsDecision, IdlePerson
<1>2. PICK id, members : id = person[h].id /\ members = DOMAIN person[h].bundle
  OBVIOUS
<1>3. /\ lineage' = With(lineage, id, members) /\ person' = [person EXCEPT ![h] = IdlePerson]
      /\ UNCHANGED <<umbrellas, listing, transforms, deaths>> /\ person[h].pc = "lineage"
  BY <1>2 DEF ApproveLineage, PutLineageAssertion, Acts
<1>4. /\ person'[h] = IdlePerson /\ \A k \in People : k # h => person'[k] = person[k]
      /\ person' = [k \in People |-> person'[k]] /\ \A k \in People : IsDecision(person'[k])
  BY <1>1, <1>3, OneDecides
<1>5. \A x : TransformsOf(x)' = TransformsOf(x)
  BY <1>3 DEF TransformsOf
<1>6. members \subseteq DOMAIN TransformsOf(id)
  BY <1>2, <1>3 DEF UmbrellaInv, Grounded
<1>7. /\ DOMAIN lineage' = DOMAIN lineage \cup {id} /\ lineage'[id] = members
      /\ \A x \in DOMAIN lineage : x # id => lineage'[x] = lineage[x]
  BY <1>3 DEF With
<1>8. UmbrellaTypes'
  BY <1>3, <1>4 DEF UmbrellaTypes
<1>9. (\A k \in People : Grounded(person[k]))'
  BY <1>1, <1>3, <1>4, <1>5 DEF UmbrellaInv, Grounded, Known
<1>10. ListedByState'
  BY <1>3 DEF UmbrellaInv, ListedByState
<1>11. LineageFollows'
  <2>1. ASSUME deaths' = 0, NEW x \in DOMAIN umbrellas', umbrellas'[x].state = "active"
        PROVE  x \in DOMAIN lineage' \/ \E k \in People : person'[k].pc = "lineage" /\ person'[k].id = x
    BY <1>2, <1>3, <1>4, <1>7, <2>1 DEF UmbrellaInv, LineageFollows
  <2>2. \A x \in DOMAIN lineage' : lineage'[x] \subseteq DOMAIN TransformsOf(x)
    BY <1>6, <1>7 DEF UmbrellaInv, LineageFollows
  <2> QED BY <1>5, <2>1, <2>2 DEF LineageFollows
<1> QED BY <1>8, <1>9, <1>10, <1>11 DEF UmbrellaInv

\* set_state of a rejection: an umbrella is active no longer.
LEMMA RejectStep ==
    ASSUME UmbrellaTypes, UmbrellaInv, NEW h \in People, RejectSet(h)
    PROVE  UmbrellaTypes' /\ UmbrellaInv'
<1>1. IsDecision(IdlePerson) /\ IdlePerson.pc = "idle"
  BY DEF IsDecision, IdlePerson
<1>2. PICK id : id = person[h].id
  OBVIOUS
<1>3. /\ umbrellas' = [umbrellas EXCEPT ![id].state = "rejected"] /\ listing' = Relist(id, "rejected")
      /\ person' = [person EXCEPT ![h] = IdlePerson]
      /\ UNCHANGED <<transforms, lineage, deaths>> /\ person[h].pc = "reject"
  BY <1>2 DEF RejectSet, SetState, Acts
<1>4. /\ person'[h] = IdlePerson /\ \A k \in People : k # h => person'[k] = person[k]
      /\ person' = [k \in People |-> person'[k]] /\ \A k \in People : IsDecision(person'[k])
  BY <1>1, <1>3, OneDecides
<1>5. id \in DOMAIN umbrellas /\ IsUmbrella(umbrellas[id])
  BY <1>2, <1>3 DEF UmbrellaTypes, UmbrellaInv, Grounded, Known
<1>6. PICK u : u = [umbrellas[id] EXCEPT !.state = "rejected"]
  OBVIOUS
<1>7. IsUmbrella(u) /\ u.state = "rejected"
  BY <1>5, <1>6 DEF IsUmbrella, States
<1>8. /\ DOMAIN umbrellas' = DOMAIN umbrellas \cup {id} /\ umbrellas'[id] = u
      /\ \A x \in DOMAIN umbrellas : x # id => umbrellas'[x] = umbrellas[x]
      /\ umbrellas' = [x \in DOMAIN umbrellas' |-> umbrellas'[x]]
  BY <1>3, <1>5, <1>6 DEF UmbrellaTypes
<1>9. \A x : TransformsOf(x)' = TransformsOf(x)
  BY <1>3 DEF TransformsOf
<1>10. UmbrellaTypes'
  BY <1>3, <1>4, <1>7, <1>8 DEF UmbrellaTypes
<1>11. (\A k \in People : Grounded(person[k]))'
  BY <1>1, <1>4, <1>8, <1>9 DEF UmbrellaInv, Grounded, Known
<1>12. ListedByState'
  BY <1>3, <1>7, <1>8, ListedAgain DEF UmbrellaInv, States
<1>13. LineageFollows'
  <2>1. \A x \in DOMAIN umbrellas' : umbrellas'[x].state = "active" =>
           x \in DOMAIN umbrellas /\ umbrellas[x].state = "active"
    BY <1>7, <1>8
  <2>2. \A k \in People : person[k].pc = "lineage" => person'[k] = person[k]
    BY <1>3, <1>4
  <2> QED BY <1>3, <1>9, <2>1, <2>2 DEF UmbrellaInv, LineageFollows
<1> QED BY <1>10, <1>11, <1>12, <1>13 DEF UmbrellaInv

\* Requests read, verify, refuse and end without a command that writes.
LEMMA DecisionStep ==
    ASSUME UmbrellaTypes, UmbrellaInv, NEW h \in People,
           \/ \E id \in DOMAIN umbrellas : ApproveRead(h, id) \/ RejectRead(h, id)
           \/ \E c \in ChildIds : ApproveGet(h, c) \/ ApproveVerify(h, c)
           \/ ApproveList(h) \/ ApproveListed(h) \/ ApproveRefused(h) \/ DecisionDies(h)
    PROVE  UmbrellaTypes' /\ UmbrellaInv'
<1>1. IsDecision(IdlePerson) /\ IdlePerson.pc = "idle"
  BY DEF IsDecision, IdlePerson
<1>2. IsDecision(person[h])
  BY DEF UmbrellaTypes
<1>3. ASSUME NEW id \in DOMAIN umbrellas, ApproveRead(h, id) PROVE UmbrellaTypes' /\ UmbrellaInv'
  <2>1. PICK y : y = [IdlePerson EXCEPT !.pc = "list", !.id = id, !.fields = umbrellas[id].fields]
    OBVIOUS
  <2>2. IsDecision(y) /\ y.pc = "list"
    BY <2>1 DEF IsDecision, IdlePerson
  <2>3. person' = [person EXCEPT ![h] = y] /\ UNCHANGED umbrellaStore /\ deaths' = deaths /\ person[h].pc = "idle"
    BY <1>3, <2>1 DEF ApproveRead, Acts
  <2> QED BY <2>2, <2>3, DecisionMoves DEF Grounded
<1>4. ASSUME NEW id \in DOMAIN umbrellas, RejectRead(h, id) PROVE UmbrellaTypes' /\ UmbrellaInv'
  <2>1. PICK y : y = [IdlePerson EXCEPT !.pc = "reject", !.id = id]
    OBVIOUS
  <2>2. IsDecision(y) /\ y.pc = "reject" /\ y.id = id
    BY <2>1 DEF IsDecision, IdlePerson
  <2>3. person' = [person EXCEPT ![h] = y] /\ UNCHANGED umbrellaStore /\ deaths' = deaths /\ person[h].pc = "idle"
    BY <1>4, <2>1 DEF RejectRead, Acts
  <2> QED BY <2>2, <2>3, DecisionMoves DEF Grounded, Known
<1>5. ASSUME NEW c \in ChildIds, ApproveGet(h, c) PROVE UmbrellaTypes' /\ UmbrellaInv'
  <2>1. PICK b : b = With(person[h].bundle, c, TransformsOf(person[h].id)[c])
    OBVIOUS
  <2>2. PICK y : y = [person[h] EXCEPT !.todo = person[h].todo \ {c}, !.bundle = b]
    OBVIOUS
  <2>3. IsDecision(y) /\ y.pc = person[h].pc
    BY <1>2, <2>2 DEF IsDecision
  <2>4. person' = [person EXCEPT ![h] = y] /\ UNCHANGED umbrellaStore /\ deaths' = deaths /\ person[h].pc = "get"
    BY <1>5, <2>1, <2>2 DEF ApproveGet, Acts
  <2> QED BY <2>3, <2>4, DecisionMoves DEF Grounded
<1>6. ASSUME NEW c \in ChildIds, ApproveVerify(h, c) PROVE UmbrellaTypes' /\ UmbrellaInv'
  <2>1. PICK b : b = (person[h].sound /\ VerifyStatic(person[h].bundle[c], person[h].fields, FieldsNow(c)) = {})
    OBVIOUS
  <2>2. PICK y : y = [person[h] EXCEPT !.todo = person[h].todo \ {c}, !.sound = b]
    OBVIOUS
  <2>3. IsDecision(y) /\ y.pc = person[h].pc
    BY <1>2, <2>2 DEF IsDecision
  <2>4. person' = [person EXCEPT ![h] = y] /\ UNCHANGED umbrellaStore /\ deaths' = deaths /\ person[h].pc = "verify"
    BY <1>6, <2>1, <2>2 DEF ApproveVerify, Acts
  <2> QED BY <2>3, <2>4, DecisionMoves DEF Grounded
<1>7. ASSUME ApproveList(h) \/ ApproveListed(h) PROVE UmbrellaTypes' /\ UmbrellaInv'
  <2>1. PICK at, todo_ : /\ person' = [person EXCEPT ![h] = [person[h] EXCEPT !.pc = at, !.todo = todo_]]
                         /\ at \in {"get", "verify"}
    BY <1>7 DEF ApproveList, ApproveListed, Acts
  <2>2. PICK y : y = [person[h] EXCEPT !.pc = at, !.todo = todo_]
    OBVIOUS
  <2>3. IsDecision(y) /\ y.pc = at
    BY <1>2, <2>2 DEF IsDecision
  <2>4. UNCHANGED umbrellaStore /\ deaths' = deaths /\ person[h].pc \in {"list", "get"}
    BY <1>7 DEF ApproveList, ApproveListed, Acts
  <2> QED BY <2>1, <2>2, <2>3, <2>4, DecisionMoves DEF Grounded
<1>8. ASSUME ApproveRefused(h) PROVE UmbrellaTypes' /\ UmbrellaInv'
  <2>1. /\ person' = [person EXCEPT ![h] = IdlePerson] /\ UNCHANGED umbrellaStore
        /\ deaths' = deaths /\ person[h].pc = "verify"
    BY <1>8 DEF ApproveRefused, Acts
  <2> QED BY <1>1, <2>1, DecisionMoves DEF Grounded
<1>9. ASSUME DecisionDies(h) PROVE UmbrellaTypes' /\ UmbrellaInv'
  <2>1. person' = [person EXCEPT ![h] = IdlePerson] /\ UNCHANGED umbrellaStore /\ deaths' = deaths + 1
    BY <1>9 DEF DecisionDies, umbrellaStore
  <2> QED BY <1>1, <2>1, DecisionMoves DEF Grounded
<1> QED BY <1>3, <1>4, <1>5, <1>6, <1>7, <1>8, <1>9

\* Annotations change and proposals are gathered, weighed and given up.
LEMMA BesideStep ==
    ASSUME UmbrellaTypes, UmbrellaInv, UNCHANGED <<umbrellaStore, person>>, deaths' \in {deaths, deaths + 1}
    PROVE  UmbrellaTypes' /\ UmbrellaInv'
<1>1. UNCHANGED <<umbrellas, listing, transforms, lineage, person>>
  BY DEF umbrellaStore
<1>2. \A x : TransformsOf(x)' = TransformsOf(x)
  BY <1>1 DEF TransformsOf
<1>3. UmbrellaTypes' /\ (deaths' = 0 => deaths = 0)
  BY <1>1 DEF UmbrellaTypes
<1>4. (\A k \in People : Grounded(person[k]))' /\ ListedByState' /\ LineageFollows'
  BY <1>1, <1>2, <1>3 DEF UmbrellaInv, Grounded, Known, ListedByState, LineageFollows
<1> QED BY <1>3, <1>4 DEF UmbrellaInv

\* The invariant holds, however many proposals, approvals, rejections and deaths there are.
THEOREM UmbrellaInvariant == UmbrellaSpec => [](UmbrellaTypes /\ UmbrellaInv)
<1>1. UmbrellaInit => UmbrellaTypes /\ UmbrellaInv
  <2> SUFFICES ASSUME UmbrellaInit PROVE UmbrellaTypes /\ UmbrellaInv
    OBVIOUS
  <2>1. IsDecision(IdlePerson) /\ IdlePerson.pc = "idle"
    BY DEF IsDecision, IdlePerson
  <2>2. DOMAIN umbrellas = {} /\ DOMAIN lineage = {} /\ umbrellas = [x \in DOMAIN umbrellas |-> umbrellas[x]]
    BY DEF UmbrellaInit
  <2>3. UmbrellaTypes
    BY <2>1, <2>2 DEF UmbrellaInit, UmbrellaTypes
  <2>4. ListedByState
    BY <2>2 DEF UmbrellaInit, ListedByState
  <2>5. \A h \in People : Grounded(person[h])
    BY <2>1 DEF UmbrellaInit, Grounded
  <2> QED BY <2>2, <2>3, <2>4, <2>5 DEF UmbrellaInv, LineageFollows
<1>2. UmbrellaTypes /\ UmbrellaInv /\ [UmbrellaNext]_umbrellaVars => UmbrellaTypes' /\ UmbrellaInv'
  <2> SUFFICES ASSUME UmbrellaTypes, UmbrellaInv, [UmbrellaNext]_umbrellaVars
               PROVE  UmbrellaTypes' /\ UmbrellaInv'
    OBVIOUS
  <2>1. CASE \/ \E c \in ChildIds : \E n \in Notes[c] : Annotate(c, n)
             \/ \E p \in Proposers : \/ Gather(p) \/ Group(p) \/ Proposed(p) \/ ProposalDies(p)
                                     \/ \E sig \in proposer[p].todo : Check(p, sig)
             \/ UNCHANGED umbrellaVars
    <3>1. UNCHANGED <<umbrellaStore, person>> /\ deaths' \in {deaths, deaths + 1}
      BY <2>1 DEF Annotate, Gather, Group, Proposed, ProposalDies, Check, Proposes, umbrellaVars, umbrellaStore
    <3> QED BY SMTT(30), <3>1, BesideStep
  <2>2. ASSUME NEW p \in Proposers, Put(p) PROVE UmbrellaTypes' /\ UmbrellaInv'
    BY <2>2, PutStep
  <2>3. ASSUME NEW p \in Proposers, PutNext(p) PROVE UmbrellaTypes' /\ UmbrellaInv'
    BY <2>3, PutNextStep
  <2>4. ASSUME NEW h \in People, Decide(h) \/ DecisionDies(h) PROVE UmbrellaTypes' /\ UmbrellaInv'
    BY <2>4, DecisionStep, PromoteStep, LineageStep, RejectStep DEF Decide
  <2> QED BY <2>1, <2>2, <2>3, <2>4 DEF UmbrellaNext, Propose
<1> QED BY <1>1, <1>2, PTL DEF UmbrellaSpec

\* list_umbrellas neither loses an umbrella nor repeats one.
THEOREM ListingsFollowStates == UmbrellaSpec => []ListedByState
<1>1. UmbrellaInv => ListedByState
  BY DEF UmbrellaInv
<1> QED BY <1>1, UmbrellaInvariant, PTL

\* An active umbrella has its lineage, unless a request died, and a lineage names only
\* children whose transforms are stored.
THEOREM LineageFollowsPromotion == UmbrellaSpec => []LineageFollows
<1>1. UmbrellaInv => LineageFollows
  BY DEF UmbrellaInv
<1> QED BY <1>1, UmbrellaInvariant, PTL

-----------------------------------------------------------------------------
(* Umbrella: what the operators on sequences and transforms come to.        *)

\* The leaves of a schema that is a tree: no two at a path, none on the way to a node.
IsTree(nodes) ==
    /\ nodes \in Seq({nodes[j] : j \in DOMAIN nodes})
    /\ \A j, k \in DOMAIN nodes : /\ nodes[j].path = nodes[k].path => j = k
                                  /\ ProperPrefix(nodes[j].path, nodes[k].path) => InTypes(nodes[j], "object")
\* Fields of a child, apart from each other and of the types there are.
FieldsApart(fields) ==
    /\ \E n \in Nat : DOMAIN fields = 1..n
    /\ \A j, k \in DOMAIN fields : /\ fields[j].path = fields[k].path => j = k
                                   /\ ~ProperPrefix(fields[j].path, fields[k].path)
    /\ \A k \in DOMAIN fields : fields[k].ty \in Scalars

\* The leaves of a tree of nodes are such fields.
LEMMA LeavesApart ==
    ASSUME NEW nodes, IsTree(nodes), NEW n
    PROVE  FieldsApart(ChildFields(nodes, n))
<1>1. PICK N \in Nat : DOMAIN nodes = 1..N
  <2>1. PICK T : nodes \in Seq(T)
    BY DEF IsTree
  <2> QED BY <2>1
<1>2. PICK I : I = {i \in DOMAIN nodes : nodes[i].path # <<>> /\ IsLeaf(nodes, i) /\ LeafType(nodes[i]) # {}}
  OBVIOUS
<1>3. I \subseteq 1..N
  BY <1>1, <1>2
<1>4. PICK leaves : leaves = ElementsAt(nodes, I)
  OBVIOUS
<1>5. PICK m \in Nat : \E at \in [1..m -> I] : Picks(leaves, nodes, m, at)
  BY <1>1, <1>3, <1>4, ElementsKept
<1>6. PICK at \in [1..m -> I] : Picks(leaves, nodes, m, at)
  BY <1>5
<1>7. PICK fields : fields = ChildFields(nodes, n)
  OBVIOUS
<1>8. DOMAIN fields = 1..m /\ \A k \in 1..m : /\ fields[k].path = nodes[at[k]].path
                                              /\ fields[k].ty = CHOOSE t \in LeafType(nodes[at[k]]) : TRUE
  BY <1>2, <1>4, <1>6, <1>7 DEF ChildFields, Picks
<1>9. ASSUME NEW j \in 1..m, NEW k \in 1..m
      PROVE  /\ fields[j].path = fields[k].path => j = k
             /\ ~ProperPrefix(fields[j].path, fields[k].path)
  <2>1. PICK a \in I, b \in I : a = at[j] /\ b = at[k] /\ (a = b => j = k)
    BY <1>6 DEF Picks
  <2>2. nodes[a].path = nodes[b].path => a = b
    BY <1>1, <1>3 DEF IsTree
  <2>3. ~ProperPrefix(nodes[a].path, nodes[b].path)
    <3>1. IsLeaf(nodes, a) /\ b \in DOMAIN nodes
      BY <1>1, <1>2, <1>3
    <3> QED BY <1>1, <1>3, <3>1 DEF IsLeaf, IsTree
  <2> QED BY <1>8, <2>1, <2>2, <2>3
<1>10. ASSUME NEW k \in 1..m PROVE fields[k].ty \in Scalars
  <2>1. LeafType(nodes[at[k]]) # {}
    BY <1>2
  <2>2. LeafType(nodes[at[k]]) \subseteq Scalars
    BY DEF LeafType, ScalarTypeOf, Scalars
  <2> QED BY <1>8, <2>1, <2>2
<1> QED BY <1>7, <1>8, <1>9, <1>10 DEF FieldsApart

\* What the annotation does not touch.
LEMMA LeavesStay ==
    ASSUME NEW nodes, NEW n, NEW o
    PROVE  /\ DOMAIN ChildFields(nodes, n) = DOMAIN ChildFields(nodes, o)
           /\ \A k \in DOMAIN ChildFields(nodes, n) :
                LET f == ChildFields(nodes, n)[k]  g == ChildFields(nodes, o)[k]
                IN f.path = g.path /\ f.ty = g.ty /\ f.array = g.array
<1>1. PICK leaves : leaves = ElementsAt(nodes, {i \in DOMAIN nodes :
                      nodes[i].path # <<>> /\ IsLeaf(nodes, i) /\ LeafType(nodes[i]) # {}})
  OBVIOUS
<1>2. \A x : /\ DOMAIN ChildFields(nodes, x) = DOMAIN leaves
             /\ \A k \in DOMAIN leaves : /\ ChildFields(nodes, x)[k].path = leaves[k].path
                                         /\ ChildFields(nodes, x)[k].ty = CHOOSE t \in LeafType(leaves[k]) : TRUE
                                         /\ ChildFields(nodes, x)[k].array = InTypes(leaves[k], "array")
  BY <1>1 DEF ChildFields
<1> QED BY <1>2

\* The annotated fields are fields, once each.
LEMMA AnnotatedFields ==
    ASSUME NEW fields, FieldsApart(fields)
    PROVE  /\ FieldsApart(Annotated(fields))
           /\ \A k \in DOMAIN Annotated(fields) : \E i \in DOMAIN fields :
                Annotated(fields)[k] = fields[i] /\ fields[i].cfid # NoCfid
<1>1. PICK n \in Nat : DOMAIN fields = 1..n
  BY DEF FieldsApart
<1>2. PICK I : I = {i \in DOMAIN fields : fields[i].cfid # NoCfid}
  OBVIOUS
<1>3. I \subseteq 1..n
  BY <1>1, <1>2
<1>4. PICK own : own = Annotated(fields)
  OBVIOUS
<1>5. own = ElementsAt(fields, I)
  BY <1>2, <1>4 DEF Annotated
<1>6. PICK m \in Nat : \E at \in [1..m -> I] : Picks(own, fields, m, at)
  BY <1>1, <1>3, <1>5, ElementsKept
<1>7. PICK at \in [1..m -> I] : Picks(own, fields, m, at)
  BY <1>6
<1>8. DOMAIN own = 1..m /\ \A k \in 1..m : own[k] = fields[at[k]]
  BY <1>7 DEF Picks
<1>9. \A k \in DOMAIN own : \E i \in DOMAIN fields : own[k] = fields[i] /\ fields[i].cfid # NoCfid
  BY <1>2, <1>8
<1>10. FieldsApart(own)
  <2>1. ASSUME NEW j \in 1..m, NEW k \in 1..m
        PROVE  /\ own[j].path = own[k].path => j = k
               /\ ~ProperPrefix(own[j].path, own[k].path)
    <3>1. PICK a \in I, b \in I : a = at[j] /\ b = at[k] /\ (a = b => j = k)
      BY <1>7 DEF Picks
    <3>2. own[j] = fields[a] /\ own[k] = fields[b] /\ a \in DOMAIN fields /\ b \in DOMAIN fields
      BY <1>1, <1>3, <1>8, <3>1
    <3> QED BY <3>1, <3>2 DEF FieldsApart
  <2>2. \A k \in DOMAIN own : own[k].ty \in Scalars
    BY <1>9 DEF FieldsApart
  <2> QED BY <1>8, <2>1, <2>2 DEF FieldsApart
<1> QED BY <1>4, <1>9, <1>10

-----------------------------------------------------------------------------
\* What the recursion of apply computes up to k.
GoldAfter(f, bs, event, n) == IF n = 0 THEN {Empty} ELSE Write(f[n - 1], bs[n], event)
Applies(f, bs, event, k) == \A n \in 0..k : f[n] = GoldAfter(f, bs, event, n)

\* The gold events after each binding.
LEMMA Applied ==
    ASSUME NEW transform, NEW bs, bs = transform.bindings, NEW N \in Nat, N = Len(bs), NEW event
    PROVE  \E f : Applies(f, bs, event, N) /\ Apply(transform, event) = f[N]
<1> DEFINE Good == {k \in 0..N : \E g : Applies(g, bs, event, k)}
<1>1. 0 \in Good
  <2>1. PICK g : g = [m \in 0..0 |-> {Empty}]
    OBVIOUS
  <2>2. Applies(g, bs, event, 0)
    BY <2>1 DEF Applies, GoldAfter
  <2> QED BY <2>2
<1>2. ASSUME NEW k \in 1..N, k - 1 \in Good PROVE k \in Good
  <2>1. PICK g : Applies(g, bs, event, k - 1)
    BY <1>2
  <2>2. PICK h : h = [n \in 0..k |-> IF n = k THEN Write(g[k - 1], bs[k], event) ELSE g[n]]
    OBVIOUS
  <2>3. \A n \in 0..(k - 1) : h[n] = g[n]
    BY <2>2
  <2>4. h[k] = Write(g[k - 1], bs[k], event) /\ h[k - 1] = g[k - 1]
    BY <2>2
  <2>5. ASSUME NEW n \in 0..k PROVE h[n] = GoldAfter(h, bs, event, n)
    <3>1. CASE n = k
      BY <2>4, <3>1 DEF GoldAfter
    <3>2. CASE n # k
      <4>1. n \in 0..(k - 1) /\ h[n] = g[n]
        BY <2>3, <3>2
      <4>2. g[n] = GoldAfter(g, bs, event, n)
        BY <2>1, <4>1 DEF Applies
      <4>3. n # 0 => n - 1 \in 0..(k - 1)
        BY <4>1
      <4>4. n # 0 => h[n - 1] = g[n - 1]
        BY <2>3, <4>3
      <4> QED BY <4>1, <4>2, <4>4 DEF GoldAfter
    <3> QED BY <3>1, <3>2
  <2>6. Applies(h, bs, event, k)
    BY <2>5 DEF Applies
  <2>7. \E e : Applies(e, bs, event, k)
    BY <2>6
  <2> QED BY <2>7
<1>3. N \in Good
  <2> HIDE DEF Good
  <2>1. \A k \in 0..N : k \in Good
    BY <1>1, <1>2, UpTo
  <2> QED BY <2>1
<1>4. PICK g : Applies(g, bs, event, N)
  BY <1>3
<1>5. PICK h : h = [n \in 0..N |-> g[n]]
  OBVIOUS
<1>6. \A n \in 0..N : h[n] = GoldAfter(h, bs, event, n)
  <2>1. \A n \in 0..N : n # 0 => n - 1 \in 0..N
    OBVIOUS
  <2> QED BY <1>4, <1>5, <2>1 DEF Applies, GoldAfter
<1>7. h = [n \in 0..N |-> GoldAfter(h, bs, event, n)]
  BY <1>5, <1>6
<1>8. PICK f : f = CHOOSE e : e = [n \in 0..N |-> GoldAfter(e, bs, event, n)]
  OBVIOUS
<1>9. f = [n \in 0..N |-> GoldAfter(f, bs, event, n)]
  BY <1>7, <1>8
<1>10. Apply(transform, event) = f[N]
  BY <1>8 DEF Apply, GoldAfter
<1>11. Applies(f, bs, event, N)
  BY <1>9 DEF Applies
<1> QED BY <1>10, <1>11

\* ... of apply_ops,
ValueAfter(f, v, ops, n) == IF n = 0 THEN v ELSE ApplyOp(f[n - 1], ops[n])
Runs(f, v, ops, k) == \A n \in 0..k : f[n] = ValueAfter(f, v, ops, n)

\* the value after each op;
LEMMA OpsApplied ==
    ASSUME NEW v, NEW ops, NEW N \in Nat, N = Len(ops)
    PROVE  \E f : Runs(f, v, ops, N) /\ ApplyOps(v, ops) = f[N]
<1> DEFINE Good == {k \in 0..N : \E g : Runs(g, v, ops, k)}
<1>1. 0 \in Good
  <2>1. PICK g : g = [m \in 0..0 |-> v]
    OBVIOUS
  <2>2. Runs(g, v, ops, 0)
    BY <2>1 DEF Runs, ValueAfter
  <2> QED BY <2>2
<1>2. ASSUME NEW k \in 1..N, k - 1 \in Good PROVE k \in Good
  <2>1. PICK g : Runs(g, v, ops, k - 1)
    BY <1>2
  <2>2. PICK h : h = [n \in 0..k |-> IF n = k THEN ApplyOp(g[k - 1], ops[k]) ELSE g[n]]
    OBVIOUS
  <2>3. \A n \in 0..(k - 1) : h[n] = g[n]
    BY <2>2
  <2>4. h[k] = ApplyOp(g[k - 1], ops[k]) /\ h[k - 1] = g[k - 1]
    BY <2>2
  <2>5. ASSUME NEW n \in 0..k PROVE h[n] = ValueAfter(h, v, ops, n)
    <3>1. CASE n = k
      BY <2>4, <3>1 DEF ValueAfter
    <3>2. CASE n # k
      <4>1. n \in 0..(k - 1) /\ h[n] = g[n]
        BY <2>3, <3>2
      <4>2. g[n] = ValueAfter(g, v, ops, n)
        BY <2>1, <4>1 DEF Runs
      <4>3. n # 0 => n - 1 \in 0..(k - 1)
        BY <4>1
      <4>4. n # 0 => h[n - 1] = g[n - 1]
        BY <2>3, <4>3
      <4> QED BY <4>1, <4>2, <4>4 DEF ValueAfter
    <3> QED BY <3>1, <3>2
  <2>6. Runs(h, v, ops, k)
    BY <2>5 DEF Runs
  <2>7. \E e : Runs(e, v, ops, k)
    BY <2>6
  <2> QED BY <2>7
<1>3. N \in Good
  <2> HIDE DEF Good
  <2>1. \A k \in 0..N : k \in Good
    BY <1>1, <1>2, UpTo
  <2> QED BY <2>1
<1>4. PICK g : Runs(g, v, ops, N)
  BY <1>3
<1>5. PICK h : h = [n \in 0..N |-> g[n]]
  OBVIOUS
<1>6. \A n \in 0..N : h[n] = ValueAfter(h, v, ops, n)
  <2>1. \A n \in 0..N : n # 0 => n - 1 \in 0..N
    OBVIOUS
  <2> QED BY <1>4, <1>5, <2>1 DEF Runs, ValueAfter
<1>7. h = [n \in 0..N |-> ValueAfter(h, v, ops, n)]
  BY <1>5, <1>6
<1>8. PICK f : f = CHOOSE e : e = [n \in 0..N |-> ValueAfter(e, v, ops, n)]
  OBVIOUS
<1>9. f = [n \in 0..N |-> ValueAfter(f, v, ops, n)]
  BY <1>7, <1>8
<1>10. ApplyOps(v, ops) = f[N]
  BY <1>8 DEF ApplyOps, ValueAfter
<1>11. Runs(f, v, ops, N)
  BY <1>9 DEF Runs
<1> QED BY <1>10, <1>11

\* ... of check_op_chain,
TypeAfter(f, child, ops, n) == IF n = 0 THEN [ty |-> child.ty, unit |-> child.unit, issues |-> {}] ELSE ChainStep(f[n - 1], ops[n])
Types(f, child, ops, k) == \A n \in 0..k : f[n] = TypeAfter(f, child, ops, n)

\* the type and the unit after each op;
LEMMA ChainChecked ==
    ASSUME NEW child, NEW ops, NEW N \in Nat, N = Len(ops)
    PROVE  \E f : Types(f, child, ops, N) /\ ChainEnd(child, ops) = f[N]
<1> DEFINE Good == {k \in 0..N : \E g : Types(g, child, ops, k)}
<1>1. 0 \in Good
  <2>1. PICK g : g = [m \in 0..0 |-> [ty |-> child.ty, unit |-> child.unit, issues |-> {}]]
    OBVIOUS
  <2>2. Types(g, child, ops, 0)
    BY <2>1 DEF Types, TypeAfter
  <2> QED BY <2>2
<1>2. ASSUME NEW k \in 1..N, k - 1 \in Good PROVE k \in Good
  <2>1. PICK g : Types(g, child, ops, k - 1)
    BY <1>2
  <2>2. PICK h : h = [n \in 0..k |-> IF n = k THEN ChainStep(g[k - 1], ops[k]) ELSE g[n]]
    OBVIOUS
  <2>3. \A n \in 0..(k - 1) : h[n] = g[n]
    BY <2>2
  <2>4. h[k] = ChainStep(g[k - 1], ops[k]) /\ h[k - 1] = g[k - 1]
    BY <2>2
  <2>5. ASSUME NEW n \in 0..k PROVE h[n] = TypeAfter(h, child, ops, n)
    <3>1. CASE n = k
      BY <2>4, <3>1 DEF TypeAfter
    <3>2. CASE n # k
      <4>1. n \in 0..(k - 1) /\ h[n] = g[n]
        BY <2>3, <3>2
      <4>2. g[n] = TypeAfter(g, child, ops, n)
        BY <2>1, <4>1 DEF Types
      <4>3. n # 0 => n - 1 \in 0..(k - 1)
        BY <4>1
      <4>4. n # 0 => h[n - 1] = g[n - 1]
        BY <2>3, <4>3
      <4> QED BY <4>1, <4>2, <4>4 DEF TypeAfter
    <3> QED BY <3>1, <3>2
  <2>6. Types(h, child, ops, k)
    BY <2>5 DEF Types
  <2>7. \E e : Types(e, child, ops, k)
    BY <2>6
  <2> QED BY <2>7
<1>3. N \in Good
  <2> HIDE DEF Good
  <2>1. \A k \in 0..N : k \in Good
    BY <1>1, <1>2, UpTo
  <2> QED BY <2>1
<1>4. PICK g : Types(g, child, ops, N)
  BY <1>3
<1>5. PICK h : h = [n \in 0..N |-> g[n]]
  OBVIOUS
<1>6. \A n \in 0..N : h[n] = TypeAfter(h, child, ops, n)
  <2>1. \A n \in 0..N : n # 0 => n - 1 \in 0..N
    OBVIOUS
  <2> QED BY <1>4, <1>5, <2>1 DEF Types, TypeAfter
<1>7. h = [n \in 0..N |-> TypeAfter(h, child, ops, n)]
  BY <1>5, <1>6
<1>8. PICK f : f = CHOOSE e : e = [n \in 0..N |-> TypeAfter(e, child, ops, n)]
  OBVIOUS
<1>9. f = [n \in 0..N |-> TypeAfter(f, child, ops, n)]
  BY <1>7, <1>8
<1>10. ChainEnd(child, ops) = f[N]
  BY <1>8 DEF ChainEnd, TypeAfter
<1>11. Types(f, child, ops, N)
  BY <1>9 DEF Types
<1> QED BY <1>10, <1>11

\* ... and of assemble_transform,
BoundAfter(f, pairs, n) == IF n = 0 THEN <<>> ELSE Bind(f[n - 1], pairs[n])
Binds(f, pairs, k) == \A n \in 0..k : f[n] = BoundAfter(f, pairs, n)

\* the bindings after each pair.
LEMMA Assembled ==
    ASSUME NEW childFields, NEW fields, NEW pairs, pairs = Enumerate(childFields, fields),
           NEW N \in Nat, N = Len(pairs)
    PROVE  \E f : Binds(f, pairs, N) /\ AssembleTransform(childFields, fields).bindings = f[N]
<1> DEFINE Good == {k \in 0..N : \E g : Binds(g, pairs, k)}
<1>1. 0 \in Good
  <2>1. PICK g : g = [m \in 0..0 |-> <<>>]
    OBVIOUS
  <2>2. Binds(g, pairs, 0)
    BY <2>1 DEF Binds, BoundAfter
  <2> QED BY <2>2
<1>2. ASSUME NEW k \in 1..N, k - 1 \in Good PROVE k \in Good
  <2>1. PICK g : Binds(g, pairs, k - 1)
    BY <1>2
  <2>2. PICK h : h = [n \in 0..k |-> IF n = k THEN Bind(g[k - 1], pairs[k]) ELSE g[n]]
    OBVIOUS
  <2>3. \A n \in 0..(k - 1) : h[n] = g[n]
    BY <2>2
  <2>4. h[k] = Bind(g[k - 1], pairs[k]) /\ h[k - 1] = g[k - 1]
    BY <2>2
  <2>5. ASSUME NEW n \in 0..k PROVE h[n] = BoundAfter(h, pairs, n)
    <3>1. CASE n = k
      BY <2>4, <3>1 DEF BoundAfter
    <3>2. CASE n # k
      <4>1. n \in 0..(k - 1) /\ h[n] = g[n]
        BY <2>3, <3>2
      <4>2. g[n] = BoundAfter(g, pairs, n)
        BY <2>1, <4>1 DEF Binds
      <4>3. n # 0 => n - 1 \in 0..(k - 1)
        BY <4>1
      <4>4. n # 0 => h[n - 1] = g[n - 1]
        BY <2>3, <4>3
      <4> QED BY <4>1, <4>2, <4>4 DEF BoundAfter
    <3> QED BY <3>1, <3>2
  <2>6. Binds(h, pairs, k)
    BY <2>5 DEF Binds
  <2>7. \E e : Binds(e, pairs, k)
    BY <2>6
  <2> QED BY <2>7
<1>3. N \in Good
  <2> HIDE DEF Good
  <2>1. \A k \in 0..N : k \in Good
    BY <1>1, <1>2, UpTo
  <2> QED BY <2>1
<1>4. PICK g : Binds(g, pairs, N)
  BY <1>3
<1>5. PICK h : h = [n \in 0..N |-> g[n]]
  OBVIOUS
<1>6. \A n \in 0..N : h[n] = BoundAfter(h, pairs, n)
  <2>1. \A n \in 0..N : n # 0 => n - 1 \in 0..N
    OBVIOUS
  <2> QED BY <1>4, <1>5, <2>1 DEF Binds, BoundAfter
<1>7. h = [n \in 0..N |-> BoundAfter(h, pairs, n)]
  BY <1>5, <1>6
<1>8. PICK f : f = CHOOSE e : e = [n \in 0..N |-> BoundAfter(e, pairs, n)]
  OBVIOUS
<1>9. f = [n \in 0..N |-> BoundAfter(f, pairs, n)]
  BY <1>7, <1>8
<1>10. AssembleTransform(childFields, fields).bindings = f[N]
  BY <1>8 DEF AssembleTransform, BoundAfter
<1>11. Binds(f, pairs, N)
  BY <1>9 DEF Binds
<1> QED BY <1>10, <1>11

\* The first k bindings have written what there is, each under its target.
TargetsApart(bs) ==
    \A i, j \in 1..Len(bs) : i # j => bs[i].target # bs[j].target /\ ~ProperPrefix(bs[i].target, bs[j].target)
Writes(bs, event, i) == ~Omitted(bs[i], event)
IsWritten(gold, bs, event, k) ==
    /\ DOMAIN gold = {bs[i].target : i \in {i \in 1..k : Writes(bs, event, i)}}
    /\ \A i \in 1..k : Writes(bs, event, i) =>
         gold[bs[i].target] = Written(bs[i], event) /\ Written(bs[i], event) # Failed

\* One more binding adds its target and leaves the others.
LEMMA WriteStep ==
    ASSUME NEW bs, TargetsApart(bs), NEW event, Len(bs) \in Nat, NEW k \in 1..Len(bs), NEW out,
           \A o \in out : IsWritten(o, bs, event, k - 1), NEW gold \in Write(out, bs[k], event)
    PROVE  IsWritten(gold, bs, event, k)
<1>1. 1..k = (1..(k - 1)) \cup {k} /\ \A i \in 1..k : i \in 1..Len(bs) /\ (i # k <=> i \in 1..(k - 1))
  OBVIOUS
<1>2. CASE Omitted(bs[k], event)
  <2>1. IsWritten(gold, bs, event, k - 1)
    BY <1>2 DEF Write
  <2>2. \A i \in 1..k : Writes(bs, event, i) => i \in 1..(k - 1)
    BY <1>1, <1>2 DEF Writes
  <2>3. {i \in 1..k : Writes(bs, event, i)} = {i \in 1..(k - 1) : Writes(bs, event, i)}
    BY <1>1, <2>2
  <2> QED BY <2>1, <2>2, <2>3 DEF IsWritten
<1>3. CASE ~Omitted(bs[k], event)
  <2>1. PICK o \in out : gold = SetAt(o, bs[k].target, Written(bs[k], event)) /\ Written(bs[k], event) # Failed
    BY <1>3 DEF Write
  <2>2. IsWritten(o, bs, event, k - 1)
    OBVIOUS
  <2>3. \A q \in DOMAIN o : q # bs[k].target /\ ~ProperPrefix(bs[k].target, q)
    BY <1>1, <2>2 DEF IsWritten, TargetsApart
  <2>4. /\ DOMAIN gold = DOMAIN o \cup {bs[k].target} /\ gold[bs[k].target] = Written(bs[k], event)
        /\ \A q \in DOMAIN o : gold[q] = o[q]
    BY <2>1, <2>3 DEF SetAt
  <2>5. {i \in 1..k : Writes(bs, event, i)} = {i \in 1..(k - 1) : Writes(bs, event, i)} \cup {k}
    BY <1>1, <1>3 DEF Writes
  <2>6. DOMAIN gold = {bs[i].target : i \in {i \in 1..k : Writes(bs, event, i)}}
    BY <2>2, <2>4, <2>5 DEF IsWritten
  <2>7. ASSUME NEW i \in 1..k, Writes(bs, event, i)
        PROVE  gold[bs[i].target] = Written(bs[i], event) /\ Written(bs[i], event) # Failed
    <3>1. CASE i = k
      BY <2>1, <2>4, <3>1
    <3>2. CASE i # k
      <4>1. i \in 1..(k - 1)
        BY <1>1, <3>2
      <4>2. bs[i].target \in DOMAIN o
        BY <2>2, <2>7, <4>1 DEF IsWritten
      <4> QED BY <2>2, <2>4, <2>7, <4>1, <4>2 DEF IsWritten
    <3> QED BY <3>1, <3>2
  <2> QED BY <2>6, <2>7 DEF IsWritten
<1> QED BY <1>2, <1>3

\* A gold event has a value at the target of every binding that is not omitted, the one
\* this binding writes, and nothing else.
LEMMA GoldIsWritten ==
    ASSUME NEW transform, NEW bs, bs = transform.bindings, Len(bs) \in Nat, TargetsApart(bs), NEW event,
           NEW gold \in Apply(transform, event)
    PROVE  IsWritten(gold, bs, event, Len(bs))
<1>1. PICK N \in Nat : N = Len(bs)
  OBVIOUS
<1>2. PICK f : Applies(f, bs, event, N) /\ Apply(transform, event) = f[N]
  BY <1>1, Applied
<1> DEFINE Good == {k \in 0..N : \A o \in f[k] : IsWritten(o, bs, event, k)}
<1>3. 0 \in Good
  <2>1. f[0] = {Empty}
    <3>1. 0 \in 0..N
      OBVIOUS
    <3> QED BY <1>2, <3>1 DEF Applies, GoldAfter
  <2>2. DOMAIN Empty = {} /\ 1..0 = {}
    BY DEF Empty
  <2>3. IsWritten(Empty, bs, event, 0)
    BY <2>2 DEF IsWritten
  <2> QED BY <2>1, <2>3
<1>4. ASSUME NEW k \in 1..N, k - 1 \in Good PROVE k \in Good
  <2>1. f[k] = Write(f[k - 1], bs[k], event)
    <3>1. k \in 0..N /\ k # 0
      OBVIOUS
    <3> QED BY <1>2, <3>1 DEF Applies, GoldAfter
  <2>2. \A o \in f[k - 1] : IsWritten(o, bs, event, k - 1)
    BY <1>4
  <2>3. ASSUME NEW o \in f[k] PROVE IsWritten(o, bs, event, k)
    <3>1. PICK out : out = f[k - 1]
      OBVIOUS
    <3>2. o \in Write(out, bs[k], event) /\ k \in 1..Len(bs)
      BY <1>1, <2>1, <3>1
    <3> QED BY <1>1, <2>2, <3>1, <3>2, WriteStep
  <2> QED BY <2>3
<1>5. N \in Good
  <2> HIDE DEF Good
  <2>1. \A k \in 0..N : k \in Good
    BY <1>3, <1>4, UpTo
  <2> QED BY <2>1
<1> QED BY <1>1, <1>2, <1>5

\* What an event of a child has at its fields: nothing, a scalar that widens to the
\* field's type, or an array.
Emits(fields, event) ==
    \A i \in DOMAIN fields :
      /\ \A q \in DOMAIN event : ~ProperPrefix(fields[i].path, q)
      /\ (fields[i].path \in DOMAIN event /\ ~fields[i].array) =>
           (event[fields[i].path].ty \in Scalars /\ Widens(event[fields[i].path].ty, fields[i].ty))

\* The value is of a type that widens to the one computed, or there is none.
Fits(v, acc) == v = Failed \/ (v.ty \in Scalars /\ Widens(v.ty, acc.ty))

\* The values of a chain of casts and conversions are of the types check_op_chain
\* computes, unless it fails.
LEMMA ChainKeepsTypes ==
    ASSUME NEW ops, Len(ops) \in Nat, \A n \in 1..Len(ops) : ops[n].op \in {"cast", "unit_convert"},
           NEW child, NEW v, v.ty \in Scalars, Widens(v.ty, child.ty), ApplyOps(v, ops) # Failed
    PROVE  ApplyOps(v, ops).ty \in Scalars /\ Widens(ApplyOps(v, ops).ty, ChainEnd(child, ops).ty)
<1>1. PICK N \in Nat : N = Len(ops)
  OBVIOUS
<1>2. PICK f : Runs(f, v, ops, N) /\ ApplyOps(v, ops) = f[N]
  BY <1>1, OpsApplied
<1>3. PICK g : Types(g, child, ops, N) /\ ChainEnd(child, ops) = g[N]
  BY <1>1, ChainChecked
<1> DEFINE Good == {k \in 0..N : "ty" \in DOMAIN g[k] /\ Fits(f[k], g[k])}
<1>4. 0 \in Good
  <2>1. 0 \in 0..N
    OBVIOUS
  <2>2. f[0] = v /\ g[0].ty = child.ty
    BY <1>2, <1>3, <2>1 DEF Runs, ValueAfter, Types, TypeAfter
  <2>3. "ty" \in DOMAIN g[0]
    BY <1>3, <2>1 DEF Types, TypeAfter
  <2> QED BY <2>1, <2>2, <2>3 DEF Fits
<1>5. ASSUME NEW k \in 1..N, k - 1 \in Good PROVE k \in Good
  <2>1. k \in 0..N /\ k # 0
    OBVIOUS
  <2>2. PICK u, a, op : u = f[k - 1] /\ a = g[k - 1] /\ op = ops[k]
    OBVIOUS
  <2>3. f[k] = ApplyOp(u, op) /\ g[k] = ChainStep(a, op)
    BY <1>2, <1>3, <2>1, <2>2 DEF Runs, ValueAfter, Types, TypeAfter
  <2>4. Fits(u, a) /\ "ty" \in DOMAIN a
    BY <1>5, <2>2
  <2>5. op.op \in {"cast", "unit_convert"}
    BY <1>1, <2>2
  <2>6. "ty" \in DOMAIN ChainStep(a, op)
    BY <2>4, <2>5 DEF ChainStep
  <2>7. Fits(ApplyOp(u, op), ChainStep(a, op))
    <3>1. CASE u = Failed
      BY <3>1 DEF ApplyOp, Fits
    <3>2. CASE u # Failed /\ op.op = "cast"
      <4>1. ApplyOp(u, op) = u \/ ApplyOp(u, op) = Failed
        BY <3>2 DEF ApplyOp, ApplyScalarOp
      <4>2. ApplyOp(u, op) # Failed => Widens(u.ty, op.to)
        BY <3>2 DEF ApplyOp, ApplyScalarOp
      <4>3. ChainStep(a, op).ty = op.to
        BY <2>4, <3>2 DEF ChainStep
      <4> QED BY <2>4, <3>2, <4>1, <4>2, <4>3 DEF Fits
    <3>3. CASE u # Failed /\ op.op = "unit_convert"
      <4>1. ApplyOp(u, op) = Failed \/ ApplyOp(u, op).ty = "decimal"
        BY <3>3 DEF ApplyOp, ApplyScalarOp
      <4>2. ChainStep(a, op).ty = "decimal"
        BY <3>3 DEF ChainStep
      <4> QED BY <4>1, <4>2 DEF Fits, Scalars, Widens
    <3> QED BY <2>5, <3>1, <3>2, <3>3
  <2> QED BY <2>1, <2>3, <2>6, <2>7
<1>6. N \in Good
  <2> HIDE DEF Good
  <2>1. \A k \in 0..N : k \in Good
    BY <1>4, <1>5, UpTo
  <2> QED BY <2>1
<1> QED BY <1>2, <1>3, <1>6 DEF Fits

\* Bindings of casts and conversions that reject or omit what is missing.
IsPlain(b) ==
    /\ Len(b.ops) \in Nat /\ \A n \in 1..Len(b.ops) : b.ops[n].op \in {"cast", "unit_convert"}
    /\ b.onMissing \in {"reject", "omit"}

\* A field at a path is one of the fields, and has the path.
LEMMA FieldIsAt ==
    ASSUME NEW fields, NEW p, NEW f \in FieldAt(fields, p)
    PROVE  \E k \in DOMAIN fields : f = fields[k] /\ fields[k].path = p
BY DEF FieldAt

\* What verify_static has looked at when it finds no issue: a binding's source, its
\* target and its ops;
LEMMA Verified ==
    ASSUME NEW transform, NEW bs, bs = transform.bindings, NEW fields, NEW childFields,
           VerifyStatic(transform, fields, childFields) = {}, NEW i \in DOMAIN bs
    PROVE  \E c \in FieldAt(childFields, bs[i].source), uf \in FieldAt(fields, bs[i].target) :
             CheckOpChain(c, uf, bs[i]) = {}
<1>1. BindingIssues(bs, i, fields, childFields) = {}
  BY DEF VerifyStatic
<1>2. PICK child, target : child = FieldAt(childFields, bs[i].source) /\ target = FieldAt(fields, bs[i].target)
  OBVIOUS
<1>3. child # {} /\ target # {}
  BY <1>1, <1>2 DEF BindingIssues
<1>4. UNION {CheckOpChain(c, uf, bs[i]) : c \in child, uf \in target} = {}
  BY <1>1, <1>2 DEF BindingIssues
<1>5. \A c \in child, uf \in target : CheckOpChain(c, uf, bs[i]) = {}
  BY <1>4
<1> QED BY <1>2, <1>3, <1>5

\* that its target has not been bound before,
LEMMA BoundOnce ==
    ASSUME NEW transform, NEW bs, bs = transform.bindings, NEW fields, NEW childFields,
           VerifyStatic(transform, fields, childFields) = {}, NEW i \in DOMAIN bs, NEW j \in 1..(i - 1)
    PROVE  bs[j].target # bs[i].target
<1>1. BindingIssues(bs, i, fields, childFields) = {}
  BY DEF VerifyStatic
<1>2. PICK target : target = FieldAt(fields, bs[i].target)
  OBVIOUS
<1>3. target # {}
  BY <1>1, <1>2 DEF BindingIssues
<1>4. ~(target # {} /\ \E l \in 1..(i - 1) : bs[l].target = bs[i].target)
  BY <1>1, <1>2 DEF BindingIssues
<1> QED BY <1>3, <1>4

\* and that the required fields are bound.
LEMMA RequiredBound ==
    ASSUME NEW transform, NEW bs, bs = transform.bindings, NEW fields, NEW childFields,
           VerifyStatic(transform, fields, childFields) = {}, NEW k \in DOMAIN fields, fields[k].required
    PROVE  Total(bs, fields[k])
<1> SUFFICES ASSUME ~Total(bs, fields[k]) PROVE FALSE
  OBVIOUS
<1>1. ~\A l \in DOMAIN fields : fields[l].required => Total(transform.bindings, fields[l])
  OBVIOUS
<1>2. "required_not_total" \in VerifyStatic(transform, fields, childFields)
  BY <1>1 DEF VerifyStatic
<1> QED BY <1>2

\* What is bound has its type and its unit checked, and is a scalar.
LEMMA ChainIsChecked ==
    ASSUME NEW c, NEW uf, uf.ty \in Scalars, NEW b, IsPlain(b), CheckOpChain(c, uf, b) = {}
    PROVE  ~c.array /\ Widens(ChainEnd(c, b.ops).ty, uf.ty)
<1>1. ~IsSyntheticOnly(b) /\ ~IsArray(uf)
  BY DEF IsSyntheticOnly, IsPlain, IsArray, Scalars
<1>2. ~c.array
  BY <1>1 DEF CheckOpChain
<1>3. Widens(ChainEnd(c, b.ops).ty, uf.ty)
  BY <1>1, <1>2 DEF CheckOpChain
<1> QED BY <1>2, <1>3

\* What a plain binding writes is what its ops make of the event's value.
LEMMA PlainWrites ==
    ASSUME NEW b, IsPlain(b), NEW event, \A q \in DOMAIN event : ~ProperPrefix(b.source, q),
           Written(b, event) # Failed
    PROVE  b.source \in DOMAIN event /\ Written(b, event) = ApplyOps(event[b.source], b.ops)
<1>1. b.source \in DOMAIN event
  BY DEF Written, Lookup, IsPlain
<1>2. Lookup(event, b.source) = {event[b.source]}
  BY <1>1 DEF Lookup
<1> QED BY <1>1, <1>2 DEF Written

\* It is of the type of the field it is written to.
LEMMA WrittenMatches ==
    ASSUME NEW b, IsPlain(b), NEW c, NEW uf, uf.ty \in Scalars, CheckOpChain(c, uf, b) = {}, c.path = b.source,
           NEW childFields, NEW i \in DOMAIN childFields, c = childFields[i], NEW event, Emits(childFields, event),
           Written(b, event) # Failed
    PROVE  ValueMatches(uf, Written(b, event))
<1>1. ~c.array /\ Widens(ChainEnd(c, b.ops).ty, uf.ty)
  BY ChainIsChecked
<1>2. b.source \in DOMAIN event /\ Written(b, event) = ApplyOps(event[b.source], b.ops)
  BY PlainWrites DEF Emits
<1>3. PICK v : v = event[b.source]
  OBVIOUS
<1>4. v.ty \in Scalars /\ Widens(v.ty, c.ty)
  BY <1>1, <1>2, <1>3 DEF Emits
<1>5. PICK ops : ops = b.ops
  OBVIOUS
<1>6. Len(ops) \in Nat /\ \A n \in 1..Len(ops) : ops[n].op \in {"cast", "unit_convert"}
  BY <1>5 DEF IsPlain
<1>7. ApplyOps(v, ops) # Failed
  BY <1>2, <1>3, <1>5
<1>8. ApplyOps(v, ops).ty \in Scalars /\ Widens(ApplyOps(v, ops).ty, ChainEnd(c, ops).ty)
  BY <1>4, <1>6, <1>7, ChainKeepsTypes
<1>9. Widens(ApplyOps(v, ops).ty, uf.ty)
  BY <1>1, <1>5, <1>8 DEF Widens
<1>10. ~IsArray(uf)
  BY DEF IsArray, Scalars
<1> QED BY <1>2, <1>3, <1>5, <1>8, <1>9, <1>10 DEF ValueMatches

\* The targets of a transform without issues are apart.
LEMMA TargetsStayApart ==
    ASSUME NEW transform, NEW bs, bs = transform.bindings, NEW n \in Nat, n = Len(bs), DOMAIN bs = 1..n,
           NEW fields, FieldsApart(fields), NEW childFields, VerifyStatic(transform, fields, childFields) = {}
    PROVE  TargetsApart(bs)
<1>1. ASSUME NEW i \in 1..n, NEW j \in 1..(i - 1) PROVE bs[j].target # bs[i].target
  <2>1. i \in DOMAIN bs
    OBVIOUS
  <2> QED BY <2>1, BoundOnce
<1>2. ASSUME NEW i \in 1..n PROVE \E k \in DOMAIN fields : fields[k].path = bs[i].target
  <2>1. PICK uf : uf \in FieldAt(fields, bs[i].target)
    <3>1. \E c \in FieldAt(childFields, bs[i].source), uf \in FieldAt(fields, bs[i].target) :
             CheckOpChain(c, uf, bs[i]) = {}
      BY Verified
    <3> QED BY <3>1
  <2> QED BY <2>1, FieldIsAt
<1>3. ASSUME NEW i \in 1..n, NEW j \in 1..n, i # j PROVE bs[i].target # bs[j].target
  <2>1. i \in 1..(j - 1) \/ j \in 1..(i - 1)
    BY <1>3
  <2> QED BY <1>1, <2>1
<1>4. ASSUME NEW i \in 1..n, NEW j \in 1..n PROVE ~ProperPrefix(bs[i].target, bs[j].target)
  BY <1>2 DEF FieldsApart
<1> QED BY <1>3, <1>4 DEF TargetsApart

\* verify_static keeps out what the executor would get wrong: whatever plain transform it
\* finds no issue in, and whatever the child emits, the gold event is one of the umbrella.
THEOREM VerifyStaticIsSound ==
    ASSUME NEW transform, NEW bs, bs = transform.bindings, NEW n \in Nat, n = Len(bs), DOMAIN bs = 1..n,
           \A i \in 1..n : IsPlain(bs[i]), NEW fields, FieldsApart(fields),
           NEW childFields, VerifyStatic(transform, fields, childFields) = {},
           NEW event, Emits(childFields, event), NEW gold \in Apply(transform, event)
    PROVE  ValidateGold(fields, gold)
<1>1. IsWritten(gold, bs, event, n)
  BY TargetsStayApart, GoldIsWritten
<1>2. ASSUME NEW i \in 1..n, Writes(bs, event, i), NEW k \in DOMAIN fields, fields[k].path = bs[i].target
      PROVE  ValueMatches(fields[k], gold[bs[i].target])
  <2>1. PICK b : b = bs[i]
    OBVIOUS
  <2>2. IsPlain(b) /\ gold[b.target] = Written(b, event) /\ Written(b, event) # Failed
    BY <1>1, <1>2, <2>1 DEF IsWritten
  <2>3. PICK c, uf : c \in FieldAt(childFields, b.source) /\ uf \in FieldAt(fields, b.target) /\ CheckOpChain(c, uf, b) = {}
    <3>1. \E c \in FieldAt(childFields, bs[i].source), uf \in FieldAt(fields, bs[i].target) :
             CheckOpChain(c, uf, bs[i]) = {}
      BY Verified
    <3> QED BY <2>1, <3>1
  <2>4. uf = fields[k] /\ uf.ty \in Scalars
    <3>1. PICK l \in DOMAIN fields : uf = fields[l] /\ fields[l].path = b.target
      BY <2>3, FieldIsAt
    <3> QED BY <1>2, <2>1, <3>1 DEF FieldsApart
  <2>5. PICK j \in DOMAIN childFields : c = childFields[j] /\ childFields[j].path = b.source
    BY <2>3, FieldIsAt
  <2>6. ValueMatches(uf, Written(b, event))
    BY <2>2, <2>3, <2>4, <2>5, WrittenMatches
  <2> QED BY <2>1, <2>2, <2>4, <2>6
<1>3. ASSUME NEW k \in DOMAIN fields, NEW found, found = Lookup(gold, fields[k].path)
      PROVE  IF found = {} THEN ~fields[k].required ELSE \A v \in found : ValueMatches(fields[k], v)
  <2>1. CASE fields[k].path \in DOMAIN gold
    <3>1. found = {gold[fields[k].path]}
      BY <1>3, <2>1 DEF Lookup
    <3>2. PICK i \in 1..n : Writes(bs, event, i) /\ bs[i].target = fields[k].path
      BY <1>1, <2>1 DEF IsWritten
    <3> QED BY <1>2, <3>1, <3>2
  <2>2. CASE fields[k].path \notin DOMAIN gold
    <3>1. ASSUME NEW q \in DOMAIN gold PROVE ~ProperPrefix(fields[k].path, q)
      <4>1. PICK i \in 1..n : bs[i].target = q
        BY <1>1 DEF IsWritten
      <4>2. PICK uf : uf \in FieldAt(fields, q)
        <5>1. \E c \in FieldAt(childFields, bs[i].source), uf \in FieldAt(fields, bs[i].target) :
                 CheckOpChain(c, uf, bs[i]) = {}
          BY Verified
        <5> QED BY <4>1, <5>1
      <4>3. PICK l \in DOMAIN fields : fields[l].path = q
        BY <4>2, FieldIsAt
      <4> QED BY <4>3 DEF FieldsApart
    <3>2. found = {}
      BY <1>3, <2>2, <3>1 DEF Lookup
    <3>3. ~fields[k].required
      <4> SUFFICES ASSUME fields[k].required PROVE FALSE
        OBVIOUS
      <4>1. Total(bs, fields[k])
        BY RequiredBound
      <4>2. PICK i \in 1..n : bs[i].target = fields[k].path /\ bs[i].onMissing # "omit"
        BY <4>1 DEF Total
      <4>3. Writes(bs, event, i)
        BY <4>2 DEF Writes, Omitted
      <4> QED BY <1>1, <2>2, <4>2, <4>3 DEF IsWritten
    <3> QED BY <3>2, <3>3
  <2> QED BY <2>1, <2>2
<1> QED BY <1>3 DEF ValidateGold

\* The bindings an assembly may come to.
Bindable(childFields, fields) ==
    {BindingOf([child |-> childFields[p[1]], uf |-> fields[p[2]]]) :
       p \in {p \in (DOMAIN childFields) \X (DOMAIN fields) : AutoBindable(childFields[p[1]], fields[p[2]])}}

\* enumerate lists pairs of a child field and a target.
LEMMA Enumerated ==
    ASSUME NEW childFields, NEW n \in Nat, DOMAIN childFields = 1..n,
           NEW fields, NEW m \in Nat, DOMAIN fields = 1..m, NEW pairs, pairs = Enumerate(childFields, fields)
    PROVE  /\ Len(pairs) \in Nat
           /\ \A k \in 1..Len(pairs) : \E a \in 1..n, b \in 1..m :
                pairs[k] = [child |-> childFields[a], uf |-> fields[b]]
<1>1. PICK same : same = {p \in (DOMAIN childFields) \X (DOMAIN fields) :
                            childFields[p[1]].cfid = fields[p[2]].cfid}
  OBVIOUS
<1>2. PICK before : before = {pq \in same \X same : \/ pq[1][1] < pq[2][1]
                                                   \/ (pq[1][1] = pq[2][1] /\ pq[1][2] < pq[2][2])}
  OBVIOUS
<1>3. IsFiniteSet(same)
  <2>1. PICK A, B : A = 1..n /\ B = 1..m
    OBVIOUS
  <2>2. IsFiniteSet(A) /\ IsFiniteSet(B)
    BY <2>1, FS_Interval
  <2>3. IsFiniteSet(A \X B)
    BY <2>2, FS_Product
  <2>4. same \in SUBSET (A \X B)
    BY <1>1, <2>1
  <2> QED BY <2>3, <2>4, FS_Subset
<1>4. \A p \in same : p = <<p[1], p[2]>> /\ p[1] \in 1..n /\ p[2] \in 1..m
  BY <1>1
<1>5. \A p, q \in same : <<p, q>> \in before <=> (p[1] < q[1] \/ (p[1] = q[1] /\ p[2] < q[2]))
  BY <1>2
<1>6. IsOrder(before, same)
  <2>1. \A p \in same : <<p, p>> \notin before
    BY <1>4, <1>5
  <2>2. ASSUME NEW p \in same, NEW q \in same, NEW r \in same, <<p, q>> \in before, <<q, r>> \in before
        PROVE  <<p, r>> \in before
    <3>1. /\ p[1] < q[1] \/ (p[1] = q[1] /\ p[2] < q[2])
          /\ q[1] < r[1] \/ (q[1] = r[1] /\ q[2] < r[2])
      BY <1>5, <2>2
    <3>2. /\ p[1] \in Nat /\ p[2] \in Nat /\ q[1] \in Nat
          /\ q[2] \in Nat /\ r[1] \in Nat /\ r[2] \in Nat
      BY <1>4
    <3>3. p[1] < r[1] \/ (p[1] = r[1] /\ p[2] < r[2])
      BY <3>1, <3>2
    <3> QED BY <1>5, <3>3
  <2>3. ASSUME NEW p \in same, NEW q \in same PROVE p = q \/ <<p, q>> \in before \/ <<q, p>> \in before
    <3>1. /\ p[1] \in Nat /\ p[2] \in Nat /\ q[1] \in Nat /\ q[2] \in Nat
          /\ p = <<p[1], p[2]>> /\ q = <<q[1], q[2]>>
      BY <1>4
    <3>2. (p[1] = q[1] /\ p[2] = q[2]) \/ p[1] < q[1] \/ (p[1] = q[1] /\ p[2] < q[2])
             \/ q[1] < p[1] \/ (q[1] = p[1] /\ q[2] < p[2])
      BY <3>1
    <3>3. (p[1] = q[1] /\ p[2] = q[2]) => p = q
      BY <3>1
    <3> QED BY <1>5, <3>2, <3>3
  <2> QED BY <2>1, <2>2, <2>3 DEF IsOrder
<1>7. PICK at : at = InOrder(same, before)
  OBVIOUS
<1>8. PICK M \in Nat : M = Cardinality(same)
  BY <1>3, FS_CardinalityType
<1>9. DOMAIN at = 1..M /\ \A k \in 1..M : at[k] \in same
  BY SMTT(30), <1>3, <1>6, <1>7, <1>8, Arranged
<1>10. pairs = [k \in 1..M |-> [child |-> childFields[at[k][1]], uf |-> fields[at[k][2]]]]
  BY <1>1, <1>2, <1>7, <1>9 DEF Enumerate
<1>11. Len(pairs) = M
  BY <1>10
<1> QED BY <1>4, <1>9, <1>10, <1>11

\* assemble_transform binds what it may, and nothing else.
LEMMA AssembledIsBindable ==
    ASSUME NEW childFields, NEW n \in Nat, DOMAIN childFields = 1..n,
           NEW fields, NEW m \in Nat, DOMAIN fields = 1..m
    PROVE  AssembleTransform(childFields, fields).bindings \in Seq(Bindable(childFields, fields))
<1>1. PICK pairs : pairs = Enumerate(childFields, fields)
  OBVIOUS
<1>2. Len(pairs) \in Nat /\ \A k \in 1..Len(pairs) : \E a \in 1..n, b \in 1..m :
        pairs[k] = [child |-> childFields[a], uf |-> fields[b]]
  BY <1>1, Enumerated
<1>3. PICK N \in Nat : N = Len(pairs)
  BY <1>2
<1>4. PICK f : Binds(f, pairs, N) /\ AssembleTransform(childFields, fields).bindings = f[N]
  BY <1>1, <1>3, Assembled
<1>5. PICK T : T = Bindable(childFields, fields)
  OBVIOUS
<1> DEFINE Good == {k \in 0..N : f[k] \in Seq(T)}
<1>6. 0 \in Good
  <2>1. 0 \in 0..N
    OBVIOUS
  <2>2. f[0] = <<>>
    BY <1>4, <2>1 DEF Binds, BoundAfter
  <2>3. <<>> \in Seq(T)
    OBVIOUS
  <2>4. f[0] \in Seq(T)
    BY <2>2, <2>3
  <2> QED BY <2>1, <2>4
<1>7. ASSUME NEW k \in 1..N, k - 1 \in Good PROVE k \in Good
  <2>1. k \in 0..N /\ k # 0
    OBVIOUS
  <2>2. PICK bs : bs = f[k - 1]
    OBVIOUS
  <2>3. f[k] = Bind(bs, pairs[k]) /\ bs \in Seq(T)
    BY <1>4, <1>7, <2>1, <2>2 DEF Binds, BoundAfter
  <2>4. PICK a \in 1..n, b \in 1..m : pairs[k] = [child |-> childFields[a], uf |-> fields[b]]
    BY <1>2, <1>3
  <2>5. PICK pair : pair = [child |-> childFields[a], uf |-> fields[b]]
    OBVIOUS
  <2>6. AutoBindable(pair.child, pair.uf) => BindingOf(pair) \in T
    <3> SUFFICES ASSUME AutoBindable(pair.child, pair.uf) PROVE BindingOf(pair) \in T
      OBVIOUS
    <3>1. AutoBindable(childFields[a], fields[b])
      BY <2>5
    <3>2. PICK p : p = <<a, b>>
      OBVIOUS
    <3>3. p \in (DOMAIN childFields) \X (DOMAIN fields) /\ p[1] = a /\ p[2] = b
      BY <3>2
    <3>4. pair = [child |-> childFields[p[1]], uf |-> fields[p[2]]] /\ AutoBindable(childFields[p[1]], fields[p[2]])
      BY <2>5, <3>1, <3>3
    <3> QED BY <1>5, <3>3, <3>4 DEF Bindable
  <2>7. Bind(bs, pair) \in Seq(T)
    <3>1. CASE Bind(bs, pair) = bs
      BY <2>3, <3>1
    <3>2. CASE Bind(bs, pair) # bs
      <4>1. AutoBindable(pair.child, pair.uf) /\ Bind(bs, pair) = Append(bs, BindingOf(pair))
        BY <3>2 DEF Bind
      <4>2. PICK b0 : b0 = BindingOf(pair)
        OBVIOUS
      <4> QED BY <2>3, <2>6, <4>1, <4>2
    <3> QED BY <3>1, <3>2
  <2> QED BY <2>1, <2>3, <2>4, <2>5, <2>7
<1>8. N \in Good
  <2> HIDE DEF Good
  <2>1. \A k \in 0..N : k \in Good
    BY <1>6, <1>7, UpTo
  <2> QED BY <2>1
<1> QED BY <1>4, <1>5, <1>8

\* Two sequences of one element, one after the other.
LEMMA TwoInSequence == ASSUME NEW x, NEW y PROVE <<x>> \o <<y>> = <<x, y>>
<1>1. PICK s : s = <<x>> \o <<y>>
  OBVIOUS
<1>2. <<x>> \in Seq({x, y}) /\ <<y>> \in Seq({x, y}) /\ <<x, y>> \in Seq({x, y})
  OBVIOUS
<1>3. s \in Seq({x, y}) /\ Len(s) = 2 /\ s[1] = x /\ s[2] = y
  BY <1>1, <1>2
<1>4. s = [i \in 1..2 |-> s[i]]
  BY <1>3
<1>5. <<x, y>> = [i \in 1..2 |-> <<x, y>>[i]]
  OBVIOUS
<1>6. \A i \in 1..2 : s[i] = <<x, y>>[i]
  BY <1>3
<1> QED BY <1>1, <1>4, <1>5, <1>6

\* The ops of an assembly are a cast, a conversion, both in this order, or none.
LEMMA OpsAre ==
    ASSUME NEW c, NEW uf
    PROVE  LET cast == Cast(uf.ty)
               convert == UnitConvert(c.unit, uf.unit, <<c.unit.code, uf.unit.code>>)
           IN IF UnitRelation(c, uf) = "convertible"
              THEN OpsFor(c, uf) = <<convert>> \/ OpsFor(c, uf) = <<cast, convert>>
              ELSE OpsFor(c, uf) = <<>> \/ OpsFor(c, uf) = <<cast>>
<1>1. PICK x : x = Cast(uf.ty)
  OBVIOUS
<1>2. PICK y : y = UnitConvert(c.unit, uf.unit, <<c.unit.code, uf.unit.code>>)
  OBVIOUS
<1>3. <<x>> \o <<y>> = <<x, y>> /\ <<x>> \o <<>> = <<x>> /\ <<>> \o <<y>> = <<y>> /\ <<>> \o <<>> = <<>>
  <2>1. <<x>> \o <<y>> = <<x, y>>
    BY TwoInSequence
  <2>2. <<x>> \o <<>> = <<x>>
    OBVIOUS
  <2>3. <<>> \o <<y>> = <<y>>
    OBVIOUS
  <2>4. <<>> \o <<>> = <<>>
    OBVIOUS
  <2> QED BY <2>1, <2>2, <2>3, <2>4
<1>4. PICK first : first = IF c.ty # uf.ty /\ Widens(c.ty, uf.ty) THEN <<x>> ELSE <<>>
  OBVIOUS
<1>5. OpsFor(c, uf) = first \o (IF UnitRelation(c, uf) = "convertible" THEN <<y>> ELSE <<>>)
  BY <1>1, <1>2, <1>4 DEF OpsFor
<1>6. CASE UnitRelation(c, uf) = "convertible"
  <2>1. OpsFor(c, uf) = first \o <<y>>
    BY <1>5, <1>6
  <2> QED BY <1>1, <1>2, <1>3, <1>4, <1>6, <2>1
<1>7. CASE UnitRelation(c, uf) # "convertible"
  <2>1. OpsFor(c, uf) = first \o <<>>
    BY <1>5, <1>7
  <2> QED BY <1>1, <1>2, <1>3, <1>4, <1>7, <2>1
<1> QED BY <1>6, <1>7

\* So its bindings are plain.
LEMMA BindableIsPlain ==
    ASSUME NEW childFields, NEW fields, NEW b \in Bindable(childFields, fields)
    PROVE  /\ IsPlain(b)
           /\ \E j \in DOMAIN childFields, l \in DOMAIN fields :
                /\ b.source = childFields[j].path /\ b.target = fields[l].path
                /\ b.ops = OpsFor(childFields[j], fields[l]) /\ AutoBindable(childFields[j], fields[l])
<1>1. PICK p \in (DOMAIN childFields) \X (DOMAIN fields) :
        AutoBindable(childFields[p[1]], fields[p[2]])
          /\ b = BindingOf([child |-> childFields[p[1]], uf |-> fields[p[2]]])
  BY DEF Bindable
<1>2. PICK c, uf : c = childFields[p[1]] /\ uf = fields[p[2]]
  OBVIOUS
<1>3. /\ b.source = c.path /\ b.target = uf.path /\ b.ops = OpsFor(c, uf)
      /\ b.onMissing = IF uf.required THEN "reject" ELSE "omit"
  BY <1>1, <1>2 DEF BindingOf
<1>4. PICK x, y : x = Cast(uf.ty) /\ y = UnitConvert(c.unit, uf.unit, <<c.unit.code, uf.unit.code>>)
  OBVIOUS
<1>5. x.op = "cast" /\ y.op = "unit_convert"
  BY <1>4 DEF Cast, UnitConvert
<1>6. b.ops = <<>> \/ b.ops = <<x>> \/ b.ops = <<y>> \/ b.ops = <<x, y>>
  BY <1>3, <1>4, OpsAre
<1>7. Len(b.ops) \in Nat /\ \A n \in 1..Len(b.ops) : b.ops[n].op \in {"cast", "unit_convert"}
  <2>1. CASE b.ops = <<>>
    BY <2>1
  <2>2. CASE b.ops = <<x>>
    BY <1>5, <2>2
  <2>3. CASE b.ops = <<y>>
    BY <1>5, <2>3
  <2>4. CASE b.ops = <<x, y>>
    BY <1>5, <2>4
  <2> QED BY <1>6, <2>1, <2>2, <2>3, <2>4
<1>8. IsPlain(b)
  BY <1>3, <1>7 DEF IsPlain
<1> QED BY <1>1, <1>2, <1>3, <1>8

-----------------------------------------------------------------------------
\* What the children may look like before and after r re-annotations, to a proposal
\* that reads one after the other, and to it as a whole.
NotesAt(r, c) == IF r = 0 THEN {FirstNote[c]} ELSE NotesFor(c)
Leaves(c, n) == ChildFields(NodesOf[c], n)
ViewsAt(r, c) == {Annotated(Leaves(c, n)) : n \in NotesAt(r, c)}
Seens(r) == {saw \in [ChildIds -> UNION {ViewsAt(r, c) : c \in ChildIds}] : \A c \in ChildIds : saw[c] \in ViewsAt(r, c)}

\* The leaves of a child are apart, and so are the annotated ones; these keep to one
\* type per id.
LEMMA ViewsAreApart ==
    ASSUME TypesAgree, NEW r, NEW c \in ChildIds, NEW n \in NotesAt(r, c), NEW view, view = Annotated(Leaves(c, n))
    PROVE  /\ FieldsApart(Leaves(c, n)) /\ FieldsApart(view)
           /\ \A k \in DOMAIN view : \E i \in DOMAIN Leaves(c, n) : view[k] = Leaves(c, n)[i]
           /\ \A i, j \in DOMAIN view : view[i].cfid = view[j].cfid => view[i].ty = view[j].ty
<1>1. IsTree(NodesOf[c])
  BY NodesAssumption DEF ChildIds, IsTree
<1>2. FieldsApart(Leaves(c, n))
  BY <1>1, LeavesApart DEF Leaves
<1>3. /\ FieldsApart(view)
      /\ \A k \in DOMAIN view : \E i \in DOMAIN Leaves(c, n) : view[k] = Leaves(c, n)[i]
  BY <1>2, AnnotatedFields
<1>4. n \in NotesFor(c)
  BY DEF NotesAt, NotesFor
<1>5. \A i, j \in DOMAIN view : view[i].cfid = view[j].cfid => view[i].ty = view[j].ty
  BY <1>4 DEF TypesAgree, Leaves
<1> QED BY <1>2, <1>3, <1>5

\* The first of some indices is one of them.
LEMMA FirstIsOne ==
    ASSUME NEW I, I \subseteq Nat, I # {}
    PROVE  FirstOf(I) \in I
<1>1. \E i \in I : \A j \in I : i <= j
  BY NatMin
<1> QED BY <1>1 DEF FirstOf

\* A cohort is children that have annotated fields of the signature it is named by.
LEMMA CohortIs ==
    ASSUME NEW saw, NEW sig, NEW members, members = Cohort(saw, sig)
    PROVE  \E m \in Nat : /\ DOMAIN members = 1..m
                          /\ \A i \in 1..m : /\ members[i] \in ChildIds
                                             /\ saw[members[i]] # <<>> /\ FieldSig(saw[members[i]]) = sig
<1>1. PICK n \in Nat : DOMAIN Children = 1..n
  BY CfidAssumption
<1>2. PICK I : I = {i \in DOMAIN Children : saw[Children[i]] # <<>> /\ FieldSig(saw[Children[i]]) = sig}
  OBVIOUS
<1>3. I \subseteq 1..n /\ members = ElementsAt(Children, I)
  BY <1>1, <1>2 DEF Cohort
<1>4. PICK m \in Nat : \E at \in [1..m -> I] : Picks(members, Children, m, at)
  BY <1>1, <1>3, ElementsKept
<1>5. PICK at \in [1..m -> I] : Picks(members, Children, m, at)
  BY <1>4
<1>6. DOMAIN members = 1..m
  BY <1>5 DEF Picks
<1>7. ASSUME NEW i \in 1..m
      PROVE  members[i] \in ChildIds /\ saw[members[i]] # <<>> /\ FieldSig(saw[members[i]]) = sig
  <2>1. at[i] \in I /\ members[i] = Children[at[i]]
    BY <1>5 DEF Picks
  <2> QED BY <1>2, <2>1 DEF ChildIds
<1> QED BY <1>6, <1>7

\* The ids of a signature are in it, and none is twice among them.
LEMMA CfidsAre ==
    ASSUME NEW sig, NEW cfids, cfids = CfidsOf(sig)
    PROVE  /\ \E m \in Nat : DOMAIN cfids = 1..m
           /\ \A k \in DOMAIN cfids : \E s \in sig : s[1] = cfids[k]
           /\ PathsApart => \A j, k \in DOMAIN cfids : /\ PathOf[cfids[j]] = PathOf[cfids[k]] => j = k
                                                       /\ ~ProperPrefix(PathOf[cfids[j]], PathOf[cfids[k]])
<1>1. PICK n \in Nat : DOMAIN CfidOrder = 1..n
  BY CfidAssumption
<1>2. PICK I : I = {i \in DOMAIN CfidOrder : \E s \in sig : s[1] = CfidOrder[i]}
  OBVIOUS
<1>3. I \subseteq 1..n /\ cfids = ElementsAt(CfidOrder, I)
  BY <1>1, <1>2 DEF CfidsOf
<1>4. PICK m \in Nat : \E at \in [1..m -> I] : Picks(cfids, CfidOrder, m, at)
  BY <1>1, <1>3, ElementsKept
<1>5. PICK at \in [1..m -> I] : Picks(cfids, CfidOrder, m, at)
  BY <1>4
<1>6. DOMAIN cfids = 1..m /\ \A k \in 1..m : at[k] \in I /\ cfids[k] = CfidOrder[at[k]]
  BY <1>5 DEF Picks
<1>7. \A k \in DOMAIN cfids : \E s \in sig : s[1] = cfids[k]
  BY <1>2, <1>6
<1>8. ASSUME PathsApart, NEW j \in 1..m, NEW k \in 1..m
      PROVE  (PathOf[cfids[j]] = PathOf[cfids[k]] => j = k) /\ ~ProperPrefix(PathOf[cfids[j]], PathOf[cfids[k]])
  <2>1. PICK a \in I, b \in I : a = at[j] /\ b = at[k] /\ (a = b => j = k)
    BY <1>5 DEF Picks
  <2>2. cfids[j] = CfidOrder[a] /\ cfids[k] = CfidOrder[b] /\ a \in DOMAIN CfidOrder /\ b \in DOMAIN CfidOrder
    BY <1>1, <1>3, <1>6, <2>1
  <2>3. (a # b => PathOf[CfidOrder[a]] # PathOf[CfidOrder[b]]) /\ ~ProperPrefix(PathOf[CfidOrder[a]], PathOf[CfidOrder[b]])
    BY <1>8, <2>2 DEF PathsApart
  <2> QED BY <2>1, <2>2, <2>3
<1> QED BY <1>6, <1>7, <1>8

\* The type an id has in a signature, and the fields of the umbrella it names.
TypeIn(sig, c) == CHOOSE t : \E s \in sig : s[1] = c /\ s[3] = t
IsOutline(fields, sig) ==
    /\ DOMAIN fields = DOMAIN CfidsOf(sig)
    /\ \A k \in DOMAIN fields :
         /\ fields[k].path = PathOf[CfidsOf(sig)[k]] /\ fields[k].ty = TypeIn(sig, CfidsOf(sig)[k])
         /\ fields[k].ty \in Scalars /\ fields[k].required

\* The umbrella built from a cohort has the fields that the signature names: whatever
\* the members, they are the same up to the unit, and apart from each other.
LEMMA Built ==
    ASSUME TypesAgree, NEW r, NEW saw \in Seens(r), NEW sig, NEW members, members = Cohort(saw, sig),
           1 \in DOMAIN members, NEW views, views = [i \in DOMAIN members |-> saw[members[i]]],
           NEW fields, fields = BuildUmbrella(CfidsOf(sig), views)
    PROVE  IsOutline(fields, sig)
<1>1. PICK m \in Nat : /\ DOMAIN members = 1..m
                       /\ \A i \in 1..m : /\ members[i] \in ChildIds
                                          /\ saw[members[i]] # <<>> /\ FieldSig(saw[members[i]]) = sig
  BY CohortIs
<1>2. ASSUME NEW i \in DOMAIN views
      PROVE  /\ FieldsApart(views[i]) /\ FieldSig(views[i]) = sig
             /\ \A a, b \in DOMAIN views[i] : views[i][a].cfid = views[i][b].cfid => views[i][a].ty = views[i][b].ty
  <2>1. PICK c \in ChildIds : c = members[i] /\ views[i] = saw[c] /\ FieldSig(saw[c]) = sig
    BY <1>1, <1>2
  <2>2. saw[c] \in ViewsAt(r, c)
    BY <2>1 DEF Seens
  <2>3. PICK n \in NotesAt(r, c) : views[i] = Annotated(Leaves(c, n))
    BY <2>1, <2>2 DEF ViewsAt
  <2>4. PICK view : view = views[i]
    OBVIOUS
  <2>5. FieldsApart(view) /\ \A a, b \in DOMAIN view : view[a].cfid = view[b].cfid => view[a].ty = view[b].ty
    BY <2>3, <2>4, ViewsAreApart
  <2> QED BY <2>1, <2>4, <2>5
<1>3. PICK cfids : cfids = CfidsOf(sig)
  OBVIOUS
<1>4. DOMAIN fields = DOMAIN cfids
  BY <1>3 DEF BuildUmbrella
<1>5. ASSUME NEW k \in DOMAIN cfids
      PROVE  /\ fields[k].path = PathOf[cfids[k]] /\ fields[k].ty = TypeIn(sig, cfids[k])
             /\ fields[k].ty \in Scalars /\ fields[k].required
  <2>1. PICK c : c = cfids[k]
    OBVIOUS
  <2>2. \E s \in sig : s[1] = c
    BY <1>3, <2>1, CfidsAre
  <2>3. PICK I : I = {i \in DOMAIN views : Carriers(views[i], c) # {}}
    OBVIOUS
  <2>4. DOMAIN views = 1..m
    BY <1>1
  <2>5. 1 \in I
    <3>1. PICK view : view = views[1]
      OBVIOUS
    <3>2. 1 \in DOMAIN views /\ FieldSig(view) = sig
      BY <1>1, <1>2, <3>1
    <3>3. PICK s \in sig : s[1] = c
      BY <2>2
    <3>4. PICK j \in DOMAIN view : s = <<view[j].cfid, view[j].array, view[j].ty>>
      BY <3>2 DEF FieldSig
    <3>5. Carriers(view, c) # {}
      BY <3>3, <3>4 DEF Carriers
    <3> QED BY <2>3, <3>1, <3>2, <3>5
  <2>6. PICK first : first = FirstOf(I)
    OBVIOUS
  <2>7. first \in I /\ first \in DOMAIN views
    <3>1. I \subseteq DOMAIN views
      BY <2>3
    <3>2. 1..m \subseteq Nat
      OBVIOUS
    <3>3. I \subseteq Nat
      BY <2>4, <3>1, <3>2
    <3> QED BY <2>5, <2>6, <3>1, <3>3, FirstIsOne
  <2>8. PICK view : view = views[first]
    OBVIOUS
  <2>9. /\ FieldsApart(view) /\ FieldSig(view) = sig
        /\ \A a, b \in DOMAIN view : view[a].cfid = view[b].cfid => view[a].ty = view[b].ty
    BY <1>2, <2>7, <2>8
  <2>10. Carriers(view, c) # {} /\ Carriers(view, c) \subseteq Nat
    <3>1. Carriers(view, c) # {}
      BY <2>3, <2>7, <2>8
    <3>2. PICK n \in Nat : DOMAIN view = 1..n
      BY <2>9 DEF FieldsApart
    <3> QED BY <3>1, <3>2 DEF Carriers
  <2>11. PICK j : j = FirstOf(Carriers(view, c))
    OBVIOUS
  <2>12. j \in DOMAIN view /\ view[j].cfid = c
    BY <2>10, <2>11, FirstIsOne DEF Carriers
  <2>13. FirstCarrier(views, c) = view[j]
    BY <2>3, <2>6, <2>8, <2>11 DEF FirstCarrier
  <2>14. fields[k].path = PathOf[c] /\ fields[k].ty = view[j].ty /\ fields[k].required
    BY <1>3, <2>1, <2>13 DEF BuildUmbrella
  <2>15. view[j].ty \in Scalars
    BY <2>9, <2>12 DEF FieldsApart
  <2>16. TypeIn(sig, c) = view[j].ty
    <3>1. <<view[j].cfid, view[j].array, view[j].ty>> \in sig
      BY <2>9, <2>12 DEF FieldSig
    <3>2. \E s \in sig : s[1] = c /\ s[3] = view[j].ty
      BY <2>12, <3>1
    <3>3. ASSUME NEW t, \E s \in sig : s[1] = c /\ s[3] = t PROVE t = view[j].ty
      <4>1. PICK s \in sig : s[1] = c /\ s[3] = t
        BY <3>3
      <4>2. PICK i \in DOMAIN view : s = <<view[i].cfid, view[i].array, view[i].ty>>
        BY <2>9 DEF FieldSig
      <4> QED BY <2>9, <2>12, <4>1, <4>2
    <3> QED BY <3>2, <3>3 DEF TypeIn
  <2> QED BY <2>1, <2>14, <2>15, <2>16
<1> QED BY <1>3, <1>4, <1>5 DEF IsOutline

\* Fields that one signature outlines are apart, and the same to validate_gold.
LEMMA OutlinesAreApart ==
    ASSUME PathsApart, NEW sig, NEW fields, IsOutline(fields, sig)
    PROVE  FieldsApart(fields)
<1>1. PICK cfids : cfids = CfidsOf(sig)
  OBVIOUS
<1>2. /\ \E m \in Nat : DOMAIN cfids = 1..m
      /\ \A j, k \in DOMAIN cfids : /\ PathOf[cfids[j]] = PathOf[cfids[k]] => j = k
                                    /\ ~ProperPrefix(PathOf[cfids[j]], PathOf[cfids[k]])
  BY <1>1, CfidsAre
<1> QED BY <1>1, <1>2 DEF IsOutline, FieldsApart

\* A gold event of one umbrella is one of every umbrella of its signature: the members
\* of a cohort may have changed, but what they can change is a unit.
LEMMA OutlinesAgree ==
    ASSUME NEW sig, NEW f, IsOutline(f, sig), NEW g, IsOutline(g, sig), NEW gold, ValidateGold(f, gold)
    PROVE  ValidateGold(g, gold)
<1>1. DOMAIN f = DOMAIN g
  BY DEF IsOutline
<1>2. ASSUME NEW k \in DOMAIN g PROVE /\ f[k].path = g[k].path /\ f[k].required /\ g[k].required
                                     /\ f[k].ty = g[k].ty /\ ~IsArray(f[k]) /\ ~IsArray(g[k])
  BY <1>1, <1>2 DEF IsOutline, IsArray, Scalars
<1>3. ASSUME NEW k \in DOMAIN g, NEW found, found = Lookup(gold, g[k].path)
      PROVE  IF found = {} THEN ~g[k].required ELSE \A v \in found : ValueMatches(g[k], v)
  <2>1. IF found = {} THEN ~f[k].required ELSE \A v \in found : ValueMatches(f[k], v)
    BY <1>1, <1>2, <1>3 DEF ValidateGold
  <2>2. found # {} /\ \A v \in found : ValueMatches(f[k], v)
    BY <1>2, <2>1
  <2> QED BY <1>2, <2>2 DEF ValueMatches
<1> QED BY <1>3 DEF ValidateGold

\* What a proposal that saw the children like this puts, and an item of its queue.
MayPropose(r, sig, fields) ==
    \E saw \in Seens(r) : CohortProposal(saw, sig).queue # <<>> /\ fields = CohortProposal(saw, sig).fields
MayStore(r, sig, c, t) ==
    \E saw \in Seens(r) : \E k \in DOMAIN CohortProposal(saw, sig).queue :
      CohortProposal(saw, sig).queue[k] = [child |-> c, t |-> t]
IsItem(saw, sig, fields, x) ==
    /\ x = [child |-> x.child, t |-> x.t] /\ x.child \in ChildIds
    /\ x.t = AssembleTransform(saw[x.child], fields) /\ VerifyStatic(x.t, fields, saw[x.child]) = {}

\* A list of n elements, whatever they are.
IsListed(q) == \E n \in Nat : q = [j \in 1..n |-> q[j]]

\* The queue of a cohort has, for some of its children, the transform assembled for the
\* child, which verifies; and if it has any, the umbrella has the fields of the signature.
LEMMA ProposalIs ==
    ASSUME TypesAgree, NEW r, NEW saw \in Seens(r), NEW sig, NEW fields, NEW queue,
           fields = CohortProposal(saw, sig).fields, queue = CohortProposal(saw, sig).queue
    PROVE  /\ IsListed(queue)
           /\ \A k \in DOMAIN queue : IsItem(saw, sig, fields, queue[k]) /\ IsOutline(fields, sig)
<1>1. PICK members : members = Cohort(saw, sig)
  OBVIOUS
<1>2. PICK m \in Nat : /\ DOMAIN members = 1..m
                       /\ \A i \in 1..m : /\ members[i] \in ChildIds
                                          /\ saw[members[i]] # <<>> /\ FieldSig(saw[members[i]]) = sig
  BY <1>1, CohortIs
<1>3. PICK views : views = [i \in DOMAIN members |-> saw[members[i]]]
  OBVIOUS
<1>4. fields = BuildUmbrella(CfidsOf(sig), views)
  BY <1>1, <1>3 DEF CohortProposal
<1>5. PICK all : all = [i \in DOMAIN members |-> [child |-> members[i], t |-> AssembleTransform(views[i], fields)]]
  OBVIOUS
<1>6. PICK I : I = {i \in DOMAIN all : VerifyStatic(all[i].t, fields, views[i]) = {}}
  OBVIOUS
<1>7. queue = ElementsAt(all, I)
  BY <1>1, <1>3, <1>4, <1>5, <1>6 DEF CohortProposal
<1>8. DOMAIN all = 1..m /\ I \subseteq 1..m
  BY <1>2, <1>5, <1>6
<1>9. PICK n \in Nat : \E at \in [1..n -> I] : Picks(queue, all, n, at)
  BY <1>7, <1>8, ElementsKept
<1>10. PICK at \in [1..n -> I] : Picks(queue, all, n, at)
  BY <1>9
<1>11. queue = [k \in 1..n |-> queue[k]] /\ \A k \in 1..n : at[k] \in I /\ queue[k] = all[at[k]]
  BY <1>10 DEF Picks
<1>12. ASSUME NEW k \in DOMAIN queue
       PROVE  IsItem(saw, sig, fields, queue[k]) /\ IsOutline(fields, sig)
  <2>1. PICK i \in I : queue[k] = all[i]
    BY <1>11, <1>12
  <2>2. i \in 1..m /\ i \in DOMAIN members /\ 1 \in DOMAIN members
    BY <1>2, <1>8, <2>1
  <2>3. VerifyStatic(all[i].t, fields, views[i]) = {}
    BY <1>6, <2>1
  <2>4. all[i] = [child |-> members[i], t |-> AssembleTransform(views[i], fields)] /\ views[i] = saw[members[i]]
    BY <1>3, <1>5, <2>2
  <2>5. IsItem(saw, sig, fields, all[i])
    BY <1>2, <2>2, <2>3, <2>4 DEF IsItem
  <2>6. IsOutline(fields, sig)
    BY <1>1, <1>3, <1>4, <2>2, Built
  <2> QED BY <2>1, <2>5, <2>6
<1>13. IsListed(queue)
  BY <1>11 DEF IsListed
<1> QED BY <1>12, <1>13

\* What an event of a child has: a scalar reading of the right type at some of its leaves.
HasReadings(e, fields, is) ==
    /\ DOMAIN e = {fields[i].path : i \in is}
    /\ \A i \in is : ~fields[i].array =>
         /\ e[fields[i].path].ty \in Scalars /\ Widens(e[fields[i].path].ty, fields[i].ty)
         /\ e[fields[i].path].n \in Readings

\* Every event of a child is one.
LEMMA EventIs ==
    ASSUME NEW c, NEW e \in EventsOf(c), NEW fields, fields = FieldsNow(c)
    PROVE  \E is \in SUBSET (DOMAIN fields) : HasReadings(e, fields, is)
<1>1. PICK is \in SUBSET (DOMAIN fields) : e \in EventsAt(fields, is)
  BY DEF EventsOf
<1>2. DOMAIN e = {fields[i].path : i \in is} /\ \A i \in is : e[fields[i].path] \in ReadingsOf(fields[i])
  BY <1>1 DEF EventsAt
<1>3. ASSUME NEW i \in is, ~fields[i].array, NEW v, v = e[fields[i].path]
      PROVE  v.ty \in Scalars /\ Widens(v.ty, fields[i].ty) /\ v.n \in Readings
  <2>1. v \in ReadingsOf(fields[i])
    BY <1>2, <1>3
  <2>2. v \in {[ty |-> t, n |-> n] : t \in {t \in Scalars : Widens(t, fields[i].ty)}, n \in Readings}
    BY <1>3, <2>1 DEF ReadingsOf
  <2> QED BY <2>2
<1> QED BY <1>2, <1>3 DEF HasReadings

\* It is an event of the fields that any annotation makes of the child.
LEMMA EventsAreEmitted ==
    ASSUME TypesAgree, NEW c \in ChildIds, NEW e \in EventsOf(c), NEW r, NEW n \in NotesAt(r, c),
           NEW view, view = Annotated(Leaves(c, n))
    PROVE  Emits(view, e)
<1>1. PICK fields : fields = FieldsNow(c)
  OBVIOUS
<1>2. PICK is \in SUBSET (DOMAIN fields) : HasReadings(e, fields, is)
  BY <1>1, EventIs
<1>3. IsTree(NodesOf[c])
  BY NodesAssumption DEF ChildIds, IsTree
<1>4. FieldsApart(fields)
  BY <1>1, <1>3, LeavesApart DEF FieldsNow
<1>5. ASSUME NEW k \in DOMAIN view
      PROVE  \E i \in DOMAIN fields : view[k].path = fields[i].path /\ view[k].ty = fields[i].ty /\ view[k].array = fields[i].array
  <2>1. PICK leaves : leaves = Leaves(c, n)
    OBVIOUS
  <2>2. PICK i \in DOMAIN leaves : view[k] = leaves[i]
    BY <1>5, <2>1, ViewsAreApart
  <2>3. DOMAIN leaves = DOMAIN fields /\ leaves[i].path = fields[i].path /\ leaves[i].ty = fields[i].ty
        /\ leaves[i].array = fields[i].array
    BY <1>1, <2>1, <2>2, LeavesStay DEF Leaves, FieldsNow
  <2> QED BY <2>2, <2>3
<1>6. ASSUME NEW k \in DOMAIN view
      PROVE  /\ \A q \in DOMAIN e : ~ProperPrefix(view[k].path, q)
             /\ (view[k].path \in DOMAIN e /\ ~view[k].array) =>
                  (e[view[k].path].ty \in Scalars /\ Widens(e[view[k].path].ty, view[k].ty))
  <2>1. PICK i \in DOMAIN fields : view[k].path = fields[i].path /\ view[k].ty = fields[i].ty /\ view[k].array = fields[i].array
    BY <1>5
  <2>2. ASSUME NEW q \in DOMAIN e PROVE ~ProperPrefix(view[k].path, q)
    <3>1. PICK j \in is : q = fields[j].path
      BY <1>2 DEF HasReadings
    <3> QED BY <1>4, <2>1, <3>1 DEF FieldsApart
  <2>3. ASSUME view[k].path \in DOMAIN e, ~view[k].array
        PROVE  e[view[k].path].ty \in Scalars /\ Widens(e[view[k].path].ty, view[k].ty)
    <3>1. PICK j \in is : view[k].path = fields[j].path
      BY <1>2, <2>3 DEF HasReadings
    <3>2. i = j
      BY <1>4, <2>1, <3>1 DEF FieldsApart
    <3> QED BY <1>2, <2>1, <2>3, <3>1, <3>2 DEF HasReadings
  <2> QED BY <2>2, <2>3
<1> QED BY <1>6 DEF Emits

\* What a transform that is stored was assembled and verified from.
IsStored(sig, t, saw, fields, view) ==
    /\ fields = CohortProposal(saw, sig).fields /\ IsOutline(fields, sig)
    /\ t.bindings \in Seq(Bindable(view, fields)) /\ VerifyStatic(t, fields, view) = {}

\* A transform that may be stored was assembled and verified in the cohort of some
\* snapshot, from annotated fields its child had then.
LEMMA StoredIs ==
    ASSUME TypesAgree, NEW r, NEW sig, NEW c, NEW t, MayStore(r, sig, c, t)
    PROVE  /\ c \in ChildIds
           /\ \E saw \in Seens(r) : \E n \in NotesAt(r, c) : \E fields :
                IsStored(sig, t, saw, fields, Annotated(Leaves(c, n)))
<1>1. PICK saw \in Seens(r) : \E k \in DOMAIN CohortProposal(saw, sig).queue :
        CohortProposal(saw, sig).queue[k] = [child |-> c, t |-> t]
  BY DEF MayStore
<1>2. PICK queue, fields : queue = CohortProposal(saw, sig).queue /\ fields = CohortProposal(saw, sig).fields
  OBVIOUS
<1>3. PICK k \in DOMAIN queue : queue[k] = [child |-> c, t |-> t]
  BY <1>1, <1>2
<1>4. PICK x : x = queue[k]
  OBVIOUS
<1>5. IsItem(saw, sig, fields, x) /\ IsOutline(fields, sig)
  BY <1>2, <1>4, ProposalIs
<1>6. x.child = c /\ x.t = t
  BY <1>3, <1>4
<1>7. PICK view : view = saw[c]
  OBVIOUS
<1>8. c \in ChildIds /\ t = AssembleTransform(view, fields) /\ VerifyStatic(t, fields, view) = {}
  BY <1>5, <1>6, <1>7 DEF IsItem
<1>9. view \in ViewsAt(r, c)
  BY <1>7, <1>8 DEF Seens
<1>10. PICK n \in NotesAt(r, c) : view = Annotated(Leaves(c, n))
  BY <1>9 DEF ViewsAt
<1>11. PICK a \in Nat : DOMAIN view = 1..a
  BY <1>8, <1>10, ViewsAreApart DEF FieldsApart
<1>12. PICK b \in Nat : DOMAIN fields = 1..b
  BY <1>5, CfidsAre DEF IsOutline
<1>13. t.bindings \in Seq(Bindable(view, fields))
  BY <1>8, <1>11, <1>12, AssembledIsBindable
<1>14. IsStored(sig, t, saw, fields, view)
  BY <1>2, <1>5, <1>8, <1>13 DEF IsStored
<1> QED BY <1>8, <1>10, <1>14

\* Its gold events are those of the umbrella, whichever proposal the umbrella is from.
LEMMA StoredIsSound ==
    ASSUME PathsApart, TypesAgree, NEW r, NEW sig, NEW c, NEW t, MayStore(r, sig, c, t),
           NEW s, NEW put, MayPropose(s, sig, put), NEW e \in EventsOf(c), NEW gold \in Apply(t, e)
    PROVE  ValidateGold(put, gold)
<1>1. PICK saw \in Seens(r) : \E n \in NotesAt(r, c) : \E fields :
                IsStored(sig, t, saw, fields, Annotated(Leaves(c, n)))
  BY StoredIs
<1>2. PICK n \in NotesAt(r, c) : \E fields : IsStored(sig, t, saw, fields, Annotated(Leaves(c, n)))
  BY <1>1
<1>3. PICK view : view = Annotated(Leaves(c, n))
  OBVIOUS
<1>4. PICK fields : IsStored(sig, t, saw, fields, view)
  BY <1>2, <1>3
<1>5. c \in ChildIds
  BY StoredIs
<1>6. FieldsApart(fields)
  BY <1>4, OutlinesAreApart DEF IsStored
<1>7. PICK bs : bs = t.bindings
  OBVIOUS
<1>8. bs \in Seq(Bindable(view, fields))
  BY <1>4, <1>7 DEF IsStored
<1>9. Len(bs) \in Nat /\ DOMAIN bs = 1..Len(bs)
  BY <1>8
<1>10. ASSUME NEW i \in 1..Len(bs) PROVE IsPlain(bs[i])
  <2>1. PICK b \in Bindable(view, fields) : b = bs[i]
    BY <1>8
  <2>2. IsPlain(b)
    BY BindableIsPlain
  <2> QED BY <2>1, <2>2
<1>11. Emits(view, e)
  BY <1>3, <1>5, EventsAreEmitted
<1>12. ValidateGold(fields, gold)
  BY <1>4, <1>6, <1>7, <1>9, <1>10, <1>11, VerifyStaticIsSound DEF IsStored
<1>13. PICK seen2 \in Seens(s) : CohortProposal(seen2, sig).queue # <<>> /\ put = CohortProposal(seen2, sig).fields
  BY DEF MayPropose
<1>14. IsOutline(put, sig)
  <2>1. PICK queue : queue = CohortProposal(seen2, sig).queue
    OBVIOUS
  <2>2. PICK m \in Nat : queue = [k \in 1..m |-> queue[k]]
    BY SMTT(30), <1>13, <2>1, ProposalIs DEF IsListed
  <2>3. m # 0
    BY <1>13, <2>1, <2>2
  <2>4. 1 \in DOMAIN queue
    BY <2>2, <2>3
  <2> QED BY <1>13, <2>1, <2>4, ProposalIs
<1> QED BY <1>4, <1>12, <1>14, OutlinesAgree DEF IsStored

\* Chains of at most two ops.
LEMMA ShortChains ==
    ASSUME NEW v, NEW a
    PROVE  /\ ApplyOps(v, <<>>) = v
           /\ ApplyOps(v, <<a>>) = ApplyOp(v, a)
           /\ \A b : ApplyOps(v, <<a, b>>) = ApplyOp(ApplyOp(v, a), b)
<1>1. ApplyOps(v, <<>>) = v
  <2>1. PICK f : Runs(f, v, <<>>, 0) /\ ApplyOps(v, <<>>) = f[0]
    BY OpsApplied
  <2>2. 0 \in 0..0
    OBVIOUS
  <2> QED BY <2>1, <2>2 DEF Runs, ValueAfter
<1>2. ApplyOps(v, <<a>>) = ApplyOp(v, a)
  <2>1. PICK ops : ops = <<a>>
    OBVIOUS
  <2>2. Len(ops) = 1 /\ ops[1] = a
    BY <2>1
  <2>3. PICK f : Runs(f, v, ops, 1) /\ ApplyOps(v, ops) = f[1]
    BY <2>2, OpsApplied
  <2>4. 0 \in 0..1 /\ 1 \in 0..1
    OBVIOUS
  <2> QED BY <2>1, <2>2, <2>3, <2>4 DEF Runs, ValueAfter
<1>3. ASSUME NEW b PROVE ApplyOps(v, <<a, b>>) = ApplyOp(ApplyOp(v, a), b)
  <2>1. PICK ops : ops = <<a, b>>
    OBVIOUS
  <2>2. Len(ops) = 2 /\ ops[1] = a /\ ops[2] = b
    BY <2>1
  <2>3. PICK f : Runs(f, v, ops, 2) /\ ApplyOps(v, ops) = f[2]
    BY <2>2, OpsApplied
  <2>4. 0 \in 0..2 /\ 1 \in 0..2 /\ 2 \in 0..2
    OBVIOUS
  <2>5. f[0] = v /\ f[1] = ApplyOp(f[0], a) /\ f[2] = ApplyOp(f[1], b)
    BY <2>2, <2>3, <2>4 DEF Runs, ValueAfter
  <2> QED BY <2>1, <2>3, <2>5
<1> QED BY <1>1, <1>2, <1>3

\* The two sides of a conversion, as numbers.
LEMMA Balanced ==
    ASSUME NEW p \in Int, NEW q \in Int, NEW a \in Int, NEW b \in Int, NEW y \in Int, NEW z \in Int,
           NEW num \in Int, NEW den \in Int, NEW offset \in Int, a * den = b * num, y = b * offset + z
    PROVE  (100 * a * p + y * q) * (100 * q * den) = (100 * b * (100 * p * num + offset * q * den) + z * (100 * q * den)) * q
<1>1. PICK d \in Int : d = den * (q * q)
  OBVIOUS
<1>2. (100 * a * p + y * q) * (100 * q * den) = 10000 * ((a * den) * (p * q)) + 100 * (y * d)
  <2>1. PICK k \in Int : k = 100 * q * den
    OBVIOUS
  <2>2. (100 * a * p) * k = 10000 * ((a * den) * (p * q))
    BY <2>1
  <2>3. (y * q) * k = 100 * (y * d)
    BY <1>1, <2>1
  <2>4. (100 * a * p + y * q) * k = (100 * a * p) * k + (y * q) * k
    OBVIOUS
  <2> QED BY <2>1, <2>2, <2>3, <2>4
<1>3. (100 * b * (100 * p * num + offset * q * den) + z * (100 * q * den)) * q
        = 10000 * ((b * num) * (p * q)) + 100 * ((b * offset) * d) + 100 * (z * d)
  <2>1. PICK k \in Int, l \in Int : k = 100 * b * (100 * p * num + offset * q * den) /\ l = z * (100 * q * den)
    OBVIOUS
  <2>2. k * q = 10000 * ((b * num) * (p * q)) + 100 * ((b * offset) * d)
    <3>1. PICK m \in Int, n \in Int : m = 100 * p * num /\ n = offset * q * den
      OBVIOUS
    <3>2. k * q = (100 * b) * (m * q) + (100 * b) * (n * q)
      BY <2>1, <3>1
    <3>3. (100 * b) * (m * q) = 10000 * ((b * num) * (p * q))
      BY <3>1
    <3>4. (100 * b) * (n * q) = 100 * ((b * offset) * d)
      BY <1>1, <3>1
    <3> QED BY <3>2, <3>3, <3>4
  <2>3. l * q = 100 * (z * d)
    BY <1>1, <2>1
  <2>4. (k + l) * q = k * q + l * q
    OBVIOUS
  <2> QED BY <2>1, <2>2, <2>3, <2>4
<1>4. 100 * ((b * offset) * d) + 100 * (z * d) = 100 * (y * d)
  OBVIOUS
<1> QED BY <1>2, <1>3, <1>4

\* Every rule keeps the quantity: what it makes of a number in its first unit is the same
\* in its second.
LEMMA RulesKeepQuantity ==
    ASSUME NEW r \in Rules, NEW n \in Int \X Int, NEW from, NEW to, NEW u, NEW w, u.code = r.from, w.code = r.to,
           from = Quantity(u, n), to = Quantity(w, Convert(n, r))
    PROVE  from[1] * to[2] = to[1] * from[2]
<1>1. PICK p \in Int, q \in Int : n[1] = p /\ n[2] = q
  OBVIOUS
<1>2. /\ from[1] = 100 * UnitScale(r.from) * p + UnitZero(r.from) * q /\ from[2] = q
      /\ to[1] = 100 * UnitScale(r.to) * Convert(n, r)[1] + UnitZero(r.to) * Convert(n, r)[2]
      /\ to[2] = Convert(n, r)[2]
  BY <1>1 DEF Quantity
<1>3. Convert(n, r)[1] = 100 * p * r.num + r.offset * q * r.den /\ Convert(n, r)[2] = 100 * q * r.den
  BY <1>1 DEF Convert
<1>4. PICK a, b, y, z, num, den, offset :
        /\ a = UnitScale(r.from) /\ b = UnitScale(r.to) /\ y = UnitZero(r.from) /\ z = UnitZero(r.to)
        /\ num = r.num /\ den = r.den /\ offset = r.offset
  OBVIOUS
<1>5. /\ UnitScale("Cel") = 1 /\ UnitScale("K") = 1 /\ UnitScale("hPa") = 100 /\ UnitScale("Pa") = 1
      /\ UnitScale("kPa") = 1000 /\ UnitScale("kW") = 1000 /\ UnitScale("W") = 1 /\ UnitScale("MW") = 1000000
      /\ UnitScale("GW") = 1000000000 /\ UnitScale("km") = 1000 /\ UnitScale("m") = 1 /\ UnitScale("h") = 3600
      /\ UnitScale("s") = 1 /\ UnitScale("min") = 60
  BY DEF UnitScale
<1>6. /\ UnitZero("Cel") = 27315 /\ \A code : code # "Cel" => UnitZero(code) = 0
  BY DEF UnitZero
<1>7. /\ a \in Int /\ b \in Int /\ y \in Int /\ z \in Int /\ num \in Int /\ den \in Int /\ offset \in Int
      /\ a * den = b * num /\ y = b * offset + z
  <2>1. CASE r = Linear("Cel", "K", 1, 1, 27315)
    BY <1>4, <1>5, <1>6, <2>1 DEF Linear
  <2>2. CASE r = Linear("K", "Cel", 1, 1, -27315)
    BY <1>4, <1>5, <1>6, <2>2 DEF Linear
  <2>3. CASE r = Linear("hPa", "Pa", 100, 1, 0)
    BY <1>4, <1>5, <1>6, <2>3 DEF Linear
  <2>4. CASE r = Linear("Pa", "hPa", 1, 100, 0)
    BY <1>4, <1>5, <1>6, <2>4 DEF Linear
  <2>5. CASE r = Linear("kPa", "Pa", 1000, 1, 0)
    BY <1>4, <1>5, <1>6, <2>5 DEF Linear
  <2>6. CASE r = Linear("kW", "W", 1000, 1, 0)
    BY <1>4, <1>5, <1>6, <2>6 DEF Linear
  <2>7. CASE r = Linear("MW", "W", 1000000, 1, 0)
    BY <1>4, <1>5, <1>6, <2>7 DEF Linear
  <2>8. CASE r = Linear("GW", "W", 1000000000, 1, 0)
    BY <1>4, <1>5, <1>6, <2>8 DEF Linear
  <2>9. CASE r = Linear("W", "kW", 1, 1000, 0)
    BY <1>4, <1>5, <1>6, <2>9 DEF Linear
  <2>10. CASE r = Linear("W", "MW", 1, 1000000, 0)
    BY <1>4, <1>5, <1>6, <2>10 DEF Linear
  <2>11. CASE r = Linear("km", "m", 1000, 1, 0)
    BY <1>4, <1>5, <1>6, <2>11 DEF Linear
  <2>12. CASE r = Linear("m", "km", 1, 1000, 0)
    BY <1>4, <1>5, <1>6, <2>12 DEF Linear
  <2>13. CASE r = Linear("h", "s", 3600, 1, 0)
    BY <1>4, <1>5, <1>6, <2>13 DEF Linear
  <2>14. CASE r = Linear("min", "s", 60, 1, 0)
    BY <1>4, <1>5, <1>6, <2>14 DEF Linear
  <2> QED BY <2>1, <2>2, <2>3, <2>4, <2>5, <2>6, <2>7, <2>8, <2>9, <2>10, <2>11, <2>12, <2>13, <2>14 DEF Rules
<1>8. /\ from[1] = 100 * a * p + y * q /\ to[2] = 100 * q * den /\ from[2] = q
      /\ to[1] = 100 * b * (100 * p * num + offset * q * den) + z * (100 * q * den)
  BY <1>2, <1>3, <1>4
<1> QED BY <1>7, <1>8, Balanced

\* What the ops of an assembly make of a reading is the same quantity in the target's unit.
LEMMA OpsKeepQuantity ==
    ASSUME NEW c, NEW uf, AutoBindable(c, uf), uf.unit # NoUnit, NEW v, v.n \in Int \X Int, v.ty \in Scalars,
           NEW w, w = ApplyOps(v, OpsFor(c, uf)), w # Failed,
           NEW from, NEW to, from = Quantity(c.unit, v.n), to = Quantity(uf.unit, w.n)
    PROVE  from[1] * to[2] = to[1] * from[2]
<1>1. PICK cast, convert : /\ cast = Cast(uf.ty)
                           /\ convert = UnitConvert(c.unit, uf.unit, <<c.unit.code, uf.unit.code>>)
  OBVIOUS
<1>2. v # Failed
  BY DEF Failed, Scalars
<1>3. ApplyOp(v, cast) \in {v, Failed}
  BY <1>1, <1>2 DEF ApplyOp, ApplyScalarOp, Cast
<1>4. ApplyOp(Failed, convert) = Failed
  BY DEF ApplyOp
<1>5. CASE UnitRelation(c, uf) = "convertible"
  <2>1. OpsFor(c, uf) = <<convert>> \/ OpsFor(c, uf) = <<cast, convert>>
    BY <1>1, <1>5, OpsAre
  <2>2. w = ApplyOp(v, convert)
    <3>1. ApplyOps(v, <<convert>>) = ApplyOp(v, convert)
      BY ShortChains
    <3>2. \A b : ApplyOps(v, <<cast, b>>) = ApplyOp(ApplyOp(v, cast), b)
      BY ZenonT(40), ShortChains
    <3>3. ApplyOps(v, <<cast, convert>>) = ApplyOp(ApplyOp(v, cast), convert)
      BY <3>2
    <3>4. w = ApplyOp(v, convert) \/ w = ApplyOp(ApplyOp(v, cast), convert)
      BY <2>1, <3>1, <3>3
    <3> QED BY <1>3, <1>4, <3>4
  <2>3. convert.op = "unit_convert" /\ convert.rule = <<c.unit.code, uf.unit.code>>
    BY <1>1 DEF UnitConvert
  <2>4. w = ApplyScalarOp(v, convert)
    BY <1>2, <2>2, <2>3 DEF ApplyOp
  <2>5. PICK rules : rules = RuleNamed(convert.rule)
    OBVIOUS
  <2>6. rules # {} /\ w.n = Convert(v.n, CHOOSE r \in rules : TRUE)
    BY <2>3, <2>4, <2>5 DEF ApplyScalarOp
  <2>7. PICK r \in rules : w.n = Convert(v.n, r)
    BY <2>6
  <2>8. r \in Rules /\ c.unit.code = r.from /\ uf.unit.code = r.to
    BY <2>3, <2>5, <2>7 DEF RuleNamed
  <2> QED BY <2>7, <2>8, RulesKeepQuantity
<1>6. CASE UnitRelation(c, uf) # "convertible"
  <2>1. OpsFor(c, uf) = <<>> \/ OpsFor(c, uf) = <<cast>>
    BY <1>1, <1>6, OpsAre
  <2>2. w = v
    BY <1>3, <2>1, ShortChains
  <2>3. c.unit = uf.unit
    BY <1>6 DEF AutoBindable, UnitRelation
  <2>4. from = to
    BY <2>2, <2>3
  <2>5. from[1] \in Int /\ from[2] \in Int
    <3>1. PICK p \in Int, q \in Int : v.n[1] = p /\ v.n[2] = q
      OBVIOUS
    <3>2. UnitScale(c.unit.code) \in Int /\ UnitZero(c.unit.code) \in Int
      BY DEF UnitScale, UnitZero
    <3> QED BY <3>1, <3>2 DEF Quantity
  <2> QED BY <2>4, <2>5
<1> QED BY <1>5, <1>6

\* As long as the annotations are the first ones, every proposal sees the same, and a
\* stored transform writes the quantity it read.
LEMMA StoredKeepsQuantity ==
    ASSUME TypesAgree, PathsApart, NEW sig, NEW c, NEW t, MayStore(0, sig, c, t), notes[c] = FirstNote[c],
           NEW put, MayPropose(0, sig, put), NEW e \in EventsOf(c), NEW gold \in Apply(t, e),
           NEW bs, bs = t.bindings, NEW i \in DOMAIN bs, NEW child \in FieldAt(FieldsNow(c), bs[i].source),
           NEW uf \in FieldAt(put, bs[i].target), bs[i].source \in DOMAIN e, uf.unit # NoUnit,
           NEW from, NEW to, from = Quantity(child.unit, e[bs[i].source].n), to = Quantity(uf.unit, gold[bs[i].target].n)
    PROVE  from[1] * to[2] = to[1] * from[2]
<1>1. PICK saw \in Seens(0) : \E n \in NotesAt(0, c) : \E fields :
                IsStored(sig, t, saw, fields, Annotated(Leaves(c, n)))
  BY StoredIs
<1>2. PICK leaves, view : leaves = Leaves(c, FirstNote[c]) /\ view = Annotated(leaves)
  OBVIOUS
<1>3. IsStored(sig, t, saw, put, view)
  <2>1. PICK fields : IsStored(sig, t, saw, fields, view)
    BY <1>1, <1>2 DEF NotesAt
  <2>2. PICK other \in Seens(0) : put = CohortProposal(other, sig).fields
    BY DEF MayPropose
  <2>3. other = saw
    <3>1. \A d \in ChildIds : other[d] = saw[d]
      BY DEF Seens, ViewsAt, NotesAt
    <3> QED BY <3>1 DEF Seens
  <2> QED BY <2>1, <2>2, <2>3 DEF IsStored
<1>4. c \in ChildIds /\ FirstNote[c] \in NotesAt(0, c)
  BY StoredIs DEF NotesAt
<1>5. /\ FieldsApart(leaves) /\ FieldsApart(view) /\ leaves = FieldsNow(c)
      /\ \A k \in DOMAIN view : \E j \in DOMAIN leaves : view[k] = leaves[j]
  BY <1>2, <1>4, ViewsAreApart DEF Leaves, FieldsNow
<1>6. FieldsApart(put) /\ \A k \in DOMAIN put : put[k].ty \in Scalars
  BY <1>3, OutlinesAreApart DEF IsStored, IsOutline
<1>7. bs \in Seq(Bindable(view, put)) /\ VerifyStatic(t, put, view) = {}
  BY <1>3 DEF IsStored
<1>8. Len(bs) \in Nat /\ DOMAIN bs = 1..Len(bs)
  BY <1>7
<1>9. PICK b \in Bindable(view, put) : b = bs[i]
  BY <1>7, <1>8
<1>10. IsPlain(b)
  BY BindableIsPlain
<1>11. PICK j \in DOMAIN view, l \in DOMAIN put :
                /\ b.source = view[j].path /\ b.target = put[l].path
                /\ b.ops = OpsFor(view[j], put[l]) /\ AutoBindable(view[j], put[l])
  BY BindableIsPlain
<1>12. uf = put[l]
  <2>1. PICK k \in DOMAIN put : uf = put[k] /\ put[k].path = b.target
    BY <1>9, FieldIsAt
  <2> QED BY <1>6, <1>11, <2>1 DEF FieldsApart
<1>13. child = view[j]
  <2>1. PICK k \in DOMAIN leaves : child = leaves[k] /\ leaves[k].path = b.source
    BY <1>5, <1>9, FieldIsAt
  <2>2. PICK m \in DOMAIN leaves : view[j] = leaves[m]
    BY <1>5
  <2> QED BY <1>5, <1>11, <2>1, <2>2 DEF FieldsApart
<1>14. ~child.array
  <2>1. \E x \in FieldAt(view, bs[i].source), y \in FieldAt(put, bs[i].target) : CheckOpChain(x, y, bs[i]) = {}
    BY <1>7, Verified
  <2>2. PICK x, y : x \in FieldAt(view, b.source) /\ y \in FieldAt(put, b.target) /\ CheckOpChain(x, y, b) = {}
    BY <1>9, <2>1
  <2>3. PICK k \in DOMAIN view : x = view[k] /\ view[k].path = b.source
    BY <2>2, FieldIsAt
  <2>4. PICK k2 \in DOMAIN put : y = put[k2]
    BY <2>2, FieldIsAt
  <2>5. y.ty \in Scalars
    BY <1>6, <2>4
  <2>6. ~x.array
    BY <1>10, <2>2, <2>5, ChainIsChecked
  <2> QED BY <1>5, <1>11, <1>13, <2>3, <2>6 DEF FieldsApart
<1>15. PICK v : v = e[b.source]
  OBVIOUS
<1>16. v.n \in Int \X Int /\ v.ty \in Scalars
  <2>1. PICK is \in SUBSET (DOMAIN leaves) : HasReadings(e, leaves, is)
    BY <1>5, EventIs
  <2>2. PICK k \in is : leaves[k].path = b.source
    BY <1>9, <2>1 DEF HasReadings
  <2>3. PICK m \in DOMAIN leaves : child = leaves[m] /\ leaves[m].path = b.source
    BY <1>5, <1>9, FieldIsAt
  <2>4. k = m
    BY <1>5, <2>2, <2>3 DEF FieldsApart
  <2>5. v.n \in Readings /\ v.ty \in Scalars
    BY <1>14, <1>15, <2>1, <2>2, <2>3, <2>4 DEF HasReadings
  <2> QED BY <2>5, ReadingsAssumption
<1>17. PICK w : w = gold[b.target]
  OBVIOUS
<1>18. w = ApplyOps(v, b.ops) /\ w # Failed
  <2>1. TargetsApart(bs)
    BY <1>6, <1>7, <1>8, TargetsStayApart
  <2>2. IsWritten(gold, bs, e, Len(bs))
    BY <1>8, <2>1, GoldIsWritten
  <2>3. Writes(bs, e, i)
    BY DEF Writes, Omitted, Lookup
  <2>4. w = Written(b, e) /\ w # Failed
    BY <1>8, <1>9, <1>17, <2>2, <2>3 DEF IsWritten
  <2>5. Emits(view, e)
    BY <1>2, <1>4, EventsAreEmitted
  <2>6. \A q \in DOMAIN e : ~ProperPrefix(b.source, q)
    BY <1>11, <2>5 DEF Emits
  <2> QED BY <1>10, <1>15, <2>4, <2>6, PlainWrites
<1>19. w = ApplyOps(v, OpsFor(child, uf)) /\ AutoBindable(child, uf)
  BY <1>11, <1>12, <1>13, <1>18
<1>20. from = Quantity(child.unit, v.n) /\ to = Quantity(uf.unit, w.n)
  BY <1>9, <1>15, <1>17
<1> QED BY <1>16, <1>18, <1>19, <1>20, OpsKeepQuantity

-----------------------------------------------------------------------------
(* Umbrella: the gold events of what is stored.                             *)

IsQueue(k, id, q) ==
    /\ q \in Seq({q[j] : j \in DOMAIN q}) /\ q # <<>>
    /\ \A j \in DOMAIN q : q[j] = [child |-> q[j].child, t |-> q[j].t] /\ MayStore(k, id, q[j].child, q[j].t)

\* Where a proposal and a decision are after k re-annotations, what they may hold, and
\* that what they refer to is among the umbrellas us and the transforms ts.
BoundIn(ts, id) == IF id \in DOMAIN ts THEN DOMAIN ts[id] ELSE {}
IsProposal(k, us, r) ==
    /\ r = [pc |-> r.pc, seen |-> r.seen, todo |-> r.todo, id |-> r.id, fields |-> r.fields, queue |-> r.queue]
    /\ r.seen \in Seq({r.seen[i] : i \in DOMAIN r.seen}) /\ Len(r.seen) <= Len(Children)
    /\ \A i \in DOMAIN r.seen : r.seen[i] \in ViewsAt(k, Children[i])
    /\ r.pc \in {"check", "put", "transforms"} => Len(r.seen) = Len(Children)
    /\ r.pc \in {"put", "transforms"} => MayPropose(k, r.id, r.fields) /\ IsQueue(k, r.id, r.queue)
    /\ r.pc = "transforms" => r.id \in DOMAIN us
IsApproval(k, us, ts, r) ==
    /\ r.pc \in {"list", "get", "verify", "lineage"} => r.id \in DOMAIN us /\ MayPropose(k, r.id, r.fields)
    /\ \A c \in DOMAIN r.bundle : MayStore(k, r.id, c, r.bundle[c])
    /\ r.pc = "get" => r.todo \subseteq BoundIn(ts, r.id)

\* What is stored is what some proposal came to, the umbrella and the transforms from the
\* same one or from different ones.
IsProposed(k, us, ts) ==
    /\ \A id \in DOMAIN us : MayPropose(k, id, us[id].fields)
    /\ DOMAIN ts \subseteq DOMAIN us
    /\ \A id \in DOMAIN ts : \A c \in DOMAIN ts[id] : MayStore(k, id, c, ts[id][c])
NotesAre(k, ns) == DOMAIN ns = ChildIds /\ \A c \in ChildIds : ns[c] \in NotesAt(k, c)

GoldInv ==
    /\ renoted \in Nat /\ NotesAre(renoted, notes)
    /\ proposer = [p \in Proposers |-> proposer[p]]
    /\ \A p \in Proposers : IsProposal(renoted, umbrellas, proposer[p])
    /\ \A h \in People : IsApproval(renoted, umbrellas, transforms, person[h])
    /\ IsProposed(renoted, umbrellas, transforms)

\* What may be proposed and stored still may after one more re-annotation.
LEMMA MoreMayBe ==
    ASSUME NEW k \in Nat
    PROVE  /\ \A c \in ChildIds : NotesAt(k, c) \subseteq NotesAt(k + 1, c) /\ ViewsAt(k, c) \subseteq ViewsAt(k + 1, c)
           /\ \A sig, fields : MayPropose(k, sig, fields) => MayPropose(k + 1, sig, fields)
           /\ \A sig, c, t : MayStore(k, sig, c, t) => MayStore(k + 1, sig, c, t)
<1>1. ASSUME NEW c \in ChildIds PROVE NotesAt(k, c) \subseteq NotesAt(k + 1, c)
  BY DEF NotesAt, NotesFor
<1>2. ASSUME NEW c \in ChildIds PROVE ViewsAt(k, c) \subseteq ViewsAt(k + 1, c)
  BY <1>1 DEF ViewsAt
<1>3. ASSUME NEW saw \in Seens(k) PROVE saw \in Seens(k + 1)
  <2>1. \A c \in ChildIds : saw[c] \in ViewsAt(k + 1, c)
    BY <1>2 DEF Seens
  <2>2. saw \in [ChildIds -> UNION {ViewsAt(k + 1, c) : c \in ChildIds}]
    BY <2>1 DEF Seens
  <2> QED BY <2>1, <2>2 DEF Seens
<1>4. \A sig, fields : MayPropose(k, sig, fields) => MayPropose(k + 1, sig, fields)
  BY <1>3 DEF MayPropose
<1>5. \A sig, c, t : MayStore(k, sig, c, t) => MayStore(k + 1, sig, c, t)
  BY <1>3 DEF MayStore
<1> QED BY <1>1, <1>2, <1>4, <1>5

\* An annotation changes.
LEMMA AnnotateGold ==
    ASSUME GoldInv, NEW c \in ChildIds, NEW n \in Notes[c], Annotate(c, n)
    PROVE  GoldInv'
<1>1. PICK k \in Nat : k = renoted
  BY DEF GoldInv
<1>2. /\ renoted' = k + 1 /\ notes' = [notes EXCEPT ![c] = n]
      /\ UNCHANGED <<umbrellas, listing, transforms, lineage, proposer, person>>
  BY <1>1 DEF Annotate, umbrellaStore
<1>3. /\ \A id, fields : MayPropose(k, id, fields) => MayPropose(k + 1, id, fields)
      /\ \A id, d, t : MayStore(k, id, d, t) => MayStore(k + 1, id, d, t)
      /\ \A d \in ChildIds : NotesAt(k, d) \subseteq NotesAt(k + 1, d) /\ ViewsAt(k, d) \subseteq ViewsAt(k + 1, d)
  BY MoreMayBe
<1>4. NotesAre(k + 1, notes')
  <2>1. n \in NotesAt(k + 1, c)
    BY DEF NotesAt, NotesFor
  <2>2. NotesAre(k, notes)
    BY <1>1 DEF GoldInv
  <2>3. DOMAIN notes' = ChildIds /\ \A d \in ChildIds : notes'[d] = IF d = c THEN n ELSE notes[d]
    BY <1>2, <2>2 DEF NotesAre
  <2> QED BY <1>3, <2>1, <2>2, <2>3 DEF NotesAre
<1>5. ASSUME NEW us, NEW r, IsProposal(k, us, r) PROVE IsProposal(k + 1, us, r)
  <2>1. \A i \in DOMAIN r.seen : Children[i] \in ChildIds
    BY <1>5, CfidAssumption DEF IsProposal, ChildIds
  <2>2. \A i \in DOMAIN r.seen : r.seen[i] \in ViewsAt(k + 1, Children[i])
    BY <1>3, <1>5, <2>1 DEF IsProposal
  <2>3. \A id, q : IsQueue(k, id, q) => IsQueue(k + 1, id, q)
    BY <1>3 DEF IsQueue
  <2> QED BY <1>3, <1>5, <2>2, <2>3 DEF IsProposal
<1>6. ASSUME NEW us, NEW ts, NEW r, IsApproval(k, us, ts, r) PROVE IsApproval(k + 1, us, ts, r)
  BY <1>3, <1>6 DEF IsApproval
<1>7. ASSUME NEW us, NEW ts, IsProposed(k, us, ts) PROVE IsProposed(k + 1, us, ts)
  BY <1>3, <1>7 DEF IsProposed
<1> QED BY <1>1, <1>2, <1>4, <1>5, <1>6, <1>7 DEF GoldInv

\* A step of a proposal, or of a decision, that leaves in the store what a proposal came
\* to, and takes no name from it.
LEMMA GoldProposes ==
    ASSUME GoldInv, NEW k, k = renoted, UNCHANGED <<notes, renoted, person>>,
           IsProposed(k, umbrellas', transforms'), DOMAIN umbrellas \subseteq DOMAIN umbrellas',
           \A id : BoundIn(transforms, id) \subseteq BoundIn(transforms', id),
           NEW p \in Proposers, NEW x, IsProposal(k, umbrellas', x), proposer' = [proposer EXCEPT ![p] = x]
    PROVE  GoldInv'
<1>1. \A q \in Proposers : IsProposal(k, umbrellas', proposer[q])
  BY DEF GoldInv, IsProposal
<1>2. \A g \in People : IsApproval(k, umbrellas', transforms', person[g])
  BY DEF GoldInv, IsApproval
<1>3. proposer' = [q \in Proposers |-> IF q = p THEN x ELSE proposer[q]]
  BY DEF GoldInv
<1> QED BY <1>1, <1>2, <1>3 DEF GoldInv

\* A decision moves on, and what the store has is only added to.
LEMMA GoldDecides ==
    ASSUME UmbrellaTypes, GoldInv, NEW k, k = renoted, UNCHANGED <<notes, renoted, proposer>>,
           IsProposed(k, umbrellas', transforms'), DOMAIN umbrellas \subseteq DOMAIN umbrellas',
           \A id : BoundIn(transforms, id) \subseteq BoundIn(transforms', id),
           NEW h \in People, NEW y, IsApproval(k, umbrellas', transforms', y), person' = [person EXCEPT ![h] = y]
    PROVE  GoldInv'
<1>1. \A q \in Proposers : IsProposal(k, umbrellas', proposer[q])
  BY DEF GoldInv, IsProposal
<1>2. \A g \in People : IsApproval(k, umbrellas', transforms', person[g])
  BY DEF GoldInv, IsApproval
<1>3. person' = [g \in People |-> IF g = h THEN y ELSE person[g]]
  BY DEF UmbrellaTypes
<1> QED BY <1>1, <1>2, <1>3 DEF GoldInv

\* A sequence is one of its own elements.
LEMMA OfItsOwn ==
    ASSUME NEW S, NEW s \in Seq(S)
    PROVE  s \in Seq({s[i] : i \in DOMAIN s})
OBVIOUS

\* The start of a request is one where it may be.
LEMMA IdleIsFine ==
    ASSUME NEW k, NEW us, NEW ts
    PROVE  IsProposal(k, us, IdleProposer) /\ IsApproval(k, us, ts, IdlePerson)
<1>1. Len(Children) \in Nat
  BY CfidAssumption
<1> QED BY <1>1 DEF IsProposal, IsApproval, IdleProposer, IdlePerson

\* What a complete snapshot holds is what the children looked like.
LEMMA SnapshotIs ==
    ASSUME NEW k, NEW us, NEW p \in Proposers, IsProposal(k, us, proposer[p]), proposer[p].pc = "check",
           NEW saw, saw = Snapshot(p)
    PROVE  saw \in Seens(k)
<1>1. PICK seq : seq = proposer[p].seen
  OBVIOUS
<1>2. seq \in Seq({seq[i] : i \in DOMAIN seq}) /\ Len(seq) = Len(Children) /\ \A i \in DOMAIN seq : seq[i] \in ViewsAt(k, Children[i])
  BY <1>1 DEF IsProposal
<1>3. DOMAIN seq = DOMAIN Children
  BY <1>2, CfidAssumption
<1>4. saw = [c \in ChildIds |-> seq[CHOOSE i \in DOMAIN Children : Children[i] = c]]
  BY <1>1 DEF Snapshot
<1>5. ASSUME NEW c \in ChildIds PROVE saw[c] \in ViewsAt(k, c)
  <2>1. \E i \in DOMAIN Children : Children[i] = c
    BY DEF ChildIds
  <2>2. PICK i \in DOMAIN Children : Children[i] = c /\ saw[c] = seq[i]
    BY <1>4, <2>1
  <2> QED BY <1>2, <1>3, <2>2
<1>6. saw \in [ChildIds -> UNION {ViewsAt(k, c) : c \in ChildIds}]
  BY <1>4, <1>5
<1> QED BY <1>5, <1>6 DEF Seens

\* The queue of a proposal that is not suppressed.
LEMMA QueueIs ==
    ASSUME TypesAgree, NEW k, NEW saw \in Seens(k), NEW sig, NEW x, x = CohortProposal(saw, sig), ~Suppressed(x)
    PROVE  MayPropose(k, sig, x.fields) /\ IsQueue(k, sig, x.queue)
<1>1. PICK q, f : q = CohortProposal(saw, sig).queue /\ f = CohortProposal(saw, sig).fields
  OBVIOUS
<1>2. \A j \in DOMAIN q : IsItem(saw, sig, f, q[j])
  BY <1>1, ProposalIs
<1>3. PICK n \in Nat : q = [j \in 1..n |-> q[j]]
  <2>1. IsListed(q)
    BY <1>1, ProposalIs
  <2> QED BY <2>1 DEF IsListed
<1>4. q \in Seq({q[j] : j \in DOMAIN q})
  <2>1. PICK S : S = {q[j] : j \in DOMAIN q}
    OBVIOUS
  <2>2. \A j \in 1..n : q[j] \in S
    BY <1>3, <2>1
  <2>3. [j \in 1..n |-> q[j]] \in Seq(S)
    BY <2>2
  <2> QED BY <1>3, <2>1, <2>3
<1>5. q # <<>>
  BY <1>1 DEF Suppressed
<1>6. ASSUME NEW j \in DOMAIN q PROVE q[j] = [child |-> q[j].child, t |-> q[j].t] /\ MayStore(k, sig, q[j].child, q[j].t)
  <2>1. q[j] = [child |-> q[j].child, t |-> q[j].t]
    BY <1>2 DEF IsItem
  <2>2. CohortProposal(saw, sig).queue[j] = [child |-> q[j].child, t |-> q[j].t] /\ j \in DOMAIN CohortProposal(saw, sig).queue
    BY <1>1, <2>1
  <2> QED BY <2>1, <2>2 DEF MayStore
<1> QED BY <1>1, <1>4, <1>5, <1>6 DEF MayPropose, IsQueue

\* A proposal gathers, groups, weighs and ends, and writes nothing.
LEMMA QuietProposal ==
    ASSUME TypesAgree, GoldInv, NEW p \in Proposers,
           \/ Gather(p) \/ Group(p) \/ Proposed(p) \/ ProposalDies(p)
           \/ \E sig \in proposer[p].todo : Check(p, sig)
    PROVE  GoldInv'
<1>1. PICK k : k = renoted /\ k \in Nat
  BY DEF GoldInv
<1>2. UNCHANGED <<umbrellas, transforms, notes, renoted, person>>
  BY DEF Gather, Group, Proposed, ProposalDies, Check, Proposes, umbrellaStore
<1>3. PICK r : r = proposer[p] /\ IsProposal(k, umbrellas, r)
  BY <1>1 DEF GoldInv
<1>4. IsProposed(k, umbrellas', transforms')
  BY <1>1, <1>2 DEF GoldInv
<1>5. SUFFICES \E x : IsProposal(k, umbrellas, x) /\ proposer' = [proposer EXCEPT ![p] = x]
  BY <1>1, <1>2, <1>4, GoldProposes
<1>6. ASSUME Gather(p) PROVE \E x : IsProposal(k, umbrellas, x) /\ proposer' = [proposer EXCEPT ![p] = x]
  <2>1. PICK at : at = Len(r.seen) + 1
    OBVIOUS
  <2>2. PICK v : v = Annotated(FieldsNow(Children[at]))
    OBVIOUS
  <2>3. PICK more : more = Append(r.seen, v)
    OBVIOUS
  <2>4. PICK x : x = [r EXCEPT !.pc = "gather", !.seen = more]
    OBVIOUS
  <2>5. at <= Len(Children) /\ proposer' = [proposer EXCEPT ![p] = x]
    BY <1>3, <1>6, <2>1, <2>2, <2>3, <2>4 DEF Gather, Proposes
  <2>6. Len(r.seen) \in Nat /\ DOMAIN r.seen = 1..Len(r.seen) /\ DOMAIN Children = 1..Len(Children) /\ Len(Children) \in Nat
    BY <1>3, CfidAssumption DEF IsProposal
  <2>7. Children[at] \in ChildIds
    BY <2>1, <2>5, <2>6 DEF ChildIds
  <2>8. v \in ViewsAt(k, Children[at])
    <3>1. notes[Children[at]] \in NotesAt(k, Children[at])
      BY <1>1, <2>7 DEF GoldInv, NotesAre
    <3> QED BY <2>2, <3>1 DEF ViewsAt, Leaves, FieldsNow
  <2>9. more \in Seq({more[i] : i \in DOMAIN more}) /\ Len(more) = at /\ DOMAIN more = 1..at
        /\ \A i \in DOMAIN more : more[i] = IF i = at THEN v ELSE r.seen[i]
    <3>1. PICK S : S = {r.seen[i] : i \in DOMAIN r.seen} \cup {v}
      OBVIOUS
    <3>2. r.seen \in Seq(S)
      BY <2>6, <3>1, <1>3 DEF IsProposal
    <3>3. more \in Seq(S) /\ Len(more) = at /\ \A i \in 1..at : more[i] = IF i = at THEN v ELSE r.seen[i]
      BY <2>1, <2>3, <3>1, <3>2
    <3> QED BY <3>3, OfItsOwn
  <2>10. \A i \in DOMAIN more : more[i] \in ViewsAt(k, Children[i])
    BY <1>3, <2>1, <2>6, <2>8, <2>9 DEF IsProposal
  <2>11. /\ x = [pc |-> "gather", seen |-> more, todo |-> r.todo, id |-> r.id, fields |-> r.fields, queue |-> r.queue]
    BY <1>3, <2>4 DEF IsProposal
  <2>12. IsProposal(k, umbrellas, x)
    BY <2>5, <2>9, <2>10, <2>11 DEF IsProposal
  <2> QED BY <2>5, <2>12
<1>7. ASSUME Group(p) PROVE \E x : IsProposal(k, umbrellas, x) /\ proposer' = [proposer EXCEPT ![p] = x]
  <2>1. PICK x : x = [r EXCEPT !.pc = "check", !.todo = Sigs(Snapshot(p))]
    OBVIOUS
  <2>2. proposer' = [proposer EXCEPT ![p] = x] /\ Len(r.seen) = Len(Children)
    BY <1>3, <1>7, <2>1 DEF Group, Proposes
  <2>3. IsProposal(k, umbrellas, x)
    BY <1>3, <2>1, <2>2 DEF IsProposal
  <2> QED BY <2>2, <2>3
<1>8. ASSUME Proposed(p) \/ ProposalDies(p) PROVE \E x : IsProposal(k, umbrellas, x) /\ proposer' = [proposer EXCEPT ![p] = x]
  <2>1. proposer' = [proposer EXCEPT ![p] = IdleProposer]
    BY <1>8 DEF Proposed, ProposalDies, Proposes
  <2> QED BY <2>1, IdleIsFine
<1>9. ASSUME NEW sig \in proposer[p].todo, Check(p, sig)
      PROVE  \E x : IsProposal(k, umbrellas, x) /\ proposer' = [proposer EXCEPT ![p] = x]
  <2>1. PICK saw : saw = Snapshot(p)
    OBVIOUS
  <2>2. PICK y : y = CohortProposal(saw, sig)
    OBVIOUS
  <2>3. r.pc = "check" /\ saw \in Seens(k)
    <3>1. r.pc = "check"
      BY <1>3, <1>9 DEF Check
    <3> QED BY <1>3, <2>1, <3>1, SnapshotIs
  <2>4. CASE Suppressed(y) \/ (Known(sig) /\ umbrellas[sig].state # "provisional")
    <3>1. PICK x : x = [r EXCEPT !.todo = r.todo \ {sig}]
      OBVIOUS
    <3>2. proposer' = [proposer EXCEPT ![p] = x]
      BY <1>3, <1>9, <2>1, <2>2, <2>4, <3>1 DEF Check, Proposes
    <3>3. IsProposal(k, umbrellas, x)
      BY <1>3, <3>1 DEF IsProposal
    <3> QED BY <3>2, <3>3
  <2>5. CASE ~(Suppressed(y) \/ (Known(sig) /\ umbrellas[sig].state # "provisional"))
    <3>1. PICK f, q : f = y.fields /\ q = y.queue
      OBVIOUS
    <3>2. PICK x : x = [r EXCEPT !.pc = "put", !.todo = r.todo \ {sig}, !.id = sig, !.fields = f, !.queue = q]
      OBVIOUS
    <3>3. proposer' = [proposer EXCEPT ![p] = x]
      BY <1>3, <1>9, <2>1, <2>2, <2>5, <3>1, <3>2 DEF Check, Proposes
    <3>4. MayPropose(k, sig, f) /\ IsQueue(k, sig, q)
      BY <2>2, <2>3, <2>5, <3>1, QueueIs
    <3>5. IsProposal(k, umbrellas, x)
      BY ZenonT(40), <1>3, <2>3, <3>2, <3>4 DEF IsProposal
    <3> QED BY <3>3, <3>5
  <2> QED BY <2>4, <2>5
<1> QED BY <1>6, <1>7, <1>8, <1>9

\* What a transform is stored beside stays, and so does what is stored under other names.
LEMMA OneMore ==
    ASSUME NEW k, NEW us, NEW ts, IsProposed(k, us, ts), NEW id \in DOMAIN us, NEW new,
           \A c \in DOMAIN new : MayStore(k, id, c, new[c]), BoundIn(ts, id) \subseteq DOMAIN new
    PROVE  /\ IsProposed(k, us, With(ts, id, new))
           /\ \A x : BoundIn(ts, x) \subseteq BoundIn(With(ts, id, new), x)
BY DEF IsProposed, With, BoundIn

\* An umbrella is put.
LEMMA PutGold ==
    ASSUME GoldInv, NEW p \in Proposers, Put(p)
    PROVE  GoldInv'
<1>1. PICK k : k = renoted /\ k \in Nat
  BY DEF GoldInv
<1>2. PICK r : r = proposer[p] /\ IsProposal(k, umbrellas, r)
  BY <1>1 DEF GoldInv
<1>3. PICK x : x = [r EXCEPT !.pc = "transforms"]
  OBVIOUS
<1>4. /\ r.pc = "put" /\ proposer' = [proposer EXCEPT ![p] = x] /\ transforms' = transforms
      /\ umbrellas' = With(umbrellas, r.id, [state |-> "provisional", fields |-> r.fields])
      /\ UNCHANGED <<notes, renoted, person>>
  BY <1>2, <1>3 DEF Put, Proposes, PutUmbrella
<1>5. IsProposed(k, umbrellas', transforms') /\ DOMAIN umbrellas' = DOMAIN umbrellas \cup {r.id}
  <2>1. IsProposed(k, umbrellas, transforms) /\ MayPropose(k, r.id, r.fields)
    BY <1>1, <1>2, <1>4 DEF GoldInv, IsProposal
  <2> QED BY <1>4, <2>1 DEF IsProposed, With
<1>6. IsProposal(k, umbrellas', x)
  BY <1>2, <1>3, <1>4, <1>5 DEF IsProposal
<1> QED BY <1>1, <1>4, <1>5, <1>6, GoldProposes

\* A transform of the queue is put.
LEMMA PutNextGold ==
    ASSUME GoldInv, NEW p \in Proposers, PutNext(p)
    PROVE  GoldInv'
<1>1. PICK k : k = renoted /\ k \in Nat
  BY DEF GoldInv
<1>2. PICK r : r = proposer[p] /\ IsProposal(k, umbrellas, r)
  BY <1>1 DEF GoldInv
<1>3. PICK q, rest, item : q = r.queue /\ rest = Tail(q) /\ item = Head(q)
  OBVIOUS
<1>4. PICK pc_ : pc_ = IF rest = <<>> THEN "check" ELSE r.pc
  OBVIOUS
<1>5. PICK x : x = [r EXCEPT !.queue = rest, !.pc = pc_]
  OBVIOUS
<1>6. PICK new : new = With(TransformsOf(r.id), item.child, item.t)
  OBVIOUS
<1>7. /\ r.pc = "transforms" /\ proposer' = [proposer EXCEPT ![p] = x] /\ umbrellas' = umbrellas
      /\ transforms' = With(transforms, r.id, new) /\ UNCHANGED <<notes, renoted, person>>
  BY <1>2, <1>3, <1>4, <1>5, <1>6 DEF PutNext, Proposes, PutTransform
<1>8. IsQueue(k, r.id, q) /\ r.id \in DOMAIN umbrellas
  BY <1>2, <1>3, <1>7 DEF IsProposal
<1>9. PICK S : q \in Seq(S) /\ q # <<>>
  BY <1>8 DEF IsQueue
<1>10. MayStore(k, r.id, item.child, item.t)
  <2>1. item = q[1] /\ 1 \in DOMAIN q
    BY <1>3, <1>9
  <2> QED BY <1>8, <2>1 DEF IsQueue
<1>11. rest # <<>> => IsQueue(k, r.id, rest)
  <2>1. rest \in Seq(S) /\ \A j \in DOMAIN rest : j + 1 \in DOMAIN q /\ rest[j] = q[j + 1]
    BY <1>3, <1>9
  <2>2. rest \in Seq({rest[j] : j \in DOMAIN rest})
    BY <2>1, OfItsOwn
  <2> QED BY <1>8, <2>1, <2>2 DEF IsQueue
<1>12. IsProposed(k, umbrellas, transforms)
  BY <1>1 DEF GoldInv
<1>13. \A c \in DOMAIN new : MayStore(k, r.id, c, new[c])
  BY <1>6, <1>10, <1>12 DEF With, TransformsOf, IsProposed
<1>14. BoundIn(transforms, r.id) \subseteq DOMAIN new
  BY <1>6 DEF With, TransformsOf, BoundIn
<1>15. IsProposed(k, umbrellas', transforms') /\ \A id : BoundIn(transforms, id) \subseteq BoundIn(transforms', id)
  BY <1>7, <1>8, <1>12, <1>13, <1>14, OneMore
<1>16. IsProposal(k, umbrellas', x)
  BY <1>2, <1>3, <1>4, <1>5, <1>7, <1>8, <1>11 DEF IsProposal
<1> QED BY <1>1, <1>7, <1>15, <1>16, GoldProposes

\* A decision that writes nothing.
LEMMA QuietDecision ==
    ASSUME UmbrellaTypes, GoldInv, NEW h \in People,
           \/ \E id \in DOMAIN umbrellas : ApproveRead(h, id) \/ RejectRead(h, id)
           \/ \E c \in ChildIds : ApproveGet(h, c) \/ ApproveVerify(h, c)
           \/ ApproveList(h) \/ ApproveListed(h) \/ ApproveRefused(h) \/ ApproveLineage(h) \/ DecisionDies(h)
    PROVE  GoldInv'
<1>1. PICK k : k = renoted /\ k \in Nat
  BY SMTT(30) DEF GoldInv
<1>2. UNCHANGED <<umbrellas, transforms, notes, renoted, proposer>>
  BY DEF ApproveRead, RejectRead, ApproveGet, ApproveVerify, ApproveList, ApproveListed, ApproveRefused,
         ApproveLineage, DecisionDies, Acts, umbrellaStore
<1>3. PICK r : r = person[h] /\ IsApproval(k, umbrellas, transforms, r) /\ IsDecision(r)
  BY <1>1 DEF GoldInv, UmbrellaTypes
<1>4. IsProposed(k, umbrellas, transforms)
  BY <1>1 DEF GoldInv
<1>5. SUFFICES \E y : IsApproval(k, umbrellas, transforms, y) /\ person' = [person EXCEPT ![h] = y]
  BY <1>1, <1>2, <1>4, GoldDecides
<1>6. ASSUME NEW id \in DOMAIN umbrellas, ApproveRead(h, id)
      PROVE  \E y : IsApproval(k, umbrellas, transforms, y) /\ person' = [person EXCEPT ![h] = y]
  <2>1. PICK y : y = [IdlePerson EXCEPT !.pc = "list", !.id = id, !.fields = umbrellas[id].fields]
    OBVIOUS
  <2>2. person' = [person EXCEPT ![h] = y]
    BY <1>6, <2>1 DEF ApproveRead, Acts
  <2>3. y.pc = "list" /\ y.id = id /\ y.fields = umbrellas[id].fields /\ DOMAIN y.bundle = {}
    BY <2>1 DEF IdlePerson
  <2>4. IsApproval(k, umbrellas, transforms, y)
    BY <1>4, <2>3 DEF IsApproval, IsProposed
  <2> QED BY <2>2, <2>4
<1>7. ASSUME NEW id \in DOMAIN umbrellas, RejectRead(h, id)
      PROVE  \E y : IsApproval(k, umbrellas, transforms, y) /\ person' = [person EXCEPT ![h] = y]
  <2>1. PICK y : y = [IdlePerson EXCEPT !.pc = "reject", !.id = id]
    OBVIOUS
  <2>2. person' = [person EXCEPT ![h] = y]
    BY <1>7, <2>1 DEF RejectRead, Acts
  <2>3. y.pc = "reject" /\ DOMAIN y.bundle = {}
    BY <2>1 DEF IdlePerson
  <2> QED BY <2>2, <2>3 DEF IsApproval
<1>8. ASSUME NEW c \in ChildIds, ApproveGet(h, c)
      PROVE  \E y : IsApproval(k, umbrellas, transforms, y) /\ person' = [person EXCEPT ![h] = y]
  <2>1. PICK t, b : t = TransformsOf(r.id)[c] /\ b = With(r.bundle, c, t)
    OBVIOUS
  <2>2. PICK y : y = [r EXCEPT !.todo = r.todo \ {c}, !.bundle = b]
    OBVIOUS
  <2>3. person' = [person EXCEPT ![h] = y] /\ r.pc = "get" /\ c \in r.todo
    BY <1>3, <1>8, <2>1, <2>2 DEF ApproveGet, Acts
  <2>4. y.pc = "get" /\ y.id = r.id /\ y.fields = r.fields /\ y.bundle = b /\ y.todo = r.todo \ {c}
    BY <1>3, <2>2, <2>3 DEF IsDecision
  <2>5. MayStore(k, r.id, c, t)
    BY <1>3, <1>4, <2>1, <2>3 DEF IsApproval, BoundIn, TransformsOf, IsProposed
  <2>6. \A d \in DOMAIN b : MayStore(k, r.id, d, b[d])
    BY <1>3, <2>1, <2>5 DEF With, IsApproval
  <2>7. IsApproval(k, umbrellas, transforms, y)
    BY <1>3, <2>3, <2>4, <2>6 DEF IsApproval
  <2> QED BY <2>3, <2>7
<1>9. ASSUME NEW c \in ChildIds, ApproveVerify(h, c)
      PROVE  \E y : IsApproval(k, umbrellas, transforms, y) /\ person' = [person EXCEPT ![h] = y]
  <2>1. PICK b : b = (r.sound /\ VerifyStatic(r.bundle[c], r.fields, FieldsNow(c)) = {})
    OBVIOUS
  <2>2. PICK y : y = [r EXCEPT !.todo = r.todo \ {c}, !.sound = b]
    OBVIOUS
  <2>3. person' = [person EXCEPT ![h] = y] /\ r.pc = "verify"
    BY <1>3, <1>9, <2>1, <2>2 DEF ApproveVerify, Acts
  <2>4. y.pc = "verify" /\ y.id = r.id /\ y.fields = r.fields /\ y.bundle = r.bundle
    BY <1>3, <2>2, <2>3 DEF IsDecision
  <2> QED BY <1>3, <2>3, <2>4 DEF IsApproval
<1>10. ASSUME ApproveList(h) PROVE \E y : IsApproval(k, umbrellas, transforms, y) /\ person' = [person EXCEPT ![h] = y]
  <2>1. PICK y : y = [r EXCEPT !.pc = "get", !.todo = DOMAIN TransformsOf(r.id)]
    OBVIOUS
  <2>2. person' = [person EXCEPT ![h] = y] /\ r.pc = "list"
    BY <1>3, <1>10, <2>1 DEF ApproveList, Acts
  <2>3. y.pc = "get" /\ y.id = r.id /\ y.fields = r.fields /\ y.bundle = r.bundle /\ y.todo = DOMAIN TransformsOf(r.id)
    BY <1>3, <2>1 DEF IsDecision
  <2>4. y.todo \subseteq BoundIn(transforms, y.id)
    BY <2>3 DEF TransformsOf, BoundIn
  <2> QED BY <1>3, <2>2, <2>3, <2>4 DEF IsApproval
<1>11. ASSUME ApproveListed(h) PROVE \E y : IsApproval(k, umbrellas, transforms, y) /\ person' = [person EXCEPT ![h] = y]
  <2>1. PICK y : y = [r EXCEPT !.pc = "verify", !.todo = DOMAIN r.bundle]
    OBVIOUS
  <2>2. person' = [person EXCEPT ![h] = y] /\ r.pc = "get"
    BY <1>3, <1>11, <2>1 DEF ApproveListed, Acts
  <2>3. y.pc = "verify" /\ y.id = r.id /\ y.fields = r.fields /\ y.bundle = r.bundle
    BY <1>3, <2>1 DEF IsDecision
  <2> QED BY <1>3, <2>2, <2>3 DEF IsApproval
<1>12. ASSUME ApproveRefused(h) \/ ApproveLineage(h) \/ DecisionDies(h)
       PROVE  \E y : IsApproval(k, umbrellas, transforms, y) /\ person' = [person EXCEPT ![h] = y]
  <2>1. person' = [person EXCEPT ![h] = IdlePerson]
    BY <1>12 DEF ApproveRefused, ApproveLineage, DecisionDies, Acts
  <2> QED BY <2>1, IdleIsFine
<1> QED BY <1>6, <1>7, <1>8, <1>9, <1>10, <1>11, <1>12

\* An umbrella is approved, with the transforms that were read.
LEMMA PromoteGold ==
    ASSUME UmbrellaTypes, GoldInv, NEW h \in People, ApprovePromote(h)
    PROVE  GoldInv'
<1>1. PICK k : k = renoted /\ k \in Nat
  BY DEF GoldInv
<1>2. PICK r : r = person[h] /\ IsApproval(k, umbrellas, transforms, r) /\ IsDecision(r)
  BY <1>1 DEF GoldInv, UmbrellaTypes
<1>3. PICK y : y = [r EXCEPT !.pc = "lineage"]
  OBVIOUS
<1>4. PICK old : old = TransformsOf(r.id)
  OBVIOUS
<1>5. PICK new : new = [c \in DOMAIN old \cup DOMAIN r.bundle |-> IF c \in DOMAIN r.bundle THEN r.bundle[c] ELSE old[c]]
  OBVIOUS
<1>6. /\ r.pc = "verify" /\ person' = [person EXCEPT ![h] = y]
      /\ umbrellas' = With(umbrellas, r.id, [state |-> "active", fields |-> r.fields])
      /\ transforms' = With(transforms, r.id, new) /\ UNCHANGED <<notes, renoted, proposer>>
  BY <1>2, <1>3, <1>4, <1>5 DEF ApprovePromote, PromoteBundle, PutUmbrella, Acts
<1>7. IsProposed(k, umbrellas, transforms)
  BY <1>1 DEF GoldInv
<1>8. IsProposed(k, umbrellas', transforms) /\ DOMAIN umbrellas' = DOMAIN umbrellas \cup {r.id}
  <2>1. MayPropose(k, r.id, r.fields)
    BY <1>2, <1>6 DEF IsApproval
  <2> QED BY <1>6, <1>7, <2>1 DEF IsProposed, With
<1>9. \A c \in DOMAIN new : MayStore(k, r.id, c, new[c])
  <2>1. \A c \in DOMAIN old : MayStore(k, r.id, c, old[c])
    BY <1>4, <1>7 DEF TransformsOf, IsProposed
  <2> QED BY <1>2, <1>5, <2>1 DEF IsApproval
<1>10. BoundIn(transforms, r.id) \subseteq DOMAIN new
  BY <1>4, <1>5 DEF TransformsOf, BoundIn
<1>11. IsProposed(k, umbrellas', transforms') /\ \A id : BoundIn(transforms, id) \subseteq BoundIn(transforms', id)
  BY <1>6, <1>8, <1>9, <1>10, OneMore
<1>12. IsApproval(k, umbrellas', transforms', y)
  <2>1. y.pc = "lineage" /\ y.id = r.id /\ y.fields = r.fields /\ y.bundle = r.bundle
    BY <1>2, <1>3 DEF IsDecision
  <2> QED BY <1>2, <1>6, <1>8, <2>1 DEF IsApproval
<1> QED BY <1>1, <1>6, <1>8, <1>11, <1>12, GoldDecides

\* An umbrella is rejected.
LEMMA RejectGold ==
    ASSUME UmbrellaTypes, GoldInv, NEW h \in People, RejectSet(h)
    PROVE  GoldInv'
<1>1. PICK k : k = renoted /\ k \in Nat
  BY DEF GoldInv
<1>2. PICK id : id = person[h].id
  OBVIOUS
<1>3. /\ person' = [person EXCEPT ![h] = IdlePerson] /\ transforms' = transforms
      /\ umbrellas' = [umbrellas EXCEPT ![id].state = "rejected"] /\ UNCHANGED <<notes, renoted, proposer>>
  BY <1>2 DEF RejectSet, SetState, Acts
<1>4. IsProposed(k, umbrellas, transforms)
  BY <1>1 DEF GoldInv
<1>5. DOMAIN umbrellas' = DOMAIN umbrellas /\ \A x \in DOMAIN umbrellas : umbrellas'[x].fields = umbrellas[x].fields
  BY <1>3 DEF UmbrellaTypes, IsUmbrella
<1>6. IsProposed(k, umbrellas', transforms')
  BY <1>3, <1>4, <1>5 DEF IsProposed
<1> QED BY <1>1, <1>3, <1>5, <1>6, IdleIsFine, GoldDecides

\* The invariant holds, however proposals, decisions and re-annotations interleave.
LEMMA GoldAlways ==
    ASSUME TypesAgree
    PROVE  UmbrellaSpec => []GoldInv
<1>1. UmbrellaInit => GoldInv
  <2> SUFFICES ASSUME UmbrellaInit PROVE GoldInv
    OBVIOUS
  <2>1. renoted = 0 /\ NotesAre(renoted, notes)
    BY CfidAssumption DEF UmbrellaInit, NotesAre, NotesAt, ChildIds
  <2>2. IsProposed(renoted, umbrellas, transforms)
    BY DEF UmbrellaInit, IsProposed
  <2> QED BY <2>1, <2>2, IdleIsFine DEF UmbrellaInit, GoldInv
<1>2. UmbrellaTypes /\ GoldInv /\ [UmbrellaNext]_umbrellaVars => GoldInv'
  <2> SUFFICES ASSUME UmbrellaTypes, GoldInv, [UmbrellaNext]_umbrellaVars PROVE GoldInv'
    OBVIOUS
  <2>1. CASE UNCHANGED umbrellaVars
    BY <2>1 DEF umbrellaVars, GoldInv
  <2>2. ASSUME NEW c \in ChildIds, NEW n \in Notes[c], Annotate(c, n) PROVE GoldInv'
    BY <2>2, AnnotateGold
  <2>3. ASSUME NEW p \in Proposers, Propose(p) \/ ProposalDies(p) PROVE GoldInv'
    BY <2>3, QuietProposal, PutGold, PutNextGold DEF Propose
  <2>4. ASSUME NEW h \in People, Decide(h) \/ DecisionDies(h) PROVE GoldInv'
    BY <2>4, QuietDecision, PromoteGold, RejectGold DEF Decide
  <2> QED BY <2>1, <2>2, <2>3, <2>4 DEF UmbrellaNext
<1> QED BY <1>1, <1>2, UmbrellaInvariant, PTL DEF UmbrellaSpec

\* Whatever transform is stored, by whichever proposal or approval, every gold event it
\* makes of an event of its child is one of the stored umbrella; and as long as no annotation
\* changes it states the quantity the child's event stated.
THEOREM GoldHolds ==
    ASSUME PathsApart, TypesAgree
    PROVE  UmbrellaSpec => []GoldIsSound
<1>1. GoldInv => GoldIsSound
  <2> SUFFICES ASSUME GoldInv PROVE GoldIsSound
    OBVIOUS
  <2>1. PICK k \in Nat : k = renoted
    BY DEF GoldInv
  <2>2. /\ \A id \in DOMAIN umbrellas : MayPropose(k, id, umbrellas[id].fields)
        /\ DOMAIN transforms \subseteq DOMAIN umbrellas
        /\ \A id \in DOMAIN transforms : \A c \in DOMAIN transforms[id] : MayStore(k, id, c, transforms[id][c])
    BY <2>1 DEF GoldInv, IsProposed
  <2>3. ASSUME NEW id \in DOMAIN transforms, NEW c \in DOMAIN transforms[id], NEW e \in EventsOf(c),
               NEW gold \in Apply(transforms[id][c], e)
        PROVE  ValidateGold(umbrellas[id].fields, gold)
    <3>1. PICK t, put : t = transforms[id][c] /\ put = umbrellas[id].fields
      OBVIOUS
    <3>2. MayStore(k, id, c, t) /\ MayPropose(k, id, put)
      BY <2>2, <3>1
    <3> QED BY <3>1, <3>2, StoredIsSound
  <2>4. GoldIsWellFormed
    BY <2>3 DEF GoldIsWellFormed
  <2>5. ASSUME renoted = 0, NEW id \in DOMAIN transforms, NEW c \in DOMAIN transforms[id], NEW e \in EventsOf(c),
               NEW gold \in Apply(transforms[id][c], e), NEW i \in DOMAIN transforms[id][c].bindings,
               NEW child \in FieldAt(FieldsNow(c), transforms[id][c].bindings[i].source),
               NEW uf \in FieldAt(umbrellas[id].fields, transforms[id][c].bindings[i].target),
               transforms[id][c].bindings[i].source \in DOMAIN e, uf.unit # NoUnit
        PROVE  LET from == Quantity(child.unit, e[transforms[id][c].bindings[i].source].n)
                   to == Quantity(uf.unit, gold[transforms[id][c].bindings[i].target].n)
               IN from[1] * to[2] = to[1] * from[2]
    <3>1. PICK t, put : t = transforms[id][c] /\ put = umbrellas[id].fields
      OBVIOUS
    <3>2. PICK bs : bs = t.bindings
      OBVIOUS
    <3>3. PICK from, to : /\ from = Quantity(child.unit, e[bs[i].source].n)
                          /\ to = Quantity(uf.unit, gold[bs[i].target].n)
      OBVIOUS
    <3>4. MayStore(0, id, c, t) /\ MayPropose(0, id, put)
      BY <2>1, <2>2, <2>5, <3>1
    <3>5. notes[c] = FirstNote[c]
      <4>1. c \in ChildIds
        BY <3>4, StoredIs
      <4> QED BY <2>5, <4>1 DEF GoldInv, NotesAre, NotesAt
    <3>6. from[1] * to[2] = to[1] * from[2]
      BY <2>5, <3>1, <3>2, <3>3, <3>4, <3>5, StoredKeepsQuantity
    <3> QED BY <3>1, <3>2, <3>3, <3>6, Zenon
  <2>6. GoldIsInUnits
    BY <2>5 DEF GoldIsInUnits
  <2> QED BY <2>4, <2>6 DEF GoldIsSound
<1>2. UmbrellaSpec => []GoldInv
  BY GoldAlways
<1> QED BY <1>1, <1>2, PTL

=============================================================================
