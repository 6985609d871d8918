------------------------------ MODULE Discovery ------------------------------
(***************************************************************************)
(* The cold lane: the discovery consumer folds tagged-as-provisional records*)
(* into candidates, promoters publish candidates as schemas, an operator    *)
(* rejects candidates or rebuilds their listing, and Redis expires them.    *)
(*                                                                          *)
(*   deblob/src/discovery_consumer.rs  run, handle_discovery_msg            *)
(*   deblob/src/coldlane.rs            ColdLane::ingest                     *)
(*   deblob/src/policy.rs              PromotionPolicy, Promoter::promote   *)
(*   deblob/src/auto_promote.rs        the sweep (a promoter)               *)
(*   deblob/src/api/candidates.rs      promote, reject, reindex             *)
(*   deblob-redis/src/evidence.rs      RedisEvidence                        *)
(*                                                                          *)
(* Every await on Redis is a step of its own; a Lua script and an atomic    *)
(* pipeline are one step.  There is one consumer, so ingests are serial;    *)
(* everything else runs beside it.                                          *)
(*                                                                          *)
(* A record's shape is its set of top-level fields; the fields are ordered  *)
(* as the keys of a BTreeMap are.  A profile is the set of shapes merged    *)
(* into it.  A field is required when every merged record had it.           *)
(***************************************************************************)
EXTENDS Naturals, Sequences, FiniteSets

CONSTANTS
    Log,          \* the discovery topic: <<[source, shape], ...>>; a shape of
                  \* {} stands for a payload that fails the bounded parse
    Families,
    Promoters,    \* concurrent calls of promote (the API's and the sweep's)
    MinSamples,   \* PromotionPolicy.min_samples
    CommitEvery,  \* COMMIT_EVERY
    MaxFaults,    \* bound: failed store calls, restarts, degraded probes
    MaxExpiries,  \* bound: keys that reach their TTL
    MaxReindexes, \* bound: runs of rebuild_candidate_index
    MaxRejects,   \* bound: calls of reject
    MaxEvents     \* bound: all of these together

ASSUME DiscoveryAssumption ==
    /\ Log \in Seq([source : STRING, shape : SUBSET Nat])
    /\ MinSamples \in Nat /\ CommitEvery \in Nat \ {0}
    /\ MaxFaults \in Nat /\ MaxExpiries \in Nat /\ MaxReindexes \in Nat
    /\ MaxRejects \in Nat /\ MaxEvents \in Nat

VARIABLES
    \* RedisEvidence
    cand,       \* deblob:candidate:<id> hashes, keyed by the ids that exist
    listed,     \* deblob:candidates:<state> sets
    cluster,    \* deblob:cluster:<source>:<gen fp>
    variants,   \* deblob:variants:<id>
    \* the vault (see Vault)
    schemas, published, versions, alias, index, listing, healthy,
    \* the discovery consumer
    position,   \* the message being handled
    committed,  \* the group's committed position
    sinceCommit,
    step,       \* how far the handling of the message is
    ingest,     \* locals of ColdLane::ingest: target and the record read
    toAlias,    \* cluster keys still to be set
    handled,    \* messages whose handling returned Ok (history)
    \* promotions, state changes and listings under way
    promo,      \* by promoter: the promotion's step and locals
    mirrors,    \* <<id, state>>: set_state done, its listing update to come
    stale,      \* <<state, id>>: list_candidates found no hash, SREM to come
    reindex,    \* the running rebuild_candidate_index
    budget      \* what is left of the bounds

consumer == <<position, committed, sinceCommit, step, ingest, toAlias, handled>>
evidence == <<cand, listed, cluster, variants>>
vault == <<schemas, published, versions, alias, index, listing>>
vars == <<evidence, vault, healthy, consumer, promo, mirrors, stale, reindex, budget>>

-----------------------------------------------------------------------------
(* Shapes, profiles and identities.                                         *)

States == {"provisional", "staged", "rejected"}
Messages == {Log[i] : i \in 1..Len(Log)}
Wellformed == {m \in Messages : m.shape # {}}
ShapeSets == {m.shape : m \in Wellformed}

\* CandidateId::from_source_and_digest of a record.
CandId(m) == <<m.source, m.shape>>
CandIds == {CandId(m) : m \in Wellformed}

\* fingerprint of one record's shape, and generalized_fingerprint of a profile.
Raw(shape) == <<"raw", shape>>
Generalized(profile) ==
    LET all == UNION profile
    IN  <<"gen", all, {f \in all : \A s \in profile : f \in s}>>

RawShapes == {Raw(s) : s \in ShapeSets}
SchemaIds == {Generalized(p) : p \in (SUBSET ShapeSets) \ {{}}}

MinField(fs) == CHOOSE f \in fs : \A g \in fs : f <= g
\* The shape less each of fs in turn, in key order.
DropOneOf[fs \in SUBSET (UNION ShapeSets)] ==
    [shape \in ShapeSets |->
        IF fs = {} THEN <<>>
        ELSE LET f == MinField(fs)
             IN  <<shape \ {f}>> \o DropOneOf[fs \ {f}][shape]]

\* reduced_generalized_fps: the record's own shape, then, when it has two
\* fields or more, what is left of it without each one.
ReducedFps(shape) ==
    <<shape>> \o (IF Cardinality(shape) >= 2 THEN DropOneOf[shape][shape] ELSE <<>>)

\* Redis as a partial map.
Put(m, k, v) == [x \in DOMAIN m \union {k} |-> IF x = k THEN v ELSE m[x]]
Without(m, k) == [x \in DOMAIN m \ {k} |-> m[x]]

NoRecord == [profile |-> {}, count |-> 0, state |-> "provisional", seen |-> {}]
IdlePromo == [step |-> "idle", id |-> <<>>, record |-> NoRecord, request |-> <<>>]
IdleReindex == [step |-> "idle", toDrop |-> {}, toScan |-> {}, found |-> {}]

\* The promotions between publish's gate check and its script are the calls
\* in flight of the vault.
InFlight == {p \in Promoters : promo[p].step = "publish"}

V == INSTANCE Vault WITH
        Shapes <- RawShapes, Schemas <- SchemaIds,
        Canonicalizers <- {"monoid"}, Candidates <- CandIds,
        Buckets <- {"b"}, BucketOf <- [x \in RawShapes \union SchemaIds |-> "b"],
        Publishers <- Promoters, Rebuilders <- {},
        calls <- [p \in InFlight |-> promo[p].request],
        pc <- <<>>, toDrop <- <<>>, toScan <- <<>>, current <- <<>>, toAdd <- <<>>

Init ==
    /\ cand = [c \in {} |-> NoRecord]
    /\ listed = [s \in States |-> {}]
    /\ cluster = [k \in {} |-> <<>>]
    /\ variants = [c \in CandIds |-> {}]
    /\ schemas = [s \in {} |-> {}]
    /\ published = [s \in {} |-> 0]
    /\ versions = [f \in Families |-> <<>>]
    /\ alias = [c \in {} |-> {}]
    /\ index = {}
    /\ listing = {}
    /\ healthy = TRUE
    /\ position = 1
    /\ committed = 1
    /\ sinceCommit = 0
    /\ step = "lookup"
    /\ ingest = [target |-> <<>>, record |-> NoRecord]
    /\ toAlias = <<>>
    /\ handled = {}
    /\ promo = [p \in Promoters |-> IdlePromo]
    /\ mirrors = {}
    /\ stale = {}
    /\ reindex = IdleReindex
    /\ budget = [faults |-> MaxFaults, expiries |-> MaxExpiries,
                 reindexes |-> MaxReindexes, rejects |-> MaxRejects,
                 events |-> MaxEvents]

Spend(b) ==
    /\ budget[b] > 0 /\ budget.events > 0
    /\ budget' = [budget EXCEPT ![b] = @ - 1, !.events = @ - 1]

-----------------------------------------------------------------------------
(* The discovery consumer.                                                  *)

Message == Log[position]
Handling == position <= Len(Log)

\* A payload that cannot be parsed is skipped and its offset advances.
SkipMalformed ==
    /\ Handling /\ step = "lookup"
    /\ Message.shape = {}
    /\ step' = "ack"
    /\ handled' = handled \union {position}
    /\ UNCHANGED <<evidence, vault, healthy, position, committed, sinceCommit, ingest, toAlias,
                   promo, mirrors, stale, reindex, budget>>

\* get_cluster for each key in turn, up to the first hit.
ClusterTarget(m) ==
    LET keys == ReducedFps(m.shape)
        hits == {i \in 1..Len(keys) : <<m.source, keys[i]>> \in DOMAIN cluster}
    IN  IF hits = {} THEN CandId(m)
        ELSE cluster[<<m.source, keys[MinField(hits)]>>]

LookUp ==
    /\ Handling /\ step = "lookup"
    /\ Message.shape # {}
    /\ ingest' = [ingest EXCEPT !.target = ClusterTarget(Message)]
    /\ step' = "read"
    /\ UNCHANGED <<evidence, vault, healthy, position, committed, sinceCommit, toAlias, handled,
                   promo, mirrors, stale, reindex, budget>>

\* Mutation: a rate-limited message is retried like a failed one.
Bug_ReadCandidate ==
    /\ step = "read"
    /\ IF ingest.target \in DOMAIN cand
         THEN /\ ingest' = [ingest EXCEPT !.record = cand[ingest.target]]
              /\ step' = "upsert"
         ELSE /\ ingest' = [ingest EXCEPT !.record = NoRecord]
              /\ step' \in {"upsert", "lookup"}
    /\ UNCHANGED <<evidence, vault, healthy, position, committed, sinceCommit, toAlias, handled,
                   promo, mirrors, stale, reindex, budget>>

\* get_candidate; only a brand-new candidate counts against the rate limit.
ReadCandidate ==
    /\ step = "read"
    /\ IF ingest.target \in DOMAIN cand
         THEN /\ ingest' = [ingest EXCEPT !.record = cand[ingest.target]]
              /\ step' = "upsert"
              /\ UNCHANGED handled
         ELSE \/ /\ ingest' = [ingest EXCEPT !.record = NoRecord]
                 /\ step' = "upsert"
                 /\ UNCHANGED handled
              \/ /\ step' = "ack"       \* RateLimited
                 /\ handled' = handled \union {position}
                 /\ UNCHANGED ingest
    /\ UNCHANGED <<evidence, vault, healthy, position, committed, sinceCommit, toAlias,
                   promo, mirrors, stale, reindex, budget>>

\* Mutation: the observation replaces the stored profile.
Bug_Merged ==
    [profile |-> {Message.shape},
     count   |-> ingest.record.count + 1,
     state   |-> ingest.record.state,
     seen    |-> ingest.record.seen \union {position}]

\* The record to write: the one read with this observation merged in.  `seen`
\* is history: the distinct messages that were counted.
Merged ==
    [profile |-> ingest.record.profile \union {Message.shape},
     count   |-> ingest.record.count + 1,
     state   |-> ingest.record.state,
     seen    |-> ingest.record.seen \union {position}]

\* upsert_candidate: HSET, EXPIRE and SADD in one transaction.
Upsert ==
    /\ step = "upsert"
    /\ cand' = Put(cand, ingest.target, Merged)
    /\ listed' = [listed EXCEPT ![Merged.state] = @ \union {ingest.target}]
    /\ toAlias' = ReducedFps(Message.shape)
    /\ ingest' = [ingest EXCEPT !.record = NoRecord]
    /\ step' = "cluster"
    /\ UNCHANGED <<cluster, variants, vault, healthy, position, committed, sinceCommit,
                   handled, promo, mirrors, stale, reindex, budget>>

SetCluster ==
    /\ step = "cluster"
    /\ toAlias # <<>>
    /\ cluster' = Put(cluster, <<Message.source, Head(toAlias)>>, ingest.target)
    /\ toAlias' = Tail(toAlias)
    /\ UNCHANGED <<cand, listed, variants, vault, healthy, position, committed, sinceCommit,
                   step, ingest, handled, promo, mirrors, stale, reindex, budget>>

AddVariant ==
    /\ step = "cluster"
    /\ toAlias = <<>>
    /\ variants' = [variants EXCEPT ![ingest.target] = @ \union {Raw(Message.shape)}]
    /\ step' = "evidence"
    /\ UNCHANGED <<cand, listed, cluster, vault, healthy, position, committed, sinceCommit,
                   ingest, toAlias, handled, promo, mirrors, stale, reindex, budget>>

AppendEvidence ==
    /\ step = "evidence"
    /\ handled' = handled \union {position}
    /\ step' = "ack"
    /\ UNCHANGED <<evidence, vault, healthy, position, committed, sinceCommit, ingest, toAlias,
                   promo, mirrors, stale, reindex, budget>>

\* The offset advances; every CommitEvery messages it is committed, which may
\* fail without anyone noticing.
Ack ==
    /\ step = "ack"
    /\ position' = position + 1
    /\ step' = "lookup"
    /\ ingest' = [target |-> <<>>, record |-> NoRecord]
    /\ IF sinceCommit + 1 >= CommitEvery
         THEN sinceCommit' = 0 /\ committed' \in {committed, position + 1}
         ELSE sinceCommit' = sinceCommit + 1 /\ UNCHANGED committed
    /\ UNCHANGED <<evidence, vault, healthy, toAlias, handled,
                   promo, mirrors, stale, reindex, budget>>

\* Mutation: the offset advances past a failed write.
Bug_IngestFails ==
    /\ step \notin {"lookup", "ack", "failed"}
    /\ Spend("faults")
    /\ step' = "ack"
    /\ toAlias' = <<>>
    /\ UNCHANGED <<evidence, vault, healthy, position, committed, sinceCommit, ingest, handled,
                   promo, mirrors, stale, reindex>>

\* A store call fails, or its reply is lost after it took effect: the message
\* is handled again from the start, its offset held.
IngestFails ==
    /\ step \notin {"lookup", "ack", "failed"}
    /\ Spend("faults")
    /\ step' = "lookup"
    /\ ingest' = [target |-> <<>>, record |-> NoRecord]
    /\ toAlias' = <<>>
    /\ UNCHANGED <<evidence, vault, healthy, position, committed, sinceCommit, handled,
                   promo, mirrors, stale, reindex>>

\* consumer.recv() fails and run() returns, which serve() does not notice
\* before it is shut down.
ConsumerFails ==
    /\ step = "lookup"
    /\ Spend("faults")
    /\ step' = "failed"
    /\ UNCHANGED <<evidence, vault, healthy, position, committed, sinceCommit, ingest, toAlias,
                   handled, promo, mirrors, stale, reindex>>

\* The process dies, or is shut down between two messages (which first commits
\* what is pending), and resumes from the committed offset.
Restart ==
    /\ IF step = "failed" THEN UNCHANGED budget ELSE Spend("faults")
    /\ committed' \in {committed} \union
                      (IF step = "lookup" /\ sinceCommit > 0 THEN {position} ELSE {})
    /\ position' = committed'
    /\ sinceCommit' = 0
    /\ step' = "lookup"
    /\ ingest' = [target |-> <<>>, record |-> NoRecord]
    /\ toAlias' = <<>>
    /\ UNCHANGED <<evidence, vault, healthy, handled, promo, mirrors, stale, reindex>>

Consume == SkipMalformed \/ LookUp \/ ReadCandidate \/ Upsert \/ SetCluster
             \/ AddVariant \/ AppendEvidence \/ Ack

-----------------------------------------------------------------------------
(* Promotion.                                                               *)

\* PromotionPolicy::check.  Age is not tracked: min_age_ms may always have
\* passed.
PolicyAllows(record) == record.count >= MinSamples

\* get_candidate, the state guard and the policy.
PromoteRead(p, c) ==
    /\ promo[p].step = "idle"
    /\ c \in DOMAIN cand
    /\ cand[c].state = "provisional"
    /\ PolicyAllows(cand[c])
    /\ promo' = [promo EXCEPT ![p] = [IdlePromo EXCEPT !.step = "variants", !.id = c,
                                                       !.record = cand[c]]]
    /\ UNCHANGED <<evidence, vault, healthy, consumer, mirrors, stale, reindex, budget>>

PublishRequest(p, f) ==
    [schema |-> Generalized(promo[p].record.profile), canonicalizer |-> "monoid",
     family |-> f, alias_from |-> promo[p].id, variants |-> variants[promo[p].id]]

\* Mutation: the gate is not consulted.
Bug_PromoteCall(p, f) ==
    /\ promo[p].step = "variants"
    /\ promo' = [promo EXCEPT ![p].step = "publish", ![p].request = PublishRequest(p, f)]
    /\ UNCHANGED <<evidence, vault, healthy, consumer, mirrors, stale, reindex, budget>>

\* get_variants, then publish's gate check.
PromoteCall(p, f) ==
    /\ promo[p].step = "variants"
    /\ healthy
    /\ promo' = [promo EXCEPT ![p].step = "publish", ![p].request = PublishRequest(p, f)]
    /\ UNCHANGED <<evidence, vault, healthy, consumer, mirrors, stale, reindex, budget>>

\* The publish script: a schema, or a refusal that ends the promotion.
PromotePublish(p) ==
    /\ promo[p].step = "publish"
    /\ \/ /\ V!PublishScript(promo[p].request)
          /\ promo' = [promo EXCEPT ![p].step = "stage"]
       \/ /\ V!PublishRefused(promo[p].request)
          /\ promo' = [promo EXCEPT ![p] = IdlePromo]
    /\ UNCHANGED <<evidence, healthy, consumer, mirrors, stale, reindex, budget>>

\* SET_STATE_SCRIPT: refused when the hash is gone or rejected.
SetState(c, s) ==
    IF c \in DOMAIN cand /\ cand[c].state # "rejected"
      THEN /\ cand' = [cand EXCEPT ![c].state = s]
           /\ mirrors' = mirrors \union {<<c, s>>}
      ELSE UNCHANGED <<cand, mirrors>>

\* set_state(Staged), best effort.
PromoteStage(p) ==
    /\ promo[p].step = "stage"
    /\ SetState(promo[p].id, "staged")
    /\ promo' = [promo EXCEPT ![p] = IdlePromo]
    /\ UNCHANGED <<listed, cluster, variants, vault, healthy, consumer, stale, reindex, budget>>

\* Mutation: publish's error is swallowed.
Bug_PromoteFails(p) ==
    /\ promo[p].step # "idle"
    /\ \/ promo[p].step = "variants" /\ ~healthy /\ UNCHANGED budget
       \/ Spend("faults")
    /\ promo' = [promo EXCEPT ![p].step = "stage"]
    /\ UNCHANGED <<evidence, vault, healthy, consumer, mirrors, stale, reindex>>

\* A degraded gate, an error, a lost reply or a crash ends the promotion where
\* it is.
PromoteFails(p) ==
    /\ promo[p].step # "idle"
    /\ \/ promo[p].step = "variants" /\ ~healthy /\ UNCHANGED budget
       \/ Spend("faults")
    /\ promo' = [promo EXCEPT ![p] = IdlePromo]
    /\ UNCHANGED <<evidence, vault, healthy, consumer, mirrors, stale, reindex>>

\* The health probe finds persistence broken, or mended.
Probe ==
    /\ healthy' = ~healthy
    /\ IF healthy THEN Spend("faults") ELSE UNCHANGED budget
    /\ UNCHANGED <<evidence, vault, consumer, promo, mirrors, stale, reindex>>

-----------------------------------------------------------------------------
(* Rejection, and the listing of candidates by state.                       *)

Reject(c) ==
    /\ Spend("rejects")
    /\ c \in DOMAIN cand
    /\ SetState(c, "rejected")
    /\ UNCHANGED <<listed, cluster, variants, vault, healthy, consumer, promo, stale, reindex>>

\* The listing half of set_state: one transaction, after the script.
Mirror(c, s) ==
    /\ <<c, s>> \in mirrors
    /\ listed' = [t \in States |-> IF t = s THEN listed[t] \union {c} ELSE listed[t] \ {c}]
    /\ mirrors' = mirrors \ {<<c, s>>}
    /\ UNCHANGED <<cand, cluster, variants, vault, healthy, consumer, promo, stale, reindex, budget>>

MirrorLost(c, s) ==
    /\ <<c, s>> \in mirrors
    /\ Spend("faults")
    /\ mirrors' = mirrors \ {<<c, s>>}
    /\ UNCHANGED <<evidence, vault, healthy, consumer, promo, stale, reindex>>

\* list_candidates meets an id whose hash has expired, and removes it later.
ListStale(s, c) ==
    /\ c \in listed[s] \ DOMAIN cand
    /\ <<s, c>> \notin stale
    /\ stale' = stale \union {<<s, c>>}
    /\ UNCHANGED <<evidence, vault, healthy, consumer, promo, mirrors, reindex, budget>>

RemoveStale(s, c) ==
    /\ <<s, c>> \in stale
    /\ listed' = [listed EXCEPT ![s] = @ \ {c}]
    /\ stale' = stale \ {<<s, c>>}
    /\ UNCHANGED <<cand, cluster, variants, vault, healthy, consumer, promo, mirrors, reindex, budget>>

ReindexStart ==
    /\ reindex.step = "idle"
    /\ Spend("reindexes")
    /\ reindex' = [reindex EXCEPT !.step = "drop", !.toDrop = States]
    /\ UNCHANGED <<evidence, vault, healthy, consumer, promo, mirrors, stale>>

\* Mutation: the ids to restore are taken from the listings.
Bug_ReindexDrop(s) ==
    /\ reindex.step = "drop"
    /\ s \in reindex.toDrop
    /\ listed' = [listed EXCEPT ![s] = {}]
    /\ reindex' = IF reindex.toDrop = {s}
                    THEN [reindex EXCEPT !.step = "scan", !.toDrop = {},
                                         !.toScan = UNION {listed[t] : t \in States}]
                    ELSE [reindex EXCEPT !.toDrop = @ \ {s}]
    /\ UNCHANGED <<cand, cluster, variants, vault, healthy, consumer, promo, mirrors, stale, budget>>

\* One DEL per state; the scan starts after the last.
ReindexDrop(s) ==
    /\ reindex.step = "drop"
    /\ s \in reindex.toDrop
    /\ listed' = [listed EXCEPT ![s] = {}]
    /\ reindex' = IF reindex.toDrop = {s}
                    THEN [reindex EXCEPT !.step = "scan", !.toDrop = {}, !.toScan = DOMAIN cand]
                    ELSE [reindex EXCEPT !.toDrop = @ \ {s}]
    /\ UNCHANGED <<cand, cluster, variants, vault, healthy, consumer, promo, mirrors, stale, budget>>

\* HGET state of a scanned key; SADD is the next round trip.
ReindexRead(c) ==
    /\ reindex.step = "scan"
    /\ reindex.found = {}
    /\ c \in reindex.toScan \union DOMAIN cand
    /\ reindex' = [reindex EXCEPT
                     !.toScan = @ \ {c},
                     !.found = IF c \in DOMAIN cand THEN {<<c, cand[c].state>>} ELSE {}]
    /\ UNCHANGED <<evidence, vault, healthy, consumer, promo, mirrors, stale, budget>>

ReindexAdd(c, s) ==
    /\ <<c, s>> \in reindex.found
    /\ listed' = [listed EXCEPT ![s] = @ \union {c}]
    /\ reindex' = [reindex EXCEPT !.found = {}]
    /\ UNCHANGED <<cand, cluster, variants, vault, healthy, consumer, promo, mirrors, stale, budget>>

ReindexDone ==
    /\ reindex.step = "scan"
    /\ reindex.toScan = {} /\ reindex.found = {}
    /\ reindex' = IdleReindex
    /\ UNCHANGED <<evidence, vault, healthy, consumer, promo, mirrors, stale, budget>>

-----------------------------------------------------------------------------
(* Expiry.  The TTL is days and an ingest touches the candidate, its aliases *)
(* and its variants within moments, so nothing it has just written expires   *)
(* before it is done.                                                        *)

BeingWritten(c) == step \in {"cluster", "evidence", "ack"} /\ ingest.target = c

ExpireCandidate(c) ==
    /\ Spend("expiries")
    /\ c \in DOMAIN cand
    /\ ~BeingWritten(c)
    /\ cand' = Without(cand, c)
    /\ UNCHANGED <<listed, cluster, variants, vault, healthy, consumer, promo, mirrors, stale, reindex>>

\* Written last, the variants outlive the hash.
ExpireVariants(c) ==
    /\ c \notin DOMAIN cand
    /\ ~BeingWritten(c)
    /\ variants[c] # {}
    /\ variants' = [variants EXCEPT ![c] = {}]
    /\ UNCHANGED <<cand, listed, cluster, vault, healthy, consumer, promo, mirrors, stale, reindex, budget>>

\* An alias expires on its own when no record refreshes it.
ExpireCluster(k) ==
    /\ Spend("expiries")
    /\ k \in DOMAIN cluster
    /\ ~BeingWritten(cluster[k])
    /\ cluster' = Without(cluster, k)
    /\ UNCHANGED <<cand, listed, variants, vault, healthy, consumer, promo, mirrors, stale, reindex>>

Promote ==
    \E p \in Promoters :
        \/ \E c \in CandIds : PromoteRead(p, c)
        \/ \E f \in Families : PromoteCall(p, f)
        \/ PromotePublish(p)
        \/ PromoteStage(p)
        \/ PromoteFails(p)

Listing ==
    \/ \E c \in CandIds, s \in States :
          Mirror(c, s) \/ MirrorLost(c, s) \/ ListStale(s, c) \/ RemoveStale(s, c)
             \/ ReindexAdd(c, s)
    \/ ReindexStart
    \/ \E s \in States : ReindexDrop(s)
    \/ \E c \in CandIds : ReindexRead(c)
    \/ ReindexDone

Expiry ==
    \/ \E c \in CandIds : ExpireCandidate(c) \/ ExpireVariants(c)
    \/ \E k \in DOMAIN cluster : ExpireCluster(k)

\* The topic has been read and nothing else is going on.
Idle ==
    /\ ~Handling
    /\ UNCHANGED vars

Next ==
    \/ Consume
    \/ IngestFails
    \/ ConsumerFails
    \/ Restart
    \/ Promote
    \/ Probe
    \/ \E c \in CandIds : Reject(c)
    \/ Listing
    \/ Expiry
    \/ Idle

Spec == Init /\ [][Next]_vars

\* The consumer task is scheduled whenever it has something to do.  Nothing
\* makes somebody restart a process whose consumer has failed.
FairSpec == Spec /\ WF_vars(Consume)

-----------------------------------------------------------------------------
(* Properties.                                                              *)

\* The consumer never advances the committed offset past a message it failed to
\* ingest, across retries, lost commits and restarts.
NoMessageSkipped == \A i \in 1..committed - 1 : i \in handled

\* Every message is eventually handled, once the store stops failing, unless
\* run() has returned an error and nobody restarts the process.
EveryMessageHandled == <>(handled = 1..Len(Log)) \/ <>[](step = "failed")

\* policy.rs: after a failed set_state "the state guard plus the registry's
\* write-once alias still prevent a duplicate schema": every schema is what
\* some candidate's alias points at, so no candidate ever yields two, however
\* its promotions race, repeat or follow an expiry.
OneSchemaPerCandidate == DOMAIN schemas = {alias[c] : c \in DOMAIN alias}

\* A candidate leaves Provisional for Staged only on the strength of a schema
\* that is already durable.
StagedHasSchema ==
    \A c \in DOMAIN cand : cand[c].state = "staged" => c \in DOMAIN alias

\* A candidate's profile and count are those of the records folded into it: an
\* ingest that fails half-way and is retried loses none.
ProfileIsWhatWasSeen ==
    \A c \in DOMAIN cand :
        /\ cand[c].profile = {Log[i].shape : i \in cand[c].seen}
        /\ cand[c].count >= Cardinality(cand[c].seen)

\* No update of the listings is under way.
AtRest == mirrors = {} /\ stale = {} /\ reindex.step = "idle"

\* However rejections, promotions, ingests and rebuild_candidate_index
\* interleave, no candidate has dropped out of the listings once their updates
\* are done, as long as none has expired (RemoveStale may then remove an id
\* that was listed anew).
ListedSomewhere ==
    AtRest /\ budget.expiries = MaxExpiries =>
        \A c \in DOMAIN cand : \E s \in States : c \in listed[s]

\* What promotion does to the vault is what Vault's publishers may do.
PublishesLikeVault == V!Spec

=============================================================================
